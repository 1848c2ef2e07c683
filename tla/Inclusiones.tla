---------------------------- MODULE Inclusiones ----------------------------
(***************************************************************************)
(* The expansion of `incluir "x.lat"` (procesarInclusioneesLat in          *)
(* src/main.cpp): every include of a .lat file is replaced, in place and   *)
(* recursively, by the statements of that file; the texts of the paths     *)
(* already met are kept in `visitados`.                                    *)
(*                                                                         *)
(* A path is what fs::path holds: whether it is absolute and its segments, *)
(* ".." and "." among them, as they were written.  A file on disk is known *)
(* by the segments from the root to it.  A statement of a file is either   *)
(* an include or a declaration, of which only its place is kept.           *)
(***************************************************************************)
EXTENDS Naturals, Sequences, SequencesExt, FiniteSets

CONSTANTS
  Archivos,    \* files: segments from the root
  Cwd,         \* the directory the compiler runs in
  Principales, \* the paths the command line may give
  Incluibles,  \* the paths that can follow `incluir`
  Discos,      \* contents the files may have: [Archivos -> Contenido]
  MaxAbiertos, \* files of the expansion the process may hold open at once
  MaxRuta      \* segments of the longest path the system opens

Ruta == [absoluta : BOOLEAN, segs : Seq(STRING)]

(* An include of a .lat file, of a library of the runtime, or a declaration.*)
Sentencia == [tipo : {"incluir"}, mod : Incluibles] \cup [tipo : {"libreria", "decl"}]

(* What opening and parsing a file gives.                                   *)
Contenido == [lectura : {"abre", "no_abre", "sintaxis"}, sents : Seq(Sentencia)]

(* fs::path: `d / m`, parent_path, absolute.                                *)
Dividir(d, m) ==
  IF m.absoluta THEN m ELSE [absoluta |-> d.absoluta, segs |-> d.segs \o m.segs]
Padre(r) == [r EXCEPT !.segs = Front(@)]
Absoluta(r) == Dividir([absoluta |-> TRUE, segs |-> Cwd], r)

Puntos == {".", ".."}
Nombre == STRING \ Puntos
Limpia(r) == Range(r.segs) \cap Puntos = {}

(* The file the system opens for a path: "." stays, ".." goes up.           *)
Entra(d, x) ==
  IF x = "." THEN d
  ELSE IF x # ".." THEN Append(d, x)
  ELSE IF d = <<>> THEN d ELSE Front(d)
Camina(d, s) ==
  LET paso[n \in 0 .. Len(s)] == IF n = 0 THEN d ELSE Entra(paso[n - 1], s[n])
  IN  paso[Len(s)]
Abre(r) == Camina(IF r.absoluta THEN <<>> ELSE Cwd, r.segs)

Absolutas == {m \in Incluibles : m.absoluta}

(* The calls an expansion may need when no circle makes it go on: a file    *)
(* for each path that begins a text anew, and the entry.                    *)
Holgura == (Cardinality(Absolutas) + 1) * Cardinality(Archivos) + 1

(* Files and the directory go by their names; a path that is opened ends in *)
(* a name.  The system can open what that many calls open: a file each, by  *)
(* a text that begins with b segments and has m more for each call.         *)
ASSUME ConstantesAssumption ==
  /\ Cwd \in Seq(Nombre) /\ Archivos \subseteq Seq(Nombre) \ {<<>>}
  /\ \A r \in Principales \cup Incluibles : r \in Ruta /\ r.segs # <<>> /\ Last(r.segs) \in Nombre
  /\ \A r \in Principales : Abre(r) \in Archivos
  /\ Discos \subseteq [Archivos -> Contenido]
  /\ \A d \in Discos, r \in Principales : d[Abre(r)].lectura = "abre"
  /\ IsFiniteSet(Archivos) /\ IsFiniteSet(Absolutas)
  /\ MaxAbiertos \in Nat /\ MaxAbiertos > Holgura
  /\ MaxRuta \in Nat
  /\ \E b, m \in 0 .. MaxRuta :
       /\ \A r \in Principales \cup Absolutas : Len(r.segs) <= b + 1
       /\ \A r \in Incluibles \ Absolutas : Len(r.segs) <= m + 1
       /\ b + m * Holgura < MaxRuta

-----------------------------------------------------------------------------
VARIABLES
  disco,      \* the files
  entrada,    \* the path on the command line
  pila,       \* the active calls, outermost first
  visitados,  \* the texts of the paths met
  resultado,  \* "pendiente", "ok" or "error"
  programa    \* the statements of the expanded program

vars == <<disco, entrada, pila, visitados, resultado, programa>>

(* A statement of the expanded program: where it was written.               *)
Origen == [archivo : Archivos, pos : Nat \ {0}]

(* A call: the file it expands, where its includes are looked for, the next *)
(* statement, the list being built and its `ok`.                            *)
Llamada == [archivo : Archivos, dirBase : Ruta, pos : Nat \ {0}, nueva : Seq(Origen), ok : BOOLEAN]

Llamar(a, dir) == [archivo |-> a, dirBase |-> dir, pos |-> 1, nueva |-> <<>>, ok |-> TRUE]

Init ==
  /\ disco \in Discos /\ entrada \in Principales
  /\ pila = <<Llamar(Abre(entrada), Padre(entrada))>>
  /\ visitados = {Absoluta(entrada)}
  /\ resultado = "pendiente"
  /\ programa = <<>>

Tope == Last(pila)
Sentencias(a) == disco[a].sents
Actual == Sentencias(Tope.archivo)[Tope.pos]
Quedan == pila # <<>> /\ Tope.pos <= Len(Sentencias(Tope.archivo))
EnInclusion == Quedan /\ Actual.tipo = "incluir"

(* dirBase / mod, the text that visitados knows.                            *)
Destino == Dividir(Tope.dirBase, Actual.mod)

(* The call on top becomes c.                                               *)
ConTope(c) == Append(Front(pila), c)

(* Anything that is not an include of a .lat file is kept.                  *)
Copiar ==
  /\ Quedan /\ Actual.tipo # "incluir"
  /\ pila' = ConTope([Tope EXCEPT !.pos = @ + 1,
                        !.nueva = Append(@, [archivo |-> Tope.archivo, pos |-> Tope.pos])])
  /\ UNCHANGED <<disco, entrada, visitados, resultado, programa>>

(* Mutant: a path already met does not end the turn of the loop.            *)
OmitirSinAvanzar ==
  /\ EnInclusion /\ Destino \in visitados
  /\ UNCHANGED vars

(* A path already met: the include disappears.                              *)
Omitir ==
  /\ EnInclusion /\ Destino \in visitados
  /\ pila' = ConTope([Tope EXCEPT !.pos = @ + 1])
  /\ UNCHANGED <<disco, entrada, visitados, resultado, programa>>

(* The system opens a path if it is not too long and one more file can be   *)
(* open: every call holds its own until it returns.                         *)
Cabe == Len(Destino.segs) <= MaxRuta /\ Len(pila) < MaxAbiertos

(* A path not met: it is marked before the file is opened.  A file that     *)
(* cannot be opened or parsed is an error and the expansion goes on.        *)
Legible == Abre(Destino) \in Archivos /\ disco[Abre(Destino)].lectura = "abre"
Abierto == Cabe /\ Legible

Fallar ==
  /\ EnInclusion /\ Destino \notin visitados /\ ~Abierto
  /\ visitados' = visitados \cup {Destino}
  /\ pila' = ConTope([Tope EXCEPT !.pos = @ + 1, !.ok = FALSE])
  /\ UNCHANGED <<disco, entrada, resultado, programa>>

(* Mutant of Entrar: the path is not marked.                                *)
EntrarSinMarcar ==
  /\ EnInclusion /\ Destino \notin visitados /\ Abierto
  /\ pila' = Append(pila, Llamar(Abre(Destino), Padre(Destino)))
  /\ UNCHANGED <<disco, entrada, visitados, resultado, programa>>

Entrar ==
  /\ EnInclusion /\ Destino \notin visitados /\ Abierto
  /\ visitados' = visitados \cup {Destino}
  /\ pila' = Append(pila, Llamar(Abre(Destino), Padre(Destino)))
  /\ UNCHANGED <<disco, entrada, resultado, programa>>

(* A call ends: its list takes the place of the include in its caller.      *)
Acabada == pila # <<>> /\ Tope.pos > Len(Sentencias(Tope.archivo))

(* Mutant: the included statements are put before everything so far.        *)
VolverAlPrincipio ==
  /\ Acabada /\ Len(pila) > 1
  /\ LET c == pila[Len(pila) - 1]
     IN  pila' = Append(SubSeq(pila, 1, Len(pila) - 2),
                        [c EXCEPT !.pos = @ + 1, !.nueva = Tope.nueva \o @, !.ok = @ /\ Tope.ok])
  /\ UNCHANGED <<disco, entrada, visitados, resultado, programa>>

Volver ==
  /\ Acabada /\ Len(pila) > 1
  /\ LET c == pila[Len(pila) - 1]
     IN  pila' = Append(SubSeq(pila, 1, Len(pila) - 2),
                        [c EXCEPT !.pos = @ + 1, !.nueva = @ \o Tope.nueva, !.ok = @ /\ Tope.ok])
  /\ UNCHANGED <<disco, entrada, visitados, resultado, programa>>

(* The outermost call ends: main goes on, or gives up.                      *)
Terminar ==
  /\ Acabada /\ Len(pila) = 1
  /\ pila' = <<>>
  /\ resultado' = IF Tope.ok THEN "ok" ELSE "error"
  /\ programa' = Tope.nueva
  /\ UNCHANGED <<disco, entrada, visitados>>

Next == Copiar \/ Omitir \/ Fallar \/ Entrar \/ Volver \/ Terminar

Spec == Init /\ [][Next]_vars

(* One thread runs the expansion.                                           *)
FairSpec == Spec /\ WF_vars(Next)

-----------------------------------------------------------------------------
(* What the includes of a file reach, told without the expansion.           *)

Abribles(d) == {a \in Archivos : d[a].lectura = "abre"}
Inclusiones(d, a) == {k \in 1 .. Len(d[a].sents) : d[a].sents[k].tipo = "incluir"}

(* An include: its file and its place there.  A file includes relative to   *)
(* its own directory.                                                       *)
Pasos(d) == UNION {{a} \X Inclusiones(d, a) : a \in Abribles(d)}
Mod(d, c) == d[c[1]].sents[c[2]].mod
Incluye(d, c) == Abre(Dividir([absoluta |-> TRUE, segs |-> Front(c[1])], Mod(d, c)))

(* The readable files reached from a by the includes I: the least set.      *)
Alcanza(d, I, a) ==
  LET lleva == [c \in I |-> Incluye(d, c)]
  IN  {b \in Abribles(d) :
         \A H \in SUBSET Abribles(d) :
           /\ {a} \cap Abribles(d) \subseteq H
           /\ \A c \in I : c[1] \in H => {lleva[c]} \cap Abribles(d) \subseteq H
           => b \in H}

(* What is reached from the entry e, and the includes met.                  *)
Alcanzados(d, e) == Alcanza(d, Pasos(d), Abre(e))
Pasados(d, e) == {c \in Pasos(d) : c[1] \in Alcanzados(d, e)}

(* Includes met whose text has a "." or "..", which visitados keeps: the    *)
(* same file has another text each time such an include is passed; but an   *)
(* absolute include begins a text anew.                                     *)
ConPuntos(d, e) == {c \in Pasados(d, e) : ~Limpia(Mod(d, c))}
Relativos(d) == {c \in Pasos(d) : ~Mod(d, c).absoluta}
CirculoConPuntos(d, e) ==
  \E c \in ConPuntos(d, e) \cap Relativos(d) : c[1] \in Alcanza(d, Relativos(d), Incluye(d, c))

(* A file is known by one text when the includes have no such segments, and *)
(* are relative or else the entry is given by its absolute path without any.*)
Canonica(e) == e.absoluta /\ Limpia(e)
UnTexto(d, e) == ConPuntos(d, e) = {} /\ (Canonica(e) \/ Pasados(d, e) \subseteq Relativos(d))

(* The entry given by a relative path is visited by its absolute one, and   *)
(* its includes are looked for by the relative one.                         *)
Repetible(a) == ~entrada.absoluta /\ a = Abre(entrada)

-----------------------------------------------------------------------------
(* Properties.                                                              *)

(* Types of the expansion's state.                                          *)
TypeOK ==
  /\ disco \in Discos /\ entrada \in Principales
  /\ pila \in Seq(Llamada)
  /\ visitados \subseteq Ruta
  /\ resultado \in {"pendiente", "ok", "error"}
  /\ programa \in Seq(Origen)

(* A file being expanded is not entered again, so that no include goes      *)
(* round in a circle: but for the entry named by a relative path, entered   *)
(* once more, and for files of several texts.  (Code: `visitados` of        *)
(* procesarInclusioneesLat, keyed by the text of dirBase / mod.)            *)
SinCirculos ==
  UnTexto(disco, entrada) =>
    \A j, k \in DOMAIN pila :
      j < k /\ pila[j].archivo = pila[k].archivo => j = 1 /\ Repetible(pila[k].archivo)

(* A circle of relative includes that passes one with "." or ".." ends in   *)
(* an error, though every file can be read: its text grows until the system *)
(* opens it no more.  Without one the system's limits do not show: the      *)
(* program is accepted exactly when every file reached can be read, and it  *)
(* has all their statements: each once, but for files of several texts and  *)
(* for the entry named by a relative path; those of a file in their order;  *)
(* and what a file includes before what follows the include, unless the two *)
(* files include each other.  (Code: the splicing and the `ok` of           *)
(* procesarInclusioneesLat, and the open files its calls hold.)             *)
Completa ==
  LET leidos == Alcanzados(disco, entrada)
  IN  /\ Range(programa) =
           UNION {[archivo : {a}, pos : DOMAIN disco[a].sents \ Inclusiones(disco, a)] : a \in leidos}
      /\ resultado = "ok" <=>
           \A c \in Pasados(disco, entrada) : Incluye(disco, c) \in Abribles(disco)
Ordenada ==
  LET I == Pasos(disco) IN
  \A j, k \in DOMAIN programa :
    LET x == programa[j]  y == programa[k] IN
    /\ x = y => j = k \/ Repetible(x.archivo)
    /\ x.archivo = y.archivo /\ x.pos < y.pos => j < k \/ Repetible(x.archivo)
    /\ (\E i \in Inclusiones(disco, y.archivo) :
          LET debajo == Alcanza(disco, I, Incluye(disco, <<y.archivo, i>>))
          IN  i < y.pos /\ y.archivo \notin debajo /\ x.archivo \in debajo)
         => j < k
ExpansionFiel ==
  resultado # "pendiente" =>
    IF CirculoConPuntos(disco, entrada) THEN resultado = "error"
    ELSE Completa /\ (UnTexto(disco, entrada) => Ordenada)

(* The expansion ends, circles with "." or ".." included: the system opens  *)
(* finitely many texts and each of them once.  (Code: `visitados` and the   *)
(* `ok` of procesarInclusioneesLat.)                                        *)
Termina == <>(resultado # "pendiente")
=============================================================================

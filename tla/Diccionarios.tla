---------------------------- MODULE Diccionarios ----------------------------
(*************************************************************************)
(* The dictionaries of the runtime: the blocks of runtime/latino.c       *)
(* (LatDic, dic_nuevo, dic_poner, lat_asignar_indice,                    *)
(* lat_obtener_indice, lat_obtener_miembro) and the library of           *)
(* runtime/libs/dic.c.  A block has two arrays that must move together,  *)
(* keys and values, with one length and one capacity.  Keys are the      *)
(* texts lat_a_cadena gives, so that d[1] and d["1"] are one entry.  A   *)
(* text is the sequence of its characters, of which the program tells    *)
(* apart those that lat_cadena reads as escapes when it lists the keys.  *)
(* The operations that insert one entry after another into a block that  *)
(* may be their own source are a step per turn of their loop.            *)
(*************************************************************************)
EXTENDS Integers, Sequences, FiniteSets

CONSTANTS
  Llaves,       \* scalars a program uses as keys
  Texto,        \* lat_a_cadena of each of them
  Datos,        \* values it stores, opaque here: scalars, lists, dictionaries
  Ids,          \* addresses of the blocks the program can allocate
  Basura,       \* what malloc leaves in a cell
  Libre,        \* no loop is running
  MaxArgs       \* bound: entries of a literal

Textos == {Texto[k] : k \in Llaves}

ASSUME TextoAssumption == \A k \in Llaves : Texto[k] \in Seq(STRING)
ASSUME BasuraAssumption == Basura \notin Textos \cup Datos \cup Ids
ASSUME LibreAssumption == Libre \notin Ids
ASSUME IdsAssumption == Ids \cap Datos = {}
ASSUME MaxArgsAssumption == MaxArgs \in Nat

VARIABLES
  dics,         \* the block at every address allocated so far
  estado,       \* "corre", or "abortado" after abortar()
  destino,      \* the block the running loop inserts into, or Libre
  args,         \* the entries of a literal that are left to insert
  fuentes,      \* the blocks whose entries are left to insert, the first of
  turno,        \*   them from its entry `turno` on
  pedido,       \* auxiliary: the call whose loop is running, if one is,
  previo        \*   and the functions the blocks were when it began

llamada == <<pedido, previo>>
bucle == <<destino, args, fuentes, turno, llamada>>
vars == <<dics, estado, destino, args, fuentes, turno, pedido, previo>>

Vivos == Datos \cup DOMAIN dics
Usadas(d) == 0..(d.longitud - 1)

-----------------------------------------------------------------------------
(* Memory *)

(* dic_nuevo: what it is asked for, and 4 cells when that is none. *)
DicNuevo(n) ==
  LET c == IF n = 0 THEN 4 ELSE n
      enBlanco == [i \in 0..(c - 1) |-> Basura]
  IN [longitud |-> 0, capacidad |-> c, claves |-> enBlanco, valores |-> enBlanco]

(* realloc to n cells keeps the old ones. *)
Realojado(f, n) == [i \in 0..(n - 1) |-> IF i \in DOMAIN f THEN f[i] ELSE Basura]

(* Room for one more entry. *)
Crecido(d) ==
  IF d.longitud < d.capacidad THEN d
  ELSE [d EXCEPT !.capacidad = 2 * @, !.claves = Realojado(@, 2 * d.capacidad),
                 !.valores = Realojado(@, 2 * d.capacidad)]

(* The place of the first entry with key k: one or none. *)
Lugar(d, k) ==
  {i \in Usadas(d) : d.claves[i] = k /\ \A j \in 0..(i - 1) : d.claves[j] # k}

AlFinal(d, k, v) ==
  [d EXCEPT !.longitud = @ + 1, !.claves[d.longitud] = k, !.valores[d.longitud] = v]

ConValor(d, k, v) ==
  [d EXCEPT !.valores = [i \in DOMAIN @ |-> IF i \in Lugar(d, k) THEN v ELSE @[i]]]

(* mutant: the search stops one entry short. *)
PuestoSinMirar(d, k, v) ==
  IF \E i \in Lugar(d, k) : i < d.longitud - 1 THEN ConValor(d, k, v) ELSE AlFinal(Crecido(d), k, v)

(* memmove of everything after place i one place down. *)
Corrido(f, i, n) == [j \in DOMAIN f |-> IF i <= j /\ j < n - 1 THEN f[j + 1] ELSE f[j]]

(* dic_poner, dic_insertar: an entry keeps its place when its value changes. *)
Puesto(d, k, v) ==
  IF Lugar(d, k) # {} THEN ConValor(d, k, v) ELSE AlFinal(Crecido(d), k, v)

(* dic.eliminar: both arrays are moved. *)
Quitado(d, i) ==
  [d EXCEPT !.longitud = @ - 1, !.claves = Corrido(@, i, d.longitud),
            !.valores = Corrido(@, i, d.longitud)]

(* The function a block stands for. *)
Mapa(d) ==
  [k \in {d.claves[i] : i \in Usadas(d)} |-> d.valores[CHOOSE i \in Lugar(d, k) : TRUE]]
Mapas(ds) == [a \in DOMAIN ds |-> Mapa(ds[a])]

-----------------------------------------------------------------------------
(* The loops: they begin with a destination and what is to be inserted. *)

Empieza(r, es, fs) ==
  /\ destino' = r /\ args' = es /\ fuentes' = fs /\ turno' = 0
  /\ previo' = Mapas(dics)
  /\ UNCHANGED estado

Anota(que, en, con) == pedido' = <<[que |-> que, en |-> en, con |-> con]>>

Nuevo(id, n) ==
  dics' = [x \in DOMAIN dics \cup {id} |-> IF x = id THEN DicNuevo(n) ELSE dics[x]]

(* lat_dic_de_args. *)
Literal(id) ==
  \E n \in 0..MaxArgs : \E es \in [1..n -> Llaves \X Datos] :
    /\ Nuevo(id, n) /\ Empieza(id, es, <<>>)
    /\ Anota("literal", id, [i \in 1..n |-> <<Texto[es[i][1]], es[i][2]>>])

Longitud(v) == IF v \in DOMAIN dics THEN dics[v].longitud ELSE 0
SiEsDic(v) == IF v \in DOMAIN dics THEN <<v>> ELSE <<>>

(* dic.combinar: an argument that is no dictionary counts as an empty one. *)
Combinar(id) ==
  \E a, b \in Vivos :
    /\ Nuevo(id, Longitud(a) + Longitud(b)) /\ Empieza(id, <<>>, SiEsDic(a) \o SiEsDic(b))
    /\ Anota("combinar", id, <<a, b>>)

Copiar(id) ==
  \E a \in Vivos :
    Nuevo(id, Longitud(a)) /\ Empieza(id, <<>>, SiEsDic(a)) /\ Anota("copiar", id, <<a>>)

(* dic.actualizar: the destination may be the source. *)
Actualizar(a) ==
  \E b \in DOMAIN dics :
    UNCHANGED dics /\ Empieza(a, <<>>, <<b>>) /\ Anota("actualizar", a, <<b>>)

Inserta(k, v) == dics' = [dics EXCEPT ![destino] = Puesto(@, k, v)]

PonArg ==
  /\ args # <<>>
  /\ Inserta(Texto[args[1][1]], args[1][2])
  /\ args' = Tail(args)
  /\ UNCHANGED <<estado, destino, fuentes, turno, llamada>>

Quedan == fuentes # <<>> /\ turno < dics[fuentes[1]].longitud

(* The length of the source is read again at every turn of actualizar; in
   the others the destination is new and the length cannot change. *)
PonEntrada ==
  /\ args = <<>> /\ Quedan
  /\ LET d == dics[fuentes[1]] IN Inserta(d.claves[turno], d.valores[turno])
  /\ turno' = turno + 1
  /\ UNCHANGED <<estado, destino, args, fuentes, llamada>>

(* mutant: the place in the second source is where the first one ended. *)
OtraFuenteSinVolver ==
  /\ args = <<>> /\ fuentes # <<>> /\ ~Quedan
  /\ fuentes' = Tail(fuentes)
  /\ UNCHANGED <<dics, estado, destino, args, turno, llamada>>

OtraFuente ==
  /\ args = <<>> /\ fuentes # <<>> /\ ~Quedan
  /\ fuentes' = Tail(fuentes) /\ turno' = 0
  /\ UNCHANGED <<dics, estado, destino, args, llamada>>

Acaba ==
  /\ args = <<>> /\ fuentes = <<>>
  /\ destino' = Libre /\ pedido' = <<>> /\ previo' = [a \in {} |-> 0]
  /\ UNCHANGED <<dics, estado, args, fuentes, turno>>

-----------------------------------------------------------------------------
(* Operations on one entry *)

(* d[k] = v *)
AsignarIndice(a) ==
  \E k \in Llaves, v \in Datos :
    dics' = [dics EXCEPT ![a] = Puesto(@, Texto[k], v)] /\ UNCHANGED <<estado, bucle>>

(* dic.eliminar *)
Eliminar(a) ==
  \E k \in Llaves : \E i \in Lugar(dics[a], Texto[k]) :
    dics' = [dics EXCEPT ![a] = Quitado(@, i)] /\ UNCHANGED <<estado, bucle>>

(* d[k] of a key that is not there calls abortar(); d.k of one gives "". *)
ObtenerIndiceAusente(a) ==
  /\ \E k \in Llaves : Lugar(dics[a], Texto[k]) = {}
  /\ estado' = "abortado" /\ UNCHANGED <<dics, bucle>>

Init ==
  /\ dics = [a \in {} |-> DicNuevo(0)] /\ estado = "corre"
  /\ destino = Libre /\ args = <<>> /\ fuentes = <<>> /\ turno = 0
  /\ pedido = <<>> /\ previo = [a \in {} |-> 0]

Operacion ==
  \/ \E id \in Ids \ DOMAIN dics : Literal(id) \/ Combinar(id) \/ Copiar(id)
  \/ \E a \in DOMAIN dics : \/ Actualizar(a) \/ AsignarIndice(a) \/ Eliminar(a)
                            \/ ObtenerIndiceAusente(a)

Vuelta == PonArg \/ PonEntrada \/ OtraFuente \/ Acaba

Next ==
  /\ estado = "corre"
  /\ \/ destino = Libre /\ Operacion
     \/ destino # Libre /\ Vuelta

Spec == Init /\ [][Next]_vars

-----------------------------------------------------------------------------
(* Queries: they read the blocks and change nothing. *)

DicContiene(d, k) == Lugar(d, k) # {}
ObtenerMiembro(d, k) == IF DicContiene(d, k) THEN d.valores[CHOOSE i \in Lugar(d, k) : TRUE]
                        ELSE Basura

(* What a backslash and each letter it is read with give. *)
Leida ==
  [c \in {"n", "t", "r", "\\", "\"", "'"} |->
     CASE c = "n" -> "\n" [] c = "t" -> "\t" [] c = "r" -> "\r" [] OTHER -> c]

(* The backslashes that are read with the letter after them: of several in
   a row the first, the third and so on may be, as each takes the next. *)
Escapes(t) ==
  {i \in 1..(Len(t) - 1) :
     /\ t[i + 1] \in DOMAIN Leida
     /\ \E b \in 1..i : /\ \A j \in b..i : t[j] = "\\"
                        /\ (b = 1 \/ t[b - 1] # "\\") /\ (i - b) % 2 = 0}

(* lat_cadena: the text without those backslashes, and in the place of the
   letters what they are read as. *)
LatCadena(t) ==
  LET quedan == DOMAIN t \ Escapes(t)
      Quedado(n) == CHOOSE i \in quedan : Cardinality({j \in quedan : j <= i}) = n
      Caracter(i) == IF i - 1 \in Escapes(t) THEN Leida[t[i]] ELSE t[i]
  IN  [n \in 1..Cardinality(quedan) |-> Caracter(Quedado(n))]

(* dic.llaves makes of every key a text of the program, and dic.elementos
   does too, beside the value dic.valores lists. *)
DicLlaves(d) == [i \in 1..d.longitud |-> LatCadena(d.claves[i - 1])]
DicValores(d) == [i \in 1..d.longitud |-> d.valores[i - 1]]

-----------------------------------------------------------------------------
(* Properties *)

(* Both arrays of a block have the cells its capacity says, no operation
   writes beyond them, and no entry in use holds a cell nobody wrote. *)
TypeOK ==
  /\ estado \in {"corre", "abortado"}
  /\ destino \in DOMAIN dics \cup {Libre}
  /\ DOMAIN dics \subseteq Ids
  /\ \A a \in DOMAIN dics :
       LET d == dics[a]
       IN /\ d.longitud \in 0..d.capacidad
          /\ DOMAIN d.claves = 0..(d.capacidad - 1)
          /\ DOMAIN d.valores = 0..(d.capacidad - 1)
          /\ \A i \in Usadas(d) : d.claves[i] \in Textos /\ d.valores[i] \in Datos

(* A key is no escape's when no backslash in it has such a letter after it. *)
SinEscapes(t) == \A i \in 1..(Len(t) - 1) : ~(t[i] = "\\" /\ t[i + 1] \in DOMAIN Leida)

(* What dic.llaves, dic.valores and dic.elementos list is what d[k] and
   dic.contiene find: no key is twice in a block, so that the value listed
   beside a key is the value the search, which stops at the first, gives.
   A key with an escape is listed as another text, by which its own entry is
   not found, but none or another's.  (Code: lat_cadena of the keys in
   lat_dic_llaves and lat_dic_elementos, strcmp in the searches.) *)
ListadoEncontrable ==
  \A a \in DOMAIN dics : \A i \in 1..dics[a].longitud :
    LET d == dics[a]
        k == DicLlaves(d)[i]
    IN  IF SinEscapes(d.claves[i - 1])
        THEN DicContiene(d, k) /\ ObtenerMiembro(d, k) = DicValores(d)[i]
        ELSE i - 1 \notin Lugar(d, k)

(* Whatever the aliases, the capacities and the loops, the blocks behave as
   the functions dic.h promises, and each call does what it says at once. *)
Abstractos == INSTANCE DiccionariosAbstractos
                WITH mapa <- IF destino = Libre THEN Mapas(dics) ELSE previo
Funciones == Abstractos!Spec
=============================================================================

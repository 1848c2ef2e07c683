------------------------- MODULE InvocacionPruebas -------------------------
(***************************************************************************)
(* Proofs about the runs of latino: however many of them, with whatever    *)
(* command lines and in whatever order of their steps, each makes, runs    *)
(* and answers for its own program (CadaUnoLoSuyo) unless runs of two      *)
(* programs meet on the files it uses.                                     *)
(***************************************************************************)
EXTENDS Invocacion, TLAPS

Pasos == {"espera", "leer", "decidir", "jit", "texto", "abrir", "escribir", "compilar",
          "enlazar", "producir", "cerrar", "ejecutar", "fin"}
Contenido == [clase : {"fuente", "trunco", "c", "obj", "exe"}, de : Fuentes \cup {Ninguno}]

Activo(p) == paso[p] \notin {"espera", "fin"}
Leyo(p)   == paso[p] \notin {"espera", "leer", "fin"}
Ruta(p)   == pedido[p].ruta

(* A file that is not cut short is of program f. *)
Suyo(c, f) == c.clase # "trunco" => c.de = f

Formas ==
  /\ pedido \in Escenas
  /\ paso \in [Procesos -> Pasos]
  /\ leido \in [Procesos -> Fuentes \cup {Ninguno}]
  /\ tiene \in [Procesos -> Contenido]
  /\ ejecutado \in [Procesos -> Fuentes \cup {Ninguno}]
  /\ codigo \in [Procesos -> Nat]
  /\ \A a \in DOMAIN disco : disco[a] \in Contenido

(* A source that is still one is where it was. *)
FuentesFieles == \A a \in DOMAIN disco : disco[a].clase = "fuente" => disco[a].de = a

(* The runs that are going on have met. *)
JuntosTodos == \A p, q \in Procesos : p # q /\ Activo(p) /\ Activo(q) => {p, q} \in juntos

(* What p has read is its source, which stays where it is. *)
LeidoBien(p) ==
  /\ paso[p] \in {"espera", "leer"} => leido[p] = Ninguno
  /\ Leyo(p) => /\ leido[p] = Ruta(p)
                /\ ~Pisada(p) => Guarda(Ruta(p), Contiene("fuente", Ruta(p)))

(* p is where its options lead. *)
CaminoBien(p) ==
  /\ paso[p] # "fin" => ejecutado[p] = Ninguno
  /\ paso[p] = "jit" => Pide(p, "jit") /\ ~SoloTexto(p) /\ ~VuelcaArbol(p)
  /\ paso[p] = "texto" => SoloTexto(p) /\ ~VuelcaArbol(p) /\ pedido[p].salida # Sin
  /\ paso[p] \in {"abrir", "escribir", "compilar", "enlazar", "producir", "cerrar", "ejecutar"}
       => HaceEjecutable(p)
  /\ paso[p] = "enlazar" => DejaObjeto(p)

(* What p is going to read back, or has read, is of its own program. *)
ContenidoBien(p) ==
  /\ paso[p] = "compilar" /\ Hay(Intermedio(p)) => Suyo(disco[Intermedio(p)], Ruta(p))
  /\ paso[p] = "enlazar" /\ Hay(Objeto(p)) => Suyo(disco[Objeto(p)], Ruta(p))
  /\ paso[p] \in {"producir", "cerrar"} => tiene[p].de = Ruta(p)
  /\ paso[p] = "ejecutar" /\ Hay(Salida(p)) => Suyo(disco[Salida(p)], Ruta(p))

Bien(p) == LeidoBien(p) /\ CaminoBien(p) /\ (Aparte(p) => ContenidoBien(p))

Inv == Formas /\ FuentesFieles /\ JuntosTodos /\ \A p \in Procesos : Bien(p)

-----------------------------------------------------------------------------
(* Files and runs. *)

(* The files of a run follow from its command line. *)
LEMMA MismosArchivos ==
  ASSUME UNCHANGED <<build, pedido>>
  PROVE  /\ \A p : /\ Ruta(p)' = Ruta(p) /\ Intermedio(p)' = Intermedio(p)
                   /\ Objeto(p)' = Objeto(p) /\ Salida(p)' = Salida(p) /\ Usa(p)' = Usa(p)
                   /\ Escritos(p)' = Escritos(p)
                   /\ DejaObjeto(p)' = DejaObjeto(p) /\ HaceEjecutable(p)' = HaceEjecutable(p)
                   /\ SoloTexto(p)' = SoloTexto(p) /\ VuelcaArbol(p)' = VuelcaArbol(p)
                   /\ Pide(p, "jit")' = Pide(p, "jit")
         /\ \A p : Pisada(p)' = Pisada(p)
<1>1. \A p : /\ Ruta(p)' = Ruta(p) /\ Intermedio(p)' = Intermedio(p)
             /\ Objeto(p)' = Objeto(p) /\ Salida(p)' = Salida(p)
             /\ DejaObjeto(p)' = DejaObjeto(p) /\ HaceEjecutable(p)' = HaceEjecutable(p)
             /\ SoloTexto(p)' = SoloTexto(p) /\ VuelcaArbol(p)' = VuelcaArbol(p)
             /\ Pide(p, "jit")' = Pide(p, "jit")
  BY DEF Ruta, Intermedio, Objeto, Salida, DejaObjeto, HaceEjecutable, SoloTexto, VuelcaArbol,
         Pide, Backend
<1>2. \A p : Escritos(p)' = Escritos(p) /\ Usa(p)' = Usa(p)
  BY <1>1 DEF Escritos, Usa, Ruta
<1>3. \A p : Pisada(p)' = Pisada(p)
  BY <1>1, <1>2 DEF Pisada, Ruta
<1> QED BY <1>1, <1>2, <1>3

(* Runs only meet: one that is apart has always been. *)
LEMMA AparteAntes ==
  ASSUME UNCHANGED <<build, pedido>>, juntos \subseteq juntos', NEW p \in Procesos, Aparte(p)'
  PROVE  Aparte(p)
<1>1. PICK S \in SUBSET Procesos :
        /\ p \in S
        /\ \A a \in S : /\ pedido'[a].ruta = pedido'[p].ruta
                        /\ \A q \in Procesos : Toca(a, q)' => q \in S
  BY DEF Aparte
<1>2. \A a, q : Toca(a, q) => Toca(a, q)'
  BY MismosArchivos DEF Toca
<1> QED BY <1>1, <1>2 DEF Aparte

(* What a run that is apart touches is of the same source, and apart. *)
LEMMA AparteVecino ==
  ASSUME NEW p \in Procesos, NEW q \in Procesos, Aparte(p), Toca(p, q)
  PROVE  Ruta(q) = Ruta(p) /\ Aparte(q)
BY DEF Aparte, Ruta

(* What is on the disk when c has been written in a. *)
LEMMA Escrito ==
  ASSUME NEW a, NEW c, Escribe(a, c)
  PROVE  /\ DOMAIN disco' = DOMAIN disco \cup {a}
         /\ disco'[a] = c
         /\ \A x \in DOMAIN disco : x # a => disco'[x] = disco[x]
BY DEF Escribe, Con, Hay


-----------------------------------------------------------------------------
(* What a step may do to the other runs. *)

(* q writes c in a, one of its own files, and when it is apart c is of its
   own program. *)
EscribeBien(q, a, c) ==
  /\ a \in Escritos(q)
  /\ c \in Contenido /\ c.clase # "fuente"
  /\ Aparte(q) => Suyo(c, Ruta(q))

(* A step of q: the others are where they were. *)
PasoDe(q) ==
  /\ UNCHANGED <<build, pedido>> /\ juntos \subseteq juntos'
  /\ \A p \in Procesos \ {q} : /\ paso'[p] = paso[p] /\ leido'[p] = leido[p]
                              /\ tiene'[p] = tiene[p] /\ ejecutado'[p] = ejecutado[p]
  /\ \/ UNCHANGED disco
     \/ Activo(q) /\ \E a, c : EscribeBien(q, a, c) /\ Escribe(a, c)

(* The files of a run that is apart hold its program after another writes. *)
LEMMA OtroEscribe ==
  ASSUME Inv, NEW q \in Procesos, NEW p \in Procesos, p # q, Activo(p), Activo(q),
         NEW a, NEW c, EscribeBien(q, a, c), Aparte(p), a \in Escritos(p)
  PROVE  Suyo(c, Ruta(p))
<1>1. a \in Usa(p) /\ a \in Usa(q)
  BY DEF EscribeBien, Usa
<1>2. {p, q} \in juntos
  BY DEF Inv, JuntosTodos
<1>3. Ruta(q) = Ruta(p) /\ Aparte(q)
  BY <1>1, <1>2, AparteVecino DEF Toca
<1> QED BY <1>3 DEF EscribeBien

(* A source that no output has the name of stays as it is. *)
LEMMA RutaSigue ==
  ASSUME Inv, NEW q \in Procesos, PasoDe(q), NEW p \in Procesos, NEW x,
         ~Pisada(p), Guarda(Ruta(p), x)
  PROVE  Guarda(Ruta(p), x)'
<1>1. Ruta(p)' = Ruta(p)
  BY MismosArchivos DEF PasoDe
<1>2. CASE UNCHANGED disco
  BY <1>1, <1>2 DEF Guarda, Hay
<1>3. CASE \E a, c : EscribeBien(q, a, c) /\ Escribe(a, c)
  <2>1. PICK a, c : EscribeBien(q, a, c) /\ Escribe(a, c)
    BY <1>3
  <2>2. a # Ruta(p)
    BY <2>1 DEF EscribeBien, Pisada, Ruta
  <2>3. /\ DOMAIN disco' = DOMAIN disco \cup {a}
        /\ \A y \in DOMAIN disco : y # a => disco'[y] = disco[y]
    BY <2>1, Escrito
  <2> QED BY <1>1, <2>2, <2>3 DEF Guarda, Hay
<1> QED BY <1>2, <1>3 DEF PasoDe

(* A step of one run leaves every other as it should be. *)
LEMMA OtrosBien ==
  ASSUME Inv, NEW q \in Procesos, PasoDe(q), NEW p \in Procesos, p # q
  PROVE  Bien(p)'
<1> USE DEF PasoDe
<1>1. /\ paso'[p] = paso[p] /\ leido'[p] = leido[p]
      /\ tiene'[p] = tiene[p] /\ ejecutado'[p] = ejecutado[p]
  OBVIOUS
<1>2. /\ Ruta(p)' = Ruta(p) /\ Intermedio(p)' = Intermedio(p)
      /\ Objeto(p)' = Objeto(p) /\ Salida(p)' = Salida(p)
      /\ DejaObjeto(p)' = DejaObjeto(p) /\ HaceEjecutable(p)' = HaceEjecutable(p)
      /\ SoloTexto(p)' = SoloTexto(p) /\ VuelcaArbol(p)' = VuelcaArbol(p)
      /\ Pide(p, "jit")' = Pide(p, "jit") /\ Pisada(p)' = Pisada(p)
      /\ pedido'[p] = pedido[p]
  BY MismosArchivos
<1>3. Bien(p)
  BY DEF Inv
<1>4. Aparte(p)' => Aparte(p)
  BY AparteAntes
<1>5. CASE UNCHANGED disco
  BY <1>1, <1>2, <1>3, <1>4, <1>5
     DEF Bien, LeidoBien, CaminoBien, ContenidoBien, Leyo, Guarda, Hay
<1>6. CASE Activo(q) /\ \E a, c : EscribeBien(q, a, c) /\ Escribe(a, c)
  <2>1. PICK a, c : EscribeBien(q, a, c) /\ Escribe(a, c)
    BY <1>6
  <2>2. /\ DOMAIN disco' = DOMAIN disco \cup {a}
        /\ disco'[a] = c
        /\ \A x \in DOMAIN disco : x # a => disco'[x] = disco[x]
    BY <2>1, Escrito
  <2>3. LeidoBien(p)'
    <3>1. \A x : ~Pisada(p) /\ Guarda(Ruta(p), x) => Guarda(Ruta(p), x)'
      BY RutaSigue
    <3> QED BY <1>1, <1>2, <1>3, <3>1 DEF Bien, LeidoBien, Leyo
  <2>4. CaminoBien(p)'
    BY <1>1, <1>2, <1>3, <2>2 DEF Bien, CaminoBien, Hay
  <2>5. ASSUME Aparte(p)'
        PROVE  ContenidoBien(p)'
    <3>1. Aparte(p) /\ ContenidoBien(p) /\ CaminoBien(p)
      BY <1>3, <1>4, <2>5 DEF Bien
    <3>2. paso[p] \in {"compilar", "enlazar", "ejecutar"} => Activo(p)
      BY DEF Activo
    <3>3. ASSUME paso[p] = "compilar", Intermedio(p) \in DOMAIN disco'
          PROVE  Suyo(disco'[Intermedio(p)], Ruta(p))
      <4>1. CASE a = Intermedio(p)
        <5>1. Activo(p) /\ Activo(q) /\ Aparte(p) /\ a \in Escritos(p)
          BY <1>6, <3>1, <3>2, <3>3, <4>1 DEF Escritos
        <5>2. Suyo(c, Ruta(p))
          BY <2>1, <5>1, OtroEscribe
        <5> QED BY <2>2, <4>1, <5>2
      <4>2. CASE a # Intermedio(p)
        BY <2>2, <3>1, <3>3, <4>2 DEF ContenidoBien, Hay
      <4> QED BY <4>1, <4>2
    <3>4. ASSUME paso[p] = "enlazar", Objeto(p) \in DOMAIN disco'
          PROVE  Suyo(disco'[Objeto(p)], Ruta(p))
      <4>1. CASE a = Objeto(p)
        <5>1. Activo(p) /\ Activo(q) /\ Aparte(p) /\ a \in Escritos(p)
          BY <1>6, <3>1, <3>2, <3>4, <4>1 DEF Escritos, CaminoBien
        <5>2. Suyo(c, Ruta(p))
          BY <2>1, <5>1, OtroEscribe
        <5> QED BY <2>2, <4>1, <5>2
      <4>2. CASE a # Objeto(p)
        BY <2>2, <3>1, <3>4, <4>2 DEF ContenidoBien, Hay
      <4> QED BY <4>1, <4>2
    <3>5. ASSUME paso[p] = "ejecutar", Salida(p) \in DOMAIN disco'
          PROVE  Suyo(disco'[Salida(p)], Ruta(p))
      <4>1. CASE a = Salida(p)
        <5>1. Activo(p) /\ Activo(q) /\ Aparte(p) /\ a \in Escritos(p)
          BY <1>6, <3>1, <3>2, <3>5, <4>1 DEF Escritos
        <5>2. Suyo(c, Ruta(p))
          BY <2>1, <5>1, OtroEscribe
        <5> QED BY <2>2, <4>1, <5>2
      <4>2. CASE a # Salida(p)
        BY <2>2, <3>1, <3>5, <4>2 DEF ContenidoBien, Hay
      <4> QED BY <4>1, <4>2
    <3> QED BY <1>1, <1>2, <3>1, <3>3, <3>4, <3>5 DEF ContenidoBien, Suyo, Hay
  <2> QED BY <2>3, <2>4, <2>5 DEF Bien
<1> QED BY <1>5, <1>6


-----------------------------------------------------------------------------
(* The steps of one run. *)

(* What a run writes is in its own files and of its own program. *)
LEMMA SuTexto ==
  ASSUME Inv, NEW q \in Procesos, Activo(q), NEW a, NEW c, a \in {Intermedio(q), Salida(q)},
         \/ c = Vacio
         \/ Leyo(q) /\ c \in {Contiene("c", leido[q]), Contiene("obj", leido[q])}
  PROVE  EscribeBien(q, a, c)
<1>1. Leyo(q) => leido[q] = Ruta(q) /\ leido[q] \in Fuentes \cup {Ninguno}
  BY DEF Inv, Formas, Bien, LeidoBien
<1>2. CASE c = Vacio
  BY <1>2 DEF EscribeBien, Escritos, Contenido, Vacio, Contiene, Suyo
<1>3. CASE Leyo(q) /\ c = Contiene("c", leido[q])
  BY <1>1, <1>3 DEF EscribeBien, Escritos, Contenido, Contiene, Suyo
<1>4. CASE Leyo(q) /\ c = Contiene("obj", leido[q])
  BY <1>1, <1>4 DEF EscribeBien, Escritos, Contenido, Contiene, Suyo
<1> QED BY <1>2, <1>3, <1>4

(* At its texto step a run writes the file the user named. *)
LEMMA SalidaDeTexto ==
  ASSUME Inv, NEW q \in Procesos, paso[q] = "texto"
  PROVE  Salida(q) = pedido[q].salida
BY DEF Inv, Bien, CaminoBien, Salida

(* A step of q writes what it may and leaves the other runs alone. *)
LEMMA PasoDeUno ==
  ASSUME Inv, NEW q \in Procesos, Avanza(q)
  PROVE  PasoDe(q)
<1> USE DEF Sale, Pasa, PasoDe
<1> Formas
  BY DEF Inv
<1>0. \A x : \A p \in Procesos \ {q} : /\ [paso EXCEPT ![q] = x][p] = paso[p]
                                       /\ [leido EXCEPT ![q] = x][p] = leido[p]
                                       /\ [tiene EXCEPT ![q] = x][p] = tiene[p]
                                       /\ [ejecutado EXCEPT ![q] = x][p] = ejecutado[p]
  BY DEF Formas
<1>1. CASE Empezar(q)
  <2>1. (\E x : paso' = [paso EXCEPT ![q] = x]) /\ juntos \subseteq juntos'
    BY <1>1 DEF Empezar
  <2> QED BY <1>0, <1>1, <2>1 DEF Empezar
<1>2a. CASE LeerMal(q)
  BY <1>0, <1>2a DEF LeerMal
<1>2b. CASE LeerBien(q)
  BY <1>0, <1>2b DEF LeerBien
<1>3a. CASE Rechazar(q)
  BY <1>0, <1>3a DEF Rechazar
<1>3b. CASE Seguir(q)
  <2>1. \E x : paso' = [paso EXCEPT ![q] = x]
    BY <1>3b DEF Seguir
  <2> QED BY <1>0, <1>3b, <2>1 DEF Seguir
<1>3c. CASE Jit(q)
  BY <1>0, <1>3c DEF Jit
<1>3d. CASE NoAbre(q)
  BY <1>0, <1>3d DEF NoAbre
<1>3e. CASE Fallar(q)
  BY <1>0, <1>3e DEF Fallar
<1>4. CASE EscribirTexto(q)
  <2>1. PICK c \in {Vacio, Contiene(Clase(q), leido[q])} : Escribe(Salida(q), c)
    BY <1>4, SalidaDeTexto DEF EscribirTexto
  <2>2. EscribeBien(q, Salida(q), c) /\ Activo(q)
    BY <1>4, <2>1, SuTexto DEF EscribirTexto, Activo, Leyo, Clase
  <2> QED BY <1>0, <1>4, <2>1, <2>2 DEF EscribirTexto
<1>5. CASE Abrir(q)
  <2>1. EscribeBien(q, Intermedio(q), Vacio) /\ Activo(q)
    BY <1>5, SuTexto DEF Abrir, Activo
  <2> QED BY <1>0, <1>5, <2>1 DEF Abrir
<1>6. CASE Escribir(q)
  <2>1. PICK c \in {Vacio, Contiene(Clase(q), leido[q])} : Escribe(Intermedio(q), c)
    BY <1>6 DEF Escribir
  <2>2. EscribeBien(q, Intermedio(q), c) /\ Activo(q)
    BY <1>6, <2>1, SuTexto DEF Escribir, Activo, Leyo, Clase
  <2> QED BY <1>0, <1>6, <2>1, <2>2 DEF Escribir
<1>7. CASE Compilar(q)
  <2>1. CASE DejaObjeto(q)
    <3> DEFINE o == Contiene("obj", disco[Intermedio(q)].de)
    <3>1. Escribe(Objeto(q), o)
      BY <1>7, <2>1 DEF Compilar
    <3>2. Intermedio(q) \in DOMAIN disco /\ disco[Intermedio(q)].clase # "trunco"
      BY <1>7 DEF Compilar, Hay, Clase
    <3>3. o \in Contenido /\ o.clase = "obj" /\ o.de = disco[Intermedio(q)].de
      BY <3>2 DEF Contenido, Contiene, Formas
    <3>4. Aparte(q) => Suyo(o, Ruta(q))
      BY <1>7, <3>2, <3>3 DEF Compilar, Inv, Bien, ContenidoBien, Suyo
    <3>5. EscribeBien(q, Objeto(q), o) /\ Activo(q)
      BY <1>7, <2>1, <3>3, <3>4 DEF EscribeBien, Escritos, Activo, Compilar
    <3>6. /\ \E x : paso' = [paso EXCEPT ![q] = x]
          /\ UNCHANGED <<build, pedido, leido, tiene, ejecutado, juntos>>
      BY <1>7, <2>1 DEF Compilar
    <3> HIDE DEF o
    <3> QED BY <1>0, <3>1, <3>5, <3>6
  <2>2. CASE ~DejaObjeto(q)
    <3>1. /\ \E x : paso' = [paso EXCEPT ![q] = x]
          /\ \E x : tiene' = [tiene EXCEPT ![q] = x]
          /\ UNCHANGED <<build, pedido, disco, leido, ejecutado, juntos>>
      BY <1>7, <2>2 DEF Compilar
    <3> QED BY <1>0, <3>1
  <2> QED BY <2>1, <2>2
<1>8. CASE Enlazar(q)
  BY <1>0, <1>8 DEF Enlazar
<1>9. CASE Producir(q)
  <2>1. EscribeBien(q, Salida(q), Vacio) /\ Activo(q)
    BY <1>9, SuTexto DEF Producir, Activo
  <2> QED BY <1>0, <1>9, <2>1 DEF Producir
<1>10. CASE Cerrar(q)
  <2> DEFINE x == Contiene("exe", tiene[q].de)
  <2>1. x \in Contenido /\ x.clase = "exe" /\ x.de = tiene[q].de
    BY DEF Contenido, Contiene, Formas
  <2>2. Aparte(q) => Suyo(x, Ruta(q))
    BY <1>10, <2>1 DEF Cerrar, Inv, Bien, ContenidoBien, Suyo
  <2>3. EscribeBien(q, Salida(q), x) /\ Activo(q)
    BY <1>10, <2>1, <2>2 DEF EscribeBien, Escritos, Activo, Cerrar
  <2>4. /\ \E y : paso' = [paso EXCEPT ![q] = y]
        /\ Escribe(Salida(q), x)
        /\ UNCHANGED <<build, pedido, leido, tiene, ejecutado, juntos>>
    BY <1>10 DEF Cerrar
  <2> HIDE DEF x
  <2> QED BY <1>0, <2>3, <2>4
<1>11a. CASE Ejecutar(q)
  BY <1>0, <1>11a DEF Ejecutar
<1>11b. CASE NoEjecuta(q)
  BY <1>0, <1>11b DEF NoEjecuta
<1> QED BY <1>1, <1>2a, <1>2b, <1>3a, <1>3b, <1>3c, <1>3d, <1>3e, <1>4, <1>5, <1>6, <1>7, <1>8, <1>9, <1>10, <1>11a, <1>11b
       DEF Avanza

(* A step writes no source, and keeps what the files hold in form. *)
LEMMA DiscoSigue ==
  ASSUME Inv, NEW q \in Procesos, PasoDe(q)
  PROVE  FuentesFieles' /\ \A x \in DOMAIN disco' : disco'[x] \in Contenido
<1> Formas /\ FuentesFieles
  BY DEF Inv
<1>1. CASE UNCHANGED disco
  BY <1>1 DEF FuentesFieles, Formas
<1>2. CASE \E a, c : EscribeBien(q, a, c) /\ Escribe(a, c)
  <2>1. PICK a, c : EscribeBien(q, a, c) /\ Escribe(a, c)
    BY <1>2
  <2>2. c \in Contenido /\ c.clase # "fuente"
    BY <2>1 DEF EscribeBien
  <2>3. /\ DOMAIN disco' = DOMAIN disco \cup {a} /\ disco'[a] = c
        /\ \A x \in DOMAIN disco : x # a => disco'[x] = disco[x]
    BY <2>1, Escrito
  <2>4. \A x \in DOMAIN disco' :
          \/ disco'[x] = c
          \/ x \in DOMAIN disco /\ disco'[x] = disco[x]
    BY <2>3
  <2> QED BY <2>2, <2>4 DEF FuentesFieles, Formas
<1> QED BY <1>1, <1>2 DEF PasoDe

(* The runs that go on together have met. *)
LEMMA JuntosSiguen ==
  ASSUME Inv, NEW q \in Procesos, Avanza(q), PasoDe(q)
  PROVE  JuntosTodos'
<1> SUFFICES ASSUME NEW r \in Procesos, NEW s \in Procesos, r # s, Activo(r)', Activo(s)'
             PROVE  {r, s} \in juntos'
  BY DEF JuntosTodos
<1>1. CASE Activo(r) /\ Activo(s)
  BY <1>1 DEF Inv, JuntosTodos, PasoDe
<1>2. CASE ~Activo(r) \/ ~Activo(s)
  <2>1. \A p \in Procesos \ {q} : Activo(p)' <=> Activo(p)
    BY DEF PasoDe, Activo
  <2>2. q \in {r, s} /\ ~Activo(q) /\ Activo(q)'
    BY <1>2, <2>1
  <2>3. paso[q] \in {"espera", "fin"}
    BY <2>2 DEF Activo
  <2>4. Empezar(q)
    BY <2>3 DEF Avanza, LeerMal, LeerBien, Rechazar, Seguir, Jit, EscribirTexto, Abrir, Escribir,
          NoAbre, Compilar, Enlazar, Producir, Cerrar, Fallar, EnCompilador, Ejecutar, NoEjecuta,
          Sale, Pasa
  <2>5. \A p \in Procesos : Activo(p) => {q, p} \in juntos'
    BY <2>4 DEF Empezar, Activo
  <2> QED BY <2>1, <2>2, <2>5
<1> QED BY <1>1, <1>2


(* A step keeps the form of what the runs remember. *)
LEMMA FormasSiguen ==
  ASSUME Inv, NEW q \in Procesos, Avanza(q), PasoDe(q)
  PROVE  Formas'
<1> USE DEF Sale, Pasa
<1>1. Formas /\ pedido' \in Escenas /\ \A x \in DOMAIN disco' : disco'[x] \in Contenido
  BY DiscoSigue DEF Inv, Formas, PasoDe
<1>2. /\ \A x \in Pasos : [paso EXCEPT ![q] = x] \in [Procesos -> Pasos]
      /\ \A x \in Nat : [codigo EXCEPT ![q] = x] \in [Procesos -> Nat]
      /\ \A x \in Fuentes \cup {Ninguno} :
           /\ [leido EXCEPT ![q] = x] \in [Procesos -> Fuentes \cup {Ninguno}]
           /\ [ejecutado EXCEPT ![q] = x] \in [Procesos -> Fuentes \cup {Ninguno}]
      /\ \A x \in Contenido : [tiene EXCEPT ![q] = x] \in [Procesos -> Contenido]
  BY <1>1 DEF Formas
<1>3. \A a : Hay(a) => /\ disco[a] \in Contenido
                       /\ disco[a].de \in Fuentes \cup {Ninguno}
                       /\ Contiene("obj", disco[a].de) \in Contenido
  BY <1>1 DEF Formas, Hay, Contenido, Contiene
<1>4. leido[q] \in Fuentes \cup {Ninguno}
  BY <1>1 DEF Formas
<1>5. \E x \in Pasos : paso' = [paso EXCEPT ![q] = x]
  BY DEF Avanza, Empezar, LeerMal, LeerBien, Rechazar, Seguir, Jit, EscribirTexto, Abrir, Escribir,
         NoAbre, Compilar, Enlazar, Producir, Cerrar, Fallar, Ejecutar, NoEjecuta, Pasos
<1>6. UNCHANGED codigo \/ \E x \in Nat : codigo' = [codigo EXCEPT ![q] = x]
  <2>1. Rechazo(q) \in Nat
    BY DEF Rechazo
  <2> QED BY <2>1 DEF Avanza, Empezar, LeerMal, LeerBien, Rechazar, Seguir, Jit, EscribirTexto,
         Abrir, Escribir, NoAbre, Compilar, Enlazar, Producir, Cerrar, Fallar, Ejecutar, NoEjecuta
<1>7. UNCHANGED leido \/ \E x \in Fuentes \cup {Ninguno} : leido' = [leido EXCEPT ![q] = x]
  BY <1>3 DEF Avanza, Empezar, LeerMal, LeerBien, Rechazar, Seguir, Jit, EscribirTexto,
         Abrir, Escribir, NoAbre, Compilar, Enlazar, Producir, Cerrar, Fallar, Ejecutar, NoEjecuta
<1>8. \/ UNCHANGED ejecutado
      \/ \E x \in Fuentes \cup {Ninguno} : ejecutado' = [ejecutado EXCEPT ![q] = x]
  BY <1>3, <1>4 DEF Avanza, Empezar, LeerMal, LeerBien, Rechazar, Seguir, Jit, EscribirTexto,
         Abrir, Escribir, NoAbre, Compilar, Enlazar, Producir, Cerrar, Fallar, Ejecutar, NoEjecuta,
         EsEjecutable
<1>9. UNCHANGED tiene \/ \E x \in Contenido : tiene' = [tiene EXCEPT ![q] = x]
  BY <1>3 DEF Avanza, Empezar, LeerMal, LeerBien, Rechazar, Seguir, Jit, EscribirTexto,
         Abrir, Escribir, NoAbre, Compilar, Enlazar, Producir, Cerrar, Fallar, Ejecutar, NoEjecuta
<1> QED BY <1>1, <1>2, <1>5, <1>6, <1>7, <1>8, <1>9 DEF Formas


(* What q has read stays its source. *)
LEMMA LeidoSigue ==
  ASSUME Inv, NEW q \in Procesos, Avanza(q), PasoDe(q)
  PROVE  LeidoBien(q)'
<1> USE DEF Sale, Pasa
<1>1. LeidoBien(q) /\ Formas /\ FuentesFieles
  BY DEF Inv, Bien
<1>2. /\ Ruta(q)' = Ruta(q) /\ Pisada(q)' = Pisada(q)
  BY MismosArchivos DEF PasoDe
<1>3. \A x : ~Pisada(q) /\ Guarda(Ruta(q), x) => Guarda(Ruta(q), x)'
  BY RutaSigue
<1>4. CASE Empezar(q)
  BY <1>1, <1>4 DEF Empezar, LeidoBien, Leyo, Formas
<1>5. CASE LeerBien(q)
  <2>1. Hay(Ruta(q)) /\ disco[Ruta(q)] \in Contenido /\ disco[Ruta(q)].clase = "fuente"
    BY <1>1, <1>5 DEF LeerBien, FrenteAcepta, Formas, Hay, Ruta
  <2>2. disco[Ruta(q)].de = Ruta(q)
    BY <1>1, <2>1 DEF FuentesFieles, Hay
  <2>3. disco[Ruta(q)] = Contiene("fuente", Ruta(q))
    BY <2>1, <2>2 DEF Contenido, Contiene
  <2>4. Guarda(Ruta(q), Contiene("fuente", Ruta(q)))
    BY <2>1, <2>3 DEF Guarda
  <2>5. leido'[q] = Ruta(q) /\ paso'[q] = "decidir"
    BY <1>1, <1>5, <2>2 DEF LeerBien, Formas, Ruta
  <2> QED BY <1>2, <1>3, <2>4, <2>5 DEF LeidoBien, Leyo
<1>6. CASE paso[q] = "leer" /\ paso'[q] = "fin"
  BY <1>6 DEF LeidoBien, Leyo
<1>7. CASE Leyo(q) /\ UNCHANGED leido /\ paso'[q] \in Pasos \ {"espera", "leer"}
  BY <1>1, <1>2, <1>3, <1>7 DEF LeidoBien, Leyo
<1>8. \/ Empezar(q) \/ LeerBien(q)
      \/ paso[q] = "leer" /\ paso'[q] = "fin"
      \/ Leyo(q) /\ UNCHANGED leido /\ paso'[q] \in Pasos \ {"espera", "leer"}
  BY <1>1 DEF Formas, Leyo, Pasos, Avanza, LeerMal, Rechazar, Seguir, Jit, EscribirTexto, Abrir, Escribir,
         NoAbre, Compilar, Enlazar, Producir, Cerrar, Fallar, EnCompilador, Ejecutar, NoEjecuta
<1> QED BY <1>4, <1>5, <1>6, <1>7, <1>8


(* --jit goes on only when no text was asked for. *)
LEMMA JitSinTexto ==
  ASSUME Inv, NEW q \in Procesos, Rechazo(q) = 0, ~VuelcaArbol(q), Pide(q, "jit")
  PROVE  ~SoloTexto(q)
<1>1. pedido[q] \in Pedido
  BY ConstantesAssumption DEF Inv, Formas
<1>2. Backend(q) \in {"c", "llvm"}
  BY <1>1 DEF Backend, Pedido
<1> QED BY <1>2 DEF Rechazo, SoloTexto, Pide, VuelcaArbol

(* q goes where its options lead. *)
LEMMA CaminoSigue ==
  ASSUME Inv, NEW q \in Procesos, Avanza(q), PasoDe(q)
  PROVE  CaminoBien(q)'
<1> USE DEF Sale, Pasa
<1>1. CaminoBien(q) /\ Formas
  BY DEF Inv, Bien
<1>2. /\ Objeto(q)' = Objeto(q) /\ DejaObjeto(q)' = DejaObjeto(q)
      /\ HaceEjecutable(q)' = HaceEjecutable(q) /\ SoloTexto(q)' = SoloTexto(q)
      /\ VuelcaArbol(q)' = VuelcaArbol(q) /\ Pide(q, "jit")' = Pide(q, "jit")
      /\ pedido'[q] = pedido[q]
  BY MismosArchivos DEF PasoDe
<1>3. paso'[q] # "fin" => ejecutado'[q] = Ninguno
  <2>1. paso'[q] = "fin" \/ ejecutado' = ejecutado
    BY <1>1 DEF Formas, Avanza, Empezar, LeerMal, LeerBien, Rechazar, Seguir, Jit, EscribirTexto,
         Abrir, Escribir, NoAbre, Compilar, Enlazar, Producir, Cerrar, Fallar, Ejecutar, NoEjecuta
  <2>2. paso[q] # "fin"
    BY DEF Avanza, Empezar, LeerMal, LeerBien, Rechazar, Seguir, Jit, EscribirTexto,
         Abrir, Escribir, NoAbre, Compilar, Enlazar, Producir, Cerrar, Fallar, EnCompilador,
         Ejecutar, NoEjecuta
  <2> QED BY <1>1, <2>1, <2>2 DEF CaminoBien
<1>4. CASE Seguir(q)
  <2>1. Rechazo(q) = 0 /\ ~VuelcaArbol(q)
    BY <1>4 DEF Seguir
  <2>2. \/ paso'[q] = "fin"
        \/ paso'[q] = "jit" /\ Pide(q, "jit")
        \/ paso'[q] = "texto" /\ ~Pide(q, "jit") /\ SoloTexto(q) /\ pedido[q].salida # Sin
        \/ paso'[q] = "abrir" /\ ~Pide(q, "jit") /\ ~SoloTexto(q)
    BY <1>1, <1>4 DEF Seguir, Formas
  <2> QED BY <1>2, <1>3, <2>1, <2>2, JitSinTexto DEF CaminoBien, HaceEjecutable
<1>5. CASE Compilar(q)
  <2>1. /\ paso[q] = "compilar"
        /\ paso'[q] = IF DejaObjeto(q) THEN "enlazar" ELSE "producir"
    BY <1>1, <1>5 DEF Compilar, Formas
  <2>2. DejaObjeto(q) => Objeto(q) \in DOMAIN disco'
    BY <1>5, Escrito DEF Compilar
  <2> QED BY <1>1, <1>2, <1>3, <2>1, <2>2 DEF CaminoBien, Hay
<1>6. CASE paso'[q] \in {"leer", "decidir", "fin"}
  BY <1>3, <1>6 DEF CaminoBien
<1>7. CASE /\ paso[q] \in {"abrir", "escribir", "enlazar", "producir", "cerrar"}
           /\ paso'[q] \in {"escribir", "compilar", "producir", "cerrar", "ejecutar"}
  BY <1>1, <1>2, <1>3, <1>7 DEF CaminoBien
<1>8. \/ Seguir(q) \/ Compilar(q)
      \/ paso'[q] \in {"leer", "decidir", "fin"}
      \/ /\ paso[q] \in {"abrir", "escribir", "enlazar", "producir", "cerrar"}
         /\ paso'[q] \in {"escribir", "compilar", "producir", "cerrar", "ejecutar"}
  BY <1>1 DEF Formas, Avanza, Empezar, LeerMal, LeerBien, Rechazar, Jit, EscribirTexto,
         Abrir, Escribir, NoAbre, Enlazar, Producir, Cerrar, Fallar, Ejecutar, NoEjecuta
<1> QED BY <1>4, <1>5, <1>6, <1>7, <1>8

(* What q reads back is of its own program when it is apart. *)
LEMMA ContenidoSigue ==
  ASSUME Inv, NEW q \in Procesos, Avanza(q), PasoDe(q), Aparte(q)'
  PROVE  ContenidoBien(q)'
<1> USE DEF Sale, Pasa
<1>1. LeidoBien(q) /\ ContenidoBien(q) /\ CaminoBien(q) /\ Formas
  BY AparteAntes DEF Inv, Bien, PasoDe
<1>2. /\ Ruta(q)' = Ruta(q) /\ Intermedio(q)' = Intermedio(q)
      /\ Objeto(q)' = Objeto(q) /\ Salida(q)' = Salida(q)
  BY MismosArchivos DEF PasoDe
<1>3. CASE Escribir(q)
  <2>1. paso[q] = "escribir" /\ paso'[q] = "compilar" /\ leido[q] = Ruta(q)
    BY <1>1, <1>3 DEF Escribir, Formas, LeidoBien, Leyo
  <2>2. Suyo(disco'[Intermedio(q)], Ruta(q))
    <3>1. PICK c \in {Vacio, Contiene(Clase(q), leido[q])} : Escribe(Intermedio(q), c)
      BY <1>3 DEF Escribir
    <3>2. disco'[Intermedio(q)] = c
      BY <3>1, Escrito
    <3> QED BY <2>1, <3>1, <3>2 DEF Suyo, Vacio, Contiene
  <2> QED BY <1>2, <2>1, <2>2 DEF ContenidoBien, Suyo
<1>4. CASE Compilar(q)
  <2>1. /\ paso[q] = "compilar"
        /\ paso'[q] = IF DejaObjeto(q) THEN "enlazar" ELSE "producir"
    BY <1>1, <1>4 DEF Compilar, Formas
  <2>2. disco[Intermedio(q)].de = Ruta(q)
    BY <1>1, <1>4, <2>1 DEF ContenidoBien, Suyo, Compilar, Clase
  <2>3. /\ DejaObjeto(q) => disco'[Objeto(q)] = Contiene("obj", Ruta(q))
        /\ ~DejaObjeto(q) => tiene'[q] = Contiene("obj", Ruta(q))
    BY <1>1, <1>4, <2>2, Escrito DEF Compilar, Formas
  <2> QED BY <1>2, <2>1, <2>3 DEF ContenidoBien, Suyo, Contiene
<1>5. CASE Enlazar(q)
  <2>1. paso[q] = "enlazar" /\ paso'[q] = "producir" /\ tiene'[q] = disco[Objeto(q)]
    BY <1>1, <1>5 DEF Enlazar, Formas
  <2>2. Hay(Objeto(q)) /\ disco[Objeto(q)].clase # "trunco"
    BY <1>5 DEF Enlazar
  <2> QED BY <1>1, <1>2, <2>1, <2>2 DEF ContenidoBien, Suyo
<1>6. CASE Producir(q)
  <2>1. paso[q] = "producir" /\ paso'[q] = "cerrar" /\ tiene'[q] = tiene[q]
    BY <1>1, <1>6 DEF Producir, Formas
  <2> QED BY <1>1, <1>2, <2>1 DEF ContenidoBien
<1>7. CASE Cerrar(q)
  <2>1. paso[q] = "cerrar" /\ paso'[q] \in {"ejecutar", "fin"}
    BY <1>1, <1>7 DEF Cerrar, Formas
  <2>2. disco'[Salida(q)] = Contiene("exe", Ruta(q))
    BY <1>1, <1>7, <2>1, Escrito DEF Cerrar, ContenidoBien
  <2> QED BY <1>2, <2>1, <2>2 DEF ContenidoBien, Suyo, Contiene
<1>8. CASE paso'[q] \in {"leer", "decidir", "jit", "texto", "abrir", "escribir", "fin"}
  BY <1>8 DEF ContenidoBien
<1>9. \/ Escribir(q) \/ Compilar(q) \/ Enlazar(q) \/ Producir(q) \/ Cerrar(q)
      \/ paso'[q] \in {"leer", "decidir", "jit", "texto", "abrir", "escribir", "fin"}
  BY <1>1 DEF Formas, Avanza, Empezar, LeerMal, LeerBien, Rechazar, Seguir, Jit, EscribirTexto,
         Abrir, NoAbre, Fallar, Ejecutar, NoEjecuta
<1> QED BY <1>3, <1>4, <1>5, <1>6, <1>7, <1>8, <1>9


-----------------------------------------------------------------------------
(* The invariant. *)

(* Nobody has begun, and only the sources are there. *)
THEOREM InvInicial ==
  Init => Inv
<1> SUFFICES ASSUME Init
             PROVE  Inv
  OBVIOUS
<1> USE DEF Init
<1>1. Formas
  BY DEF Formas, Pasos, Contenido, Contiene, Vacio
<1>2. FuentesFieles
  BY DEF FuentesFieles, Contiene
<1>3. JuntosTodos
  BY DEF JuntosTodos, Activo
<1>4. ASSUME NEW p \in Procesos
      PROVE  Bien(p)
  <2>1. paso[p] = "espera" /\ leido[p] = Ninguno /\ ejecutado[p] = Ninguno
    OBVIOUS
  <2> QED BY <2>1 DEF Bien, LeidoBien, CaminoBien, ContenidoBien, Leyo
<1> QED BY <1>1, <1>2, <1>3, <1>4 DEF Inv

(* Every step keeps it: its own part for the run that moves, and the others'. *)
THEOREM InvConserva ==
  Inv /\ [Next]_vars => Inv'
<1> SUFFICES ASSUME Inv, [Next]_vars
             PROVE  Inv'
  OBVIOUS
<1>1. CASE UNCHANGED vars
  <2>1. UNCHANGED <<build, pedido>> /\ juntos \subseteq juntos'
    BY <1>1 DEF vars
  <2>2. ASSUME NEW p \in Procesos
        PROVE  Bien(p)'
    BY <1>1, <2>1, AparteAntes, MismosArchivos
       DEF vars, Inv, Bien, LeidoBien, CaminoBien, ContenidoBien, Leyo, Guarda, Hay
  <2> QED BY <1>1, <2>2 DEF vars, Inv, Formas, FuentesFieles, JuntosTodos, Activo
<1>2. ASSUME NEW q \in Procesos, Avanza(q)
      PROVE  Inv'
  <2>1. PasoDe(q)
    BY <1>2, PasoDeUno
  <2>2. Formas' /\ FuentesFieles' /\ JuntosTodos'
    BY <1>2, <2>1, FormasSiguen, DiscoSigue, JuntosSiguen
  <2>3. Bien(q)'
    BY <1>2, <2>1, LeidoSigue, CaminoSigue, ContenidoSigue DEF Bien
  <2>4. \A p \in Procesos : p # q => Bien(p)'
    BY <1>2, <2>1, OtrosBien
  <2> QED BY <2>2, <2>3, <2>4 DEF Inv
<1> QED BY <1>1, <1>2 DEF Next, Fin

-----------------------------------------------------------------------------
(* What a run leaves when it ends. *)


(* It has executed its own program or none, and when it answers 0 it has
   made and executed what it was asked for. *)
LEMMA RespuestaFiel ==
  ASSUME Inv, NEW p \in Procesos, Avanza(p), PasoDe(p), Aparte(p),
         paso[p] # "fin", paso'[p] = "fin"
  PROVE  /\ ejecutado'[p] \in {Ninguno, leido[p]}
         /\ codigo'[p] = 0 /\ leido[p] # Ninguno =>
              /\ DebeCorrer(p) => ejecutado'[p] = leido[p]
              /\ HaceEjecutable(p) => Guarda(Salida(p), Contiene("exe", leido[p]))'
              /\ SoloTexto(p) /\ ~VuelcaArbol(p) /\ pedido[p].salida # Sin =>
                   \E c \in {Contiene(Clase(p), leido[p]), Vacio} : Guarda(pedido[p].salida, c)'
<1> USE DEF Sale, Pasa
<1>1. LeidoBien(p) /\ ContenidoBien(p) /\ CaminoBien(p) /\ Formas
  BY DEF Inv, Bien
<1>2. Salida(p)' = Salida(p) /\ pedido'[p] = pedido[p]
  BY MismosArchivos DEF PasoDe
<1>3. ejecutado[p] = Ninguno
  BY <1>1 DEF CaminoBien
<1>4. Leyo(p) => leido[p] = Ruta(p)
  BY <1>1 DEF LeidoBien
<1>5. CASE codigo'[p] # 0 /\ ejecutado' = ejecutado
  BY <1>3, <1>5
<1>6. CASE Rechazar(p)
  <2>1. codigo'[p] # 0 \/ VuelcaArbol(p)
    BY <1>1, <1>6 DEF Rechazar, Formas
  <2>2. ejecutado'[p] = Ninguno
    BY <1>3, <1>6 DEF Rechazar
  <2> QED BY <2>1, <2>2 DEF DebeCorrer, HaceEjecutable
<1>7. CASE Seguir(p)
  <2>1. SoloTexto(p) /\ pedido[p].salida = Sin /\ ejecutado'[p] = Ninguno
    BY <1>1, <1>3, <1>7 DEF Seguir, Formas
  <2> QED BY <2>1 DEF DebeCorrer, HaceEjecutable
<1>8. CASE Jit(p)
  <2>1. Pide(p, "jit") /\ ~SoloTexto(p) /\ ejecutado'[p] = leido[p]
    BY <1>1, <1>8 DEF Jit, CaminoBien, Formas
  <2> QED BY <2>1 DEF HaceEjecutable
<1>9. CASE EscribirTexto(p)
  <2>1. SoloTexto(p) /\ ejecutado'[p] = Ninguno
    BY <1>1, <1>3, <1>9 DEF EscribirTexto, CaminoBien
  <2>2. PICK c \in {Vacio, Contiene(Clase(p), leido[p])} : Escribe(pedido[p].salida, c)
    BY <1>9 DEF EscribirTexto
  <2>3. pedido[p].salida \in DOMAIN disco' /\ disco'[pedido[p].salida] = c
    BY <2>2, Escrito
  <2>4. Guarda(pedido[p].salida, c)'
    BY <1>2, <2>3 DEF Guarda, Hay
  <2>5. leido' = leido
    BY <1>9 DEF EscribirTexto
  <2>6. Clase(p)' = Clase(p)
    BY DEF Clase, Backend, PasoDe
  <2> QED BY <2>1, <2>2, <2>4 DEF DebeCorrer, HaceEjecutable
<1>10. CASE Cerrar(p)
  <2>1. paso[p] = "cerrar" /\ leido[p] = Ruta(p) /\ tiene[p].de = Ruta(p)
    BY <1>1, <1>4, <1>10 DEF Cerrar, ContenidoBien, Leyo
  <2>2. ~DebeCorrer(p) /\ ~SoloTexto(p) /\ ejecutado'[p] = Ninguno /\ leido' = leido
    BY <1>1, <1>3, <1>10, <2>1 DEF Cerrar, Formas, DebeCorrer, CaminoBien, HaceEjecutable
  <2>3. Salida(p) \in DOMAIN disco' /\ disco'[Salida(p)] = Contiene("exe", leido[p])
    BY <1>10, <2>1, Escrito DEF Cerrar
  <2>4. Guarda(Salida(p), Contiene("exe", leido[p]))'
    BY <1>2, <2>2, <2>3 DEF Guarda, Hay, Contiene
  <2> QED BY <2>2, <2>4
<1>11. CASE Ejecutar(p)
  <2>1. paso[p] = "ejecutar" /\ leido[p] = Ruta(p) /\ disco' = disco /\ leido' = leido
    BY <1>1, <1>4, <1>11 DEF Ejecutar, Leyo
  <2>2. Salida(p) \in DOMAIN disco /\ disco[Salida(p)].clase = "exe"
    BY <1>11 DEF Ejecutar, EsEjecutable, Hay
  <2>3. disco[Salida(p)].de = leido[p]
    BY <1>1, <2>1, <2>2 DEF ContenidoBien, Suyo, Hay
  <2>4. disco[Salida(p)] \in Contenido
    BY <1>1, <2>2 DEF Formas
  <2>5. disco[Salida(p)] = Contiene("exe", leido[p])
    BY <2>2, <2>3, <2>4 DEF Contenido, Contiene
  <2>6. Guarda(Salida(p), Contiene("exe", leido[p]))'
    BY <1>2, <2>1, <2>2, <2>5 DEF Guarda, Hay, Contiene
  <2>7. ejecutado'[p] = leido[p] /\ ~SoloTexto(p)
    BY <1>1, <1>11, <2>1, <2>3 DEF Ejecutar, Formas, CaminoBien, HaceEjecutable
  <2> QED BY <2>6, <2>7
<1>12. \/ codigo'[p] # 0 /\ ejecutado' = ejecutado
       \/ Rechazar(p) \/ Seguir(p) \/ Jit(p) \/ EscribirTexto(p) \/ Cerrar(p) \/ Ejecutar(p)
  BY <1>1 DEF Formas, Avanza, Empezar, LeerMal, LeerBien, Abrir, Escribir, NoAbre, Compilar,
         Enlazar, Producir, Fallar, NoEjecuta
<1> QED BY <1>5, <1>6, <1>7, <1>8, <1>9, <1>10, <1>11, <1>12

(* Its source is where it was. *)
LEMMA FuenteEnSuSitio ==
  ASSUME Inv, NEW p \in Procesos, Avanza(p), PasoDe(p), paso'[p] = "fin",
         leido[p] # Ninguno, ~Pisada(p)
  PROVE  Guarda(pedido[p].ruta, Contiene("fuente", leido[p]))'
<1>1. LeidoBien(p) /\ Formas
  BY DEF Inv, Bien
<1>2. Leyo(p) /\ leido' = leido
  BY <1>1 DEF Formas, LeidoBien, Leyo, Pasa, Sale, Avanza, Empezar, LeerMal, LeerBien, Rechazar, Seguir,
         Jit, EscribirTexto, Abrir, Escribir, NoAbre, Compilar, Enlazar, Producir, Cerrar, Fallar,
         EnCompilador, Ejecutar, NoEjecuta
<1>3. leido[p] = Ruta(p) /\ Guarda(Ruta(p), Contiene("fuente", Ruta(p)))
  BY <1>1, <1>2 DEF LeidoBien
<1>4. Guarda(Ruta(p), Contiene("fuente", Ruta(p)))'
  BY <1>3, RutaSigue, MismosArchivos DEF PasoDe, Guarda
<1> QED BY <1>2, <1>3, <1>4, MismosArchivos DEF PasoDe, Ruta

(* However many runs, with whatever command lines over whatever sources and
   in whatever order of their steps: a run that ends without having met runs
   of other programs on its files has executed its own program or none,
   answers 0 only when it did what it was asked, and leaves its source where
   it was. *)
THEOREM CadaUnoSiempre ==
  Spec => CadaUnoLoSuyo
<1> DEFINE Termina(p) ==
      paso[p] # "fin" /\ paso'[p] = "fin" =>
         \/ Estorbado(p)
         \/ /\ ejecutado'[p] \in {Ninguno, leido[p]}
            /\ codigo'[p] = 0 /\ leido[p] # Ninguno =>
                 /\ DebeCorrer(p) => ejecutado'[p] = leido[p]
                 /\ HaceEjecutable(p) => Guarda(Salida(p), Contiene("exe", leido[p]))'
                 /\ SoloTexto(p) /\ ~VuelcaArbol(p) /\ pedido[p].salida # Sin =>
                      \E c \in {Contiene(Clase(p), leido[p]), Vacio} : Guarda(pedido[p].salida, c)'
            /\ leido[p] # Ninguno /\ ~Pisada(p) =>
                 Guarda(pedido[p].ruta, Contiene("fuente", leido[p]))'
<1>1. Inv /\ [Next]_vars => [\A p \in Procesos : Termina(p)]_vars
  <2> SUFFICES ASSUME Inv, Next, NEW p \in Procesos, paso[p] # "fin", paso'[p] = "fin", Aparte(p)
               PROVE  Termina(p)
    BY DEF Estorbado
  <2>1. PICK q \in Procesos : Avanza(q)
    BY DEF Next, Fin, vars
  <2>2. PasoDe(q)
    BY <2>1, PasoDeUno
  <2>3. q = p
    BY <2>2 DEF PasoDe
  <2> QED BY <2>1, <2>2, <2>3, RespuestaFiel, FuenteEnSuSitio
<1>2. Inv /\ [Next]_vars => Inv'
  BY InvConserva
<1> QED BY InvInicial, <1>1, <1>2, PTL DEF Spec, CadaUnoLoSuyo
===========================================================================

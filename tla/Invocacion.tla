----------------------------- MODULE Invocacion -----------------------------
(***************************************************************************)
(* One run of `latino` from its command line to its exit code (main in     *)
(* src/main.cpp, compilarAEjecutable and compilarLLVMAEjecutable), with    *)
(* other runs going on at the same time on the same disk.  The front end   *)
(* is one verdict, a property of the program; what matters here is which   *)
(* files a run writes, reads back and executes, and what it answers.       *)
(*                                                                         *)
(* A file is a directory, a stem and an extension.  What it holds is a     *)
(* kind of text and the program it was made from.  The C compiler and the  *)
(* linker are the system's: they read what is there when they get to it    *)
(* and may fail at any time.                                               *)
(***************************************************************************)
EXTENDS Naturals, FiniteSets

CONSTANTS
  Procesos,   \* the runs
  Fuentes,    \* the source files
  Programas,  \* what is in them: [Fuentes -> Programa]
  Builds,     \* how latino was built: subset of Build
  Escenas     \* who is asked for what: subset of [Procesos -> Pedido]

Build == [llvm : BOOLEAN, windows : BOOLEAN, msvc : BOOLEAN]

(* Whether the front end accepts it, and the parameters of its principal or *)
(* inicio: "ninguna" without such a function, "mal" neither 0 nor 2.        *)
Programa == [frente : BOOLEAN, entrada : {"ninguna", "bien", "mal"}]

Archivo == STRING \X STRING \X STRING
Sin == <<"", "", "">>

(* A command line; `linea` is FALSE when an option is unknown or lacks its  *)
(* value, or there is no file.                                              *)
Pedido == [linea : BOOLEAN, ruta : Archivo, opciones : SUBSET {"ast", "solo-c", "solo-ir", "jit"},
           backend : {"", "c", "llvm"}, salida : Archivo, args : BOOLEAN, cwd : STRING]

ASSUME ConstantesAssumption ==
  /\ Programas \in [Fuentes -> Programa]
  /\ Builds \subseteq Build
  /\ \A b \in Builds : b.msvc => b.windows
  /\ Fuentes \subseteq Archivo
  /\ Escenas \subseteq [Procesos -> Pedido]

-----------------------------------------------------------------------------
VARIABLES
  build,      \* the build
  pedido,     \* the command lines
  disco,      \* what the files hold; a file that is not there is not in it
  paso,       \* where each run is
  leido,      \* the program each run has read from its source
  tiene,      \* what the C compiler or the linker of each run has read
  ejecutado,  \* the program each run has executed
  codigo,     \* the exit code
  juntos      \* the pairs of runs that were going on at the same time

vars == <<build, pedido, disco, paso, leido, tiene, ejecutado, codigo, juntos>>

Ninguno == <<"ninguno">>
Contiene(clase, de) == [clase |-> clase, de |-> de]
Vacio == Contiene("trunco", Ninguno)
Hay(a) == a \in DOMAIN disco
Guarda(a, c) == Hay(a) /\ disco[a] = c
Con(a, c) == [x \in DOMAIN disco \cup {a} |-> IF x = a THEN c ELSE disco[x]]

Init ==
  /\ build \in Builds
  /\ pedido \in Escenas
  /\ disco = [f \in Fuentes |-> Contiene("fuente", f)]
  /\ paso = [p \in Procesos |-> "espera"]
  /\ leido = [p \in Procesos |-> Ninguno]
  /\ tiene = [p \in Procesos |-> Vacio]
  /\ ejecutado = [p \in Procesos |-> Ninguno]
  /\ codigo = [p \in Procesos |-> 0]
  /\ juntos = {}

(* The back end: --solo-c alone asks for C.                                 *)
Backend(p) ==
  IF pedido[p].backend # "" THEN pedido[p].backend
  ELSE IF build.llvm /\ "solo-c" \notin pedido[p].opciones THEN "llvm" ELSE "c"

Pide(p, o) == o \in pedido[p].opciones

(* fs::path(ruta).stem() in the working directory, with .exe in Windows.    *)
Salida(p) ==
  IF pedido[p].salida # Sin THEN pedido[p].salida
  ELSE <<pedido[p].cwd, pedido[p].ruta[2], IF build.windows THEN ".exe" ELSE "">>

(* The text the C compiler gets: named after the source for C, always the   *)
(* same for LLVM.                                                           *)
Intermedio(p) ==
  IF Backend(p) = "llvm" THEN <<"tmp", "latino_llvm_obj", ".obj">>
  ELSE <<"tmp", pedido[p].ruta[2], ".c">>

(* What cl leaves in /Fo for the linker; cc keeps its objects to itself.    *)
Objeto(p) == <<"tmp/latino_obj", pedido[p].ruta[2], ".obj">>
DejaObjeto(p) == build.msvc /\ Backend(p) = "c"

Clase(p) == IF Backend(p) = "llvm" THEN "obj" ELSE "c"

(* p goes from step a to step b.                                            *)
Pasa(p, a, b) == paso[p] = a /\ paso' = [paso EXCEPT ![p] = b]
Sale(p, a, c) == Pasa(p, a, "fin") /\ codigo' = [codigo EXCEPT ![p] = c]
Escribe(a, c) == disco' = Con(a, c)

-----------------------------------------------------------------------------
(* The command line.                                                        *)
Empezar(p) ==
  /\ IF pedido[p].linea THEN Pasa(p, "espera", "leer") /\ UNCHANGED codigo
     ELSE Sale(p, "espera", 2)
  /\ juntos' = juntos \cup {{p, q} : q \in {r \in Procesos : paso[r] \notin {"espera", "fin"}}}
  /\ UNCHANGED <<build, pedido, disco, leido, tiene, ejecutado>>

(* The source is opened and goes through the front end.  What is not the    *)
(* text of a program (an executable, say) has no program in it.             *)
FrenteAcepta(a) == disco[a].clase = "fuente" /\ Programas[disco[a].de].frente

LeerMal(p) ==
  /\ ~(Hay(pedido[p].ruta) /\ FrenteAcepta(pedido[p].ruta))
  /\ Sale(p, "leer", 1)
  /\ UNCHANGED <<build, pedido, disco, leido, tiene, ejecutado, juntos>>

LeerBien(p) ==
  /\ Hay(pedido[p].ruta) /\ FrenteAcepta(pedido[p].ruta)
  /\ Pasa(p, "leer", "decidir")
  /\ leido' = [leido EXCEPT ![p] = disco[pedido[p].ruta].de]
  /\ UNCHANGED <<build, pedido, disco, tiene, ejecutado, codigo, juntos>>

Entrada(p) == Programas[leido[p]].entrada

(* The checks between the front end and the back ends, in their order.      *)
Rechazo(p) ==
  IF Entrada(p) = "mal" THEN 1
  ELSE IF pedido[p].args /\ (Entrada(p) = "ninguna" \/ pedido[p].opciones \cap {"ast", "solo-c", "solo-ir"} # {})
  THEN 2
  ELSE IF Pide(p, "ast") THEN 0
  ELSE IF Backend(p) = "llvm" /\ (~build.llvm \/ Pide(p, "solo-c") \/ (Pide(p, "jit") /\ Pide(p, "solo-ir")))
  THEN 2
  ELSE IF Backend(p) = "c" /\ (Pide(p, "solo-ir") \/ Pide(p, "jit")) THEN 2
  ELSE 0

VuelcaArbol(p) == Pide(p, "ast")
SoloTexto(p) == pedido[p].opciones \cap {"solo-c", "solo-ir"} # {}

Rechazar(p) ==
  /\ paso[p] = "decidir" /\ (Rechazo(p) # 0 \/ VuelcaArbol(p))
  /\ Sale(p, "decidir", Rechazo(p))
  /\ UNCHANGED <<build, pedido, disco, leido, tiene, ejecutado, juntos>>

(* What p is to make: a text for the user, or one for the C compiler.       *)
Seguir(p) ==
  /\ paso[p] = "decidir" /\ Rechazo(p) = 0 /\ ~VuelcaArbol(p)
  /\ IF SoloTexto(p) /\ pedido[p].salida = Sin THEN Sale(p, "decidir", 0)
     ELSE /\ Pasa(p, "decidir", IF Pide(p, "jit") THEN "jit" ELSE IF SoloTexto(p) THEN "texto" ELSE "abrir")
          /\ UNCHANGED codigo
  /\ UNCHANGED <<build, pedido, disco, leido, tiene, ejecutado, juntos>>

(* --jit: the module runs in memory and its answer is the run's.            *)
Jit(p) ==
  /\ \E c \in {0, 1} : Sale(p, "jit", c)
  /\ ejecutado' = [ejecutado EXCEPT ![p] = leido[p]]
  /\ UNCHANGED <<build, pedido, disco, leido, tiene, juntos>>

(* --solo-c or --solo-ir with -o.  Nobody looks at the stream after `<<`: a *)
(* full disk leaves a piece of the text, and the run answers 0.             *)
EscribirTexto(p) ==
  /\ Sale(p, "texto", 0)
  /\ \E c \in {Vacio, Contiene(Clase(p), leido[p])} : Escribe(pedido[p].salida, c)
  /\ UNCHANGED <<build, pedido, leido, tiene, ejecutado, juntos>>

(* The file in the temporary directory is emptied when it is opened and has *)
(* its text when it is closed, the whole or a piece of it.                  *)
Abrir(p) ==
  /\ Pasa(p, "abrir", "escribir")
  /\ Escribe(Intermedio(p), Vacio)
  /\ UNCHANGED <<build, pedido, leido, tiene, ejecutado, codigo, juntos>>

Escribir(p) ==
  /\ Pasa(p, "escribir", "compilar")
  /\ \E c \in {Vacio, Contiene(Clase(p), leido[p])} : Escribe(Intermedio(p), c)
  /\ UNCHANGED <<build, pedido, leido, tiene, ejecutado, codigo, juntos>>

(* A file that does not open, or a JIT session that cannot be made.         *)
NoAbre(p) ==
  /\ paso[p] \in {"texto", "abrir", "jit"}
  /\ Sale(p, paso[p], 1)
  /\ UNCHANGED <<build, pedido, disco, leido, tiene, ejecutado, juntos>>

(* The command of the C compiler: it reads the text it was given, leaves an *)
(* object for the linker where cl does, and links.                          *)
Compilar(p) ==
  /\ Hay(Intermedio(p)) /\ disco[Intermedio(p)].clase = Clase(p)
  /\ Pasa(p, "compilar", IF DejaObjeto(p) THEN "enlazar" ELSE "producir")
  /\ LET o == Contiene("obj", disco[Intermedio(p)].de) IN
     IF DejaObjeto(p) THEN Escribe(Objeto(p), o) /\ UNCHANGED tiene
     ELSE tiene' = [tiene EXCEPT ![p] = o] /\ UNCHANGED disco
  /\ UNCHANGED <<build, pedido, leido, ejecutado, codigo, juntos>>

Enlazar(p) ==
  /\ Hay(Objeto(p)) /\ disco[Objeto(p)].clase = "obj"
  /\ Pasa(p, "enlazar", "producir")
  /\ tiene' = [tiene EXCEPT ![p] = disco[Objeto(p)]]
  /\ UNCHANGED <<build, pedido, disco, leido, ejecutado, codigo, juntos>>

(* The linker opens the executable, and closes it.                          *)
Producir(p) ==
  /\ Pasa(p, "producir", "cerrar")
  /\ Escribe(Salida(p), Vacio)
  /\ UNCHANGED <<build, pedido, leido, tiene, ejecutado, codigo, juntos>>

(* With a principal or inicio the program is run, else the run is over.     *)
Cerrar(p) ==
  /\ paso[p] = "cerrar"
  /\ Escribe(Salida(p), Contiene("exe", tiene[p].de))
  /\ IF Entrada(p) = "bien" THEN Pasa(p, "cerrar", "ejecutar") /\ UNCHANGED codigo
     ELSE Sale(p, "cerrar", 0)
  /\ UNCHANGED <<build, pedido, leido, tiene, ejecutado, juntos>>

EnCompilador(p) == paso[p] \in {"compilar", "enlazar", "producir", "cerrar"}

(* Mutant: what the C compiler answered is not looked at.                   *)
FallarYSeguir(p) ==
  /\ EnCompilador(p)
  /\ IF Entrada(p) = "bien" THEN Pasa(p, paso[p], "ejecutar") /\ UNCHANGED codigo
     ELSE Sale(p, paso[p], 0)
  /\ UNCHANGED <<build, pedido, disco, leido, tiene, ejecutado, juntos>>

(* The command fails: a text cut short, a library that is missing, an       *)
(* object another run has open.                                             *)
Fallar(p) ==
  /\ EnCompilador(p)
  /\ Sale(p, paso[p], 1)
  /\ UNCHANGED <<build, pedido, disco, leido, tiene, ejecutado, juntos>>

(* ejecutarPrograma: the executable that is there now, and its answer.      *)
EsEjecutable(a) == Hay(a) /\ disco[a].clase = "exe"

Ejecutar(p) ==
  /\ EsEjecutable(Salida(p))
  /\ \E c \in {0, 1} : Sale(p, "ejecutar", c)
  /\ ejecutado' = [ejecutado EXCEPT ![p] = disco[Salida(p)].de]
  /\ UNCHANGED <<build, pedido, disco, leido, tiene, juntos>>

NoEjecuta(p) ==
  /\ ~EsEjecutable(Salida(p))
  /\ Sale(p, "ejecutar", IF build.windows THEN 1 ELSE 127)
  /\ UNCHANGED <<build, pedido, disco, leido, tiene, ejecutado, juntos>>

Fin == (\A p \in Procesos : paso[p] = "fin") /\ UNCHANGED vars

Avanza(p) ==
  \/ Empezar(p) \/ LeerMal(p) \/ LeerBien(p) \/ Rechazar(p) \/ Seguir(p)
  \/ Jit(p) \/ EscribirTexto(p) \/ Abrir(p) \/ Escribir(p) \/ NoAbre(p)
  \/ Compilar(p) \/ Enlazar(p) \/ Producir(p) \/ Cerrar(p) \/ Fallar(p)
  \/ Ejecutar(p) \/ NoEjecuta(p)

Next == Fin \/ \E p \in Procesos : Avanza(p)

Spec == Init /\ [][Next]_vars

-----------------------------------------------------------------------------
(* Properties.                                                              *)

(* The files a run writes on its way, and all it names.                     *)
Escritos(p) == {Intermedio(p), Salida(p)} \cup (IF DejaObjeto(p) THEN {Objeto(p)} ELSE {})
Usa(p) == Escritos(p) \cup {pedido[p].ruta}

(* Two runs at the same time on one of the same files.                      *)
Toca(p, q) == {p, q} \in juntos /\ Usa(p) \cap Usa(q) # {}

(* p and the runs it touches, those they touch and so on are of one source. *)
Aparte(p) ==
  \E S \in SUBSET Procesos :
    /\ p \in S
    /\ \A a \in S : /\ pedido[a].ruta = pedido[p].ruta
                   /\ \A q \in Procesos : Toca(a, q) => q \in S

(* Runs of two programs at the same time on one of the same files:          *)
(* input/PLAN_LLVM.md:1249-1266 knows of it and asks for one at a time.     *)
(* They spoil a third, too, that begins when the first of them is over and  *)
(* shares a file with the second.                                           *)
Estorbado(p) == ~Aparte(p)

(* A source with the name of a file some run writes loses its text: outside *)
(* Windows the output of a source without an extension, from its own        *)
(* directory, is the source (src/main.cpp:459-465), and `latino /tmp/a.c`   *)
(* takes its own source for the C text.                                     *)
Pisada(p) == \E q \in Procesos : pedido[p].ruta \in Escritos(q)

(* What p was asked to make.                                                *)
HaceEjecutable(p) == ~SoloTexto(p) /\ ~Pide(p, "jit") /\ ~VuelcaArbol(p)
DebeCorrer(p) == Entrada(p) = "bien" /\ ~SoloTexto(p) /\ ~VuelcaArbol(p)

(* When a run ends, it has executed its own program or none; it answers 0   *)
(* only if the program it had to execute was executed, and its output holds *)
(* its own program, whole unless the disk was full; and the source of every *)
(* program is where it was.  Runs one after the other with the same names   *)
(* do not see each other's files (src/main.cpp:468-485), nor do runs at the *)
(* same time with other names.                                              *)
CadaUnoLoSuyo ==
  [][\A p \in Procesos :
       paso[p] # "fin" /\ paso'[p] = "fin" =>
         \/ Estorbado(p)
         \/ /\ ejecutado'[p] \in {Ninguno, leido[p]}
            /\ codigo'[p] = 0 /\ leido[p] # Ninguno =>
                 /\ DebeCorrer(p) => ejecutado'[p] = leido[p]
                 /\ HaceEjecutable(p) => Guarda(Salida(p), Contiene("exe", leido[p]))'
                 /\ SoloTexto(p) /\ ~VuelcaArbol(p) /\ pedido[p].salida # Sin =>
                      \E c \in {Contiene(Clase(p), leido[p]), Vacio} : Guarda(pedido[p].salida, c)'
            /\ leido[p] # Ninguno /\ ~Pisada(p) =>
                 Guarda(pedido[p].ruta, Contiene("fuente", leido[p]))']_vars
=============================================================================

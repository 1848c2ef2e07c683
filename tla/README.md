# A verification project for the Latino compiler and its runtime

Latino is a programming language with Spanish keywords. This repository holds its
compiler, in C++17 (`src/`, `include/`), and the runtime its programs are linked with,
in C (`runtime/`). This directory holds TLA+ modules that model parts of both, the TLC
configurations that check them, and theorems checked by TLAPS.

Paths below are relative to the root of the repository: `src/main.cpp`,
`runtime/libs/lista.c`, `include/ast.h`.

Contents: [1. The system](#1-the-system) · [2. What is hard in it](#2-what-is-hard-in-it) ·
[3. The modules](#3-the-modules) · [4. The runs](#4-the-runs) · [5. The proofs](#5-the-proofs) ·
[6. Disagreements found](#6-disagreements-found) · [7. Not modelled](#7-not-modelled) ·
[8. Plan](#8-plan) · [9. How to run it](#9-how-to-run-it)

## 1. The system

A compilation is one process with one thread that runs these phases in order
(`src/main.cpp`, `main`):

```
 file.lat ── Lexer ── Parser ──> Programa (the tree of include/ast.h)
      │
      ├─ elevarFuncionesAnidadas, adaptarIncluirComoModulo     (src/resolutor_modulos.cpp)
      ├─ resolverProyecto, if the file takes part in modules   (src/resolutor_modulos.cpp)
      ├─ procesarInclusioneesLat                               (src/main.cpp)
      ├─ AnalizadorSemantico                                   (src/analizador_semantico.cpp)
      └─ one of two back ends
            GeneradorC    -> a C file      -> the system's C compiler  (src/compiler.cpp)
            GeneradorLLVM -> LLVM IR       -> object file, linker      (src/compiler_llvm.cpp)
 executable = emitted code + runtime/latino.c + runtime/libs/*.c
```

No phase runs concurrently with another and the program that comes out has one thread.
The phases communicate only by the tree, which each rewrites or annotates, and by a
Boolean verdict: an error found by a phase is printed and `main` stops after it. The parser
stops at the first error; the phases behind it go on looking for more. The emitted code communicates with the runtime by
calls; values are 16-byte structures, containers are shared by reference and never freed.

| component | state it keeps | operations | talks to | what would make it right |
|---|---|---|---|---|
| Lexer | position, line | `getNextToken`: the longest lexeme, comments, escapes | the parser asks for one token at a time | every character in exactly one token; what is written is what is read |
| Parser | current token, one token put back, error flag | one pass, recursive descent, stops at the first error | builds the tree | every text is answered; the tree is the one the grammar says |
| Nested functions, reference rewriting (`resolutor_modulos.cpp`) | scopes of names; renames; namespaces | lift a nested function to the top level; rename each reference | run on each module by the resolver | a reference means what it meant in its own file |
| Module resolver (`ResolutorModulos`) | `estados_`, `pilaActual_`, `dependencias_`, `ok_` | `resolver`, `procesarModulo`, `resolverDependencia`: depth-first, memoised | reads files through the parser; calls the rewriter | circles found and only circles; dependencies first, each once; exactly the sound projects accepted |
| Include expansion (`procesarInclusioneesLat`) | `visitados`, the list being built, `ok` | splice the statements of a file in the place of its include | parser | ends; each file once; in order |
| Semantic analyzer | `ambitos`, `constantes`, tables of functions, counters of context, types, `errores` | one visit of the tree with checks | between resolver and back ends | rejects programs the back ends cannot give a meaning to, and no others |
| Classes | `tipos`; the object's tables at run time | checks of declarations, access, `nuevo`, dispatch, `es` | analyzer, both back ends, runtime | accepted programs respect access; objects dispatch to the nearest ancestor |
| C back end (`GeneradorC`) | output text, a counter of temporaries | `genExpr`, `genSentencia` | the C compiler | the C program is the Latino program |
| LLVM back end (`GeneradorLLVM`) | current block, cells, stack of loop exits | `genExpr`, `genAsignacion`, `genSentencia` | LLVM, linker | the same; and the IR is well formed |
| Variable collector | set of names | visit a body | both back ends | all names assigned are declared, in one cell, the same in both |
| Calls (both back ends, `latino.c`) | the functions emitted, wrappers, tables of methods | emit bodies and prototypes; call a name, a value, a member, a constructor | C compiler, `verifyModule`, runtime | a body gets its object and its arguments, once, whatever way it is called |
| Driver, invokers | temporary files | write, compile, link, run, wait | the operating system | exit codes; no clash between processes |
| Values and operators (`latino.c`) | none beyond the values | arithmetic, comparison, conversion, indexing | emitted code | agree with SINTAXIS.md |
| Lists (`latino.c`, `libs/lista.c`) | blocks: length, capacity, cells | 20-odd functions | emitted code | a list is a sequence, whoever else holds it |
| Dictionaries (`latino.c`, `libs/dic.c`) | blocks of keys and values in order | `poner`, `obtener`, `eliminar`, ... | emitted code | a dictionary is a map with an order |
| Regular expressions | none | two copies of a backtracking matcher | `~=`, `cadena.regex*` | the language of the expression |
| Ranges | none | `rango`, `para`, `lista.a_lista` | emitted code | the loop and the list are the range |
| Text (`libs/cadena.c`) | none | search, cut, replace, split, fill in | emitted code; `lat_cadena` | each answers what its header says |
| Mathematics, system, files, packages, FFI | none, or the system's | library functions | emitted code | — |

## 2. What is hard in it

There is no concurrency inside a compilation; two compilations may run at once on one disk.
What is hard to test here is order and sharing:

* *Orders nobody wrote.* The C back end writes text to a file and returns text to its
  caller; what was written runs before what was returned, wherever the caller puts it. In
  addition C leaves the order of evaluation of operands and arguments open twice: in the
  C++ of the compiler (which operand is generated first, and so whose temporaries come
  first) and in the C it emits.
* *Recursion over a graph the user supplies.* Modules that import each other, files that
  include each other, classes that extend each other, lists that contain themselves. Each
  needs something that cuts the circle, and each uses a different one: a stack of active
  modules, a set of visited texts, a check of one level, nothing.
* *Errors that cascade.* `ok_` in the resolver is a flag for the project: the module read
  after an error fails too and stays in the memo table with no exports, so that its
  importers get more errors. The verdict must still be right.
* *Sharing.* `lista.extender(l, l)` reads its source after `realloc` may have moved it;
  namespaces keep pointers into a map that grows.
* *One question asked three times.* What a name refers to is decided by the analyzer's scopes,
  by the declarations the C back end writes and by the map of cells of the LLVM back end,
  each with its own idea of a function's borders and of which names to leave out.
* *Two conventions for one body.* A function is called by its name with one C argument for
  each parameter, and as a value with a count and an array; methods only in the second way,
  constructors in both. Each back end writes its own wrappers, in its own order.
* *Tokens taken back.* The parser has room for one token put back, and two of its functions
  use it.
* *Files with fixed names.* The driver writes, compiles and runs files whose names come from
  the stem of the source; a second run on the same disk may be doing the same.
* *The two copies of a loop.* `cadena.reemplazar` measures with one loop and fills with
  another; `lista.a_lista` computes the length of what `para` walks through; the regular
  expression matcher exists twice.
* *Control flow in pieces.* `romper` and `retornar` end an LLVM block in the middle of a
  body; every construct around must cope with a block that is closed already.

`PROJECT.json` lists each of these as a hazard, with the line where it bites and the
properties aimed at it: every one in the list has a property that some run checks. Known and
not in the list, since no property tells right from wrong there: an operand that is a
variable is read by the LLVM back end when the operation is made, so that `x + toca()` sees
the `x` that `toca` left (`src/compiler_llvm.cpp:151`; no document fixes the order of operands);
`--emitir-c` does not look at its stream, so that a full disk gives a short text and exit code 0
(`src/main.cpp:453`); the key of a dictionary is its text, so that `1` and `"1"` are one key
(`runtime/latino.c:368`), which is what `Texto` in `Diccionarios` says.

## 3. The modules

### Text to tree: `Lexico`, `Analisis`, `AnalisisReferencia`

`Lexico` is `getNextToken`: a function from a position of the text to a token with the
piece of text it stands for. A character is a member of a small alphabet; words come in the
text letter by letter only where the longest lexeme is in question and as one piece elsewhere.

`Analisis` is the recursive descent as a machine with two stacks. `pila` has what is left to
do, the current function first: an item is a token to take (`Tomar`, `TomarHoja`), a choice by
the current token (`Omitir`), a function to call (`Expandir`, whose `Desplegar` gives the body of each
`parse...`), a loop over one level of operators (`Retornar`, `Operar`), or a node to close
(`Abrir`, `Cerrar`, `Unir`, `Marcar`). `valores` is the tree under construction. The
token put back is `devuelto`; `Mirar` (an identifier with `:` behind it) and `PartirAngulo`
(`>=` cut in two) are the two users. The text is written while it is read (`Escribir`,
`CerrarTexto`): the environment adds a piece exactly when `avanzar()` needs one, so that TLC
enumerates the prefixes the parser tells apart instead of all texts.

`AnalisisReferencia` reads the same tokens without the machine: an expression is split at
its loosest operator, and blocks and brackets are matched by one scan. `ArbolFiel` says that a text of
one expression is accepted exactly when it is one, with that tree; and that in every accepted
program each block is closed by its own word and the tree holds the names, numbers and texts
that were written, once and in order.

What the code does and a reader of the grammar may not expect, all of it in the model: an error of
the lexer prints a line and gives the token of the end of the file, so that the rest of the text
is dropped and the program compiles (`src/lexer.cpp:52`, 127, 140, 217); relational and equality
operators share one level although `SINTAXIS.md:149` and `PLAN_BASE.md:74` list them apart; `abstracto`
before a field is taken and ignored; the parameters of a method swallow `...`; the
annotation of a variable is one token.

### Names of one file: `Visitas`, `Reescritura`

`Visitas` is a program as the sequence of visits a walk makes, shared with `Alcance`; the blocks a visit lies in are
told from depths (`Abiertos`), without a walk.
`Reescritura` takes a file from the parser to the resolver's table: `elevarFuncionesAnidadas`
(each nested function renamed in its siblings and taken out, innermost first),
`adaptarIncluirComoModulo`, the mangling of declarations, the binding of imports and the walk of
`ReescritorReferencias`, one action for each. A name is a sequence of parts, so that a mangled name
differs from any name of the source. Meaning is told on the file as written (`Sentido`).
`MismoSentido` excepts five kinds of use which the code changes:

* `Inseguro`: `inseguro` blocks are not walked, and what only they assign is not a local.
* `Partida`: a variable of the file that a block at the top level assigns again is mangled in one
  place and not in the other.
* `GlobalAsignada`: a `global` that a function assigns is taken there for a local
  (`SINTAXIS.md:80-97` says what it should be).
* `LocalAjena`: a lambda that names a local of the function around it.
* `Tapada`: a nested function that a deeper one hides (`SINTAXIS.md:479-481`).

`ExportaLoQueDice` excepts a final `retornar {...}` behind which a nested function was put
(`RetornarTapado`; `include/resolutor_modulos.h:65-77` promises the list).

### Resolver: `ResolutorModulos`, `EnlaceAbstracto`

`ResolutorModulos` is `src/resolutor_modulos.cpp` from `resolverProyecto` down. The
variables are the members of the class (`estados`, `exportaciones` for `estados_`, `pila`
for the active calls of `procesarModulo` together with `pilaActual_`, `dependencias`,
`ok`), the last chain printed and the result. An activation (`Marco`) has the position in
the list of imports and the two maps it fills for the rewriter. The actions are the ways
an iteration of the import loop can go (`RechazarReexport`, `DetectarCiclo`, `UsarMemo`,
`NoResolver`, `Descender`), the two ways `procesarModulo` ends (`RetornarListo`,
`RetornarFallido`, each with the binding its caller does on return), the start
(`Comenzar`) and the shortcut for an entry without imports (`ResolverModuloUnico`).

A file is what the resolver looks at: whether it can be read, its top-level names, its
imports in order, and its references, each with a mark that says whether a local hides
its root. A mangled name is a pair of slug and name. The rewriter is a function of the
tables (`Reescribir`, `ErrorDeUso`), applied when a module ends, as in the code.

What a project deserves is told separately and without the walk: `Pide`, `Sano`,
`Alcanzadas` (the least set with the entry that is closed under imports, as the intersection of all
such sets), `SinCiclos`, `ProyectoValido`, `Significado`. `EnlaceAbstracto` is what the
linker promises with no stack, memo or flag: modules join one by one after what they
import; the entry last; rejection only with a reason.

### Includes: `Inclusiones`

`procesarInclusioneesLat`: one frame per call, the set of visited *texts*, and paths kept
as the segments that were written, so that `d/../a.lat` and `a.lat` are two texts and one
file, which is what the code's `visitados` sees and what the system opens (`Camina`, segment by
segment). An include that is met again disappears (`Omitir`), one that cannot be opened or parsed makes this call
and all above it fail while the expansion goes on (`Fallar`), one that can is entered
(`Entrar`) and spliced on return (`Volver`). `Principales` are the paths the command line may
give: the entry is put among the visited texts as an absolute path (`src/main.cpp:300`), and its includes are
looked for by the path that was given, so that an entry with a relative path may come once more
(`Repetible`). An include of an absolute path begins a text anew, and is another text of the same file
unless everything else goes by absolute paths too. `UnTexto` says when each file has one text: no include that is
met has dots, and either the entry is absolute and has none, or no include is absolute. The
system opens a file (`Abierto`) when it is there and parses (`Legible`) and when it lets itself be opened (`Cabe`): the
text is no longer than `MaxRuta`, and fewer than `MaxAbiertos` files are open, since the `archivo` of every active call
(`src/main.cpp:135`) is open until the call returns. Past either limit the code prints "no se pudo abrir" and goes on, which is
`Fallar`. Lengths are counted in segments. Both limits are assumed to be enough when no circle makes a text grow
(`ConstantesAssumption`): one file for each absolute include and each file, and the entry (`Holgura`), and as many times the
longest relative include. The stack of the process is assumed to outlast them: the compiler built from these sources, with
8 MB of stack, reached the 2,046 levels at which a text of `./` reaches the 4,096 bytes of Linux, and fewer with
the usual limits on open files, and ended in an error with exit code 1 every time.

### Driver: `Invocacion`

`main`, `compilarAEjecutable` and `compilarLLVMAEjecutable` from the command line to the
exit code, for several processes on one disk. A file is a directory, a stem and an
extension, and holds a kind of text and the program it was made from. The front end is a verdict; the C
compiler and the linker read what is there when they get to it and may fail. `CadaUnoLoSuyo` is
the contract of a run: it executes its own program or none, answers 0 only for what it
did, and leaves sources alone. It excepts

* `Estorbado`: runs of two programs that meet on a file while both are going on
  (`input/PLAN_LLVM.md:1249-1266` knows of it). It is enough that they meet through a third: a
  second run of one's own source may be given another's text, end after the first has
  begun, and leave the other's program in the place of one's own. `Aparte(p)` says that all runs
  that `p` meets, those which they meet and so on are of one source. The proof asked for this form; the
  one before it looked at the runs that meet `p` itself.
* `Pisada`: a source that has the name of a file some run writes. The executable of a source without
  extension takes its place outside Windows (`src/main.cpp:459-465`), and `latino /tmp/a.c` takes
  its source for the C text.
* A text cut short by a full disk (`src/main.cpp:453`).

### Classes: `Jerarquia`

The three passes that know the classes: `recolectarTipos`, the visit of declarations and
bodies with `verificarAccesoMiembro`, and the code for `nuevo` with the table of methods
the runtime fills. Every loop that climbs the chain of bases is walked one class per step,
because whether it ends is one of the questions. The declarations checked are looked up
where the code looks: one level up. A cursor (`pos`, `lugar`) goes through declarations, their
methods and the expressions of each, once to check and once to generate; an object is made
(`SubirCadena`, `Crear`), given the methods of one class after another (`RegistrarClase`) and done (`Construir`). The
properties are told over all ancestors: `Hasta` is what is met climbing from a type until one of a set,
`Cercanos` the nearest ones of the set.

### Lists: `Valores`, `Listas`, `ListasAbstractas`

`Valores` has the comparisons of `latino.c` (`num`, `comparar`, `son_iguales`,
`comparador_qsort`) and the index arithmetic. `Listas` has the blocks: `malloc` and
`realloc` give cells of `Basura`, `memmove` is `Copiar`, growth is doubling as in
`lista_crecer`, and any live list may be the receiver, the argument or an element of any
other, itself included. Where `qsort` is given a comparison that is no order, every
permutation is possible. `ListasAbstractas` has the same operations on sequences, with no
length, capacity or garbage; `Listas` is shown to implement it.

### Dictionaries: `Diccionarios`, `DiccionariosAbstractos`

A block has two arrays, `claves` and `valores`, with one length and one capacity. A key is
the text that `lat_a_cadena` gives of a scalar (`Texto`, a table), so that two keys may be one. Listed by `dic.llaves`
or `dic.elementos`, a key is made a text of the program again by `lat_cadena`, which reads its escapes once more
(`runtime/libs/dic.c:80` and 186, `runtime/latino.c:182`): `LatCadena` keeps the characters of a text but for the
backslashes in `Escapes`, and the letters after those become what they are read as (`Leida`). `SinEscapes`
tells the keys it leaves alone.
The operations on one entry are one step (`AsignarIndice`, `Eliminar`,
`ObtenerIndiceAusente`). Those that insert several, `Literal`, `Combinar`, `Copiar` and `Actualizar`,
begin with a destination and the sources, and then insert one entry per step
(`PonArg`, `PonEntrada`, `OtraFuente`, `Acaba`) into a block that may be a source of
its own and may grow on the way. `pedido` and `previo` are auxiliary: the call that is running and the
functions the blocks were when it began. `DiccionariosAbstractos` has functions from
texts to values and no loops: a call is requested and then done in one step, with the
result dic.h promises.

### Code generation: `Maquina`, `GeneradorC`, `GeneradorLLVM`, `Generacion`

The tree has the nodes of `include/ast.h` that decide control (last part of `Maquina`). `GeneradorC` translates
`genExpr`, `genLlamada` and `genSentencia` of `src/compiler.cpp`: each gives the text it
returns and the text it has written on the way, and it is the placing of that second text
that matters. `Compilar` in the same module is the system's C compiler: it lays the C out as basic
blocks, or refuses a name used outside the block that declares it. `GeneradorLLVM`
translates `src/compiler_llvm.cpp` with its builder (current block, stack of exits,
allocas). `Maquina` has the builder's primitives and runs blocks, one per step, taking
the answer of each call from a script and noting the call. `Generacion` composes them: a program is
compiled by both back ends and both executables run against the same script; its second part says what a
program means, straight from the tree (`Significado`).

Abstractions: values are 0, 1 and 2 and what operators give is kept in that range
(which is enough to see which value went where); calls to the program's functions are
observations with an answer from the script, so that all answers of length four are
tried; the order of evaluation is left to right or right to left, once for the C++
compiler that builds `latino` and once for the C compiler. A run is cut after
`MaxSucesos` calls so that programs that loop for ever are also compared.

### Names, scopes and contexts: `Alcance`

A program is the sequence of visits that the analyzer's walk makes, in its order: a name
read, assigned, called, incremented; a block, loop, function, method or lambda entered and
left; `romper`, `retornar`, `...`, `este`. `RecolectarFunciones` is the pass over the top
level that fills the tables; then each visit is a step: `UsarIdentificador`,
`VisitarLlamada`, `VisitarAsignacion`, `VisitarContexto` report what `visitar` of those nodes
reports, and `EntrarPara`, `EntrarBloque`, `EntrarFuncion`, `SalirBloque` and `SalirFuncion`
push and pop the scopes and count the contexts. The variables are the members of
`AnalizadorSemantico` with those names (`profundidad` holds the four counters, `instancia`
the conjunction `enClase && enMetodoInstancia`); `abiertos` is the C++ stack of `visitar`.

The back ends come in as functions of an accepted program: `Recolecta` and
`GlobalesExplicitos` are the collector, `LocalesC` and `LocalesLLVM` the cells each body declares,
`DestinoC` and `DestinoLLVM` what each use refers to. The rules of the language are told apart, on the
tree and without a walk (`VisibleDesde`, `ReglaRota`, `ContextoPrestado`, `ConstanteAjena`),
and the properties relate the three. The exceptions they list are what the code does and the
rules do not say; section 6 names them.

### Calls: `MaquinaLlamadas`, `LlamadasC`, `LlamadasLLVM`, `Llamadas`

`MaquinaLlamadas` begins with the bodies of a program (functions, lambdas, methods) and what calling one means.
`LlamadasC` and `LlamadasLLVM` translate what each back end emits for bodies, prototypes, wrappers, `nuevo`
and calls; a name is a sequence of parts, so that two names composed differently may be one
symbol. `LlamadasC` also says what the C compiler makes of the file (names declared before their use,
prototypes that agree, one definition for a symbol), `LlamadasLLVM` what `verifyModule` does.
The rest of `MaquinaLlamadas` runs an image with the functions of `latino.c` that call a value or a
member. `Llamadas` emits a body per step, in the order of `generarCuerpo` and `generar` and for
each order in which the `unordered_map` may give the types, has the result judged, and runs `main`
a statement at a time beside the meaning of the program.

`LlamadasFieles` says that an accepted program compiles and that every body receives its object,
its arguments and the rest, once. Its exceptions, each needed (without it TLC finds a program):

* C, does not compile: a function used as a value, or `nuevo` of a type with methods, in a body that
  comes before the wrapper (`EnvolturaTardia`: `lat_fn_modulo_X` is written after `lat_fn_X` and has
  no prototype); a field with a default (`CampoConDefecto`: `lat_obj_set` takes a `const char*` and is given a
  `LatValor`, see `input/PLAN_LLVM.md:961-984`); static methods with parameters; names that collide.
* LLVM, does not verify: a variadic function used as a value.
* Both: a `principal` with one, or more than two, parameters; `T.m()` of a type with no static `m`
  (`Ajeno`), which C refuses and LLVM leaves out.
* C: the arguments of a constructor are evaluated twice (`Duplica`, `src/compiler.cpp:502-515`).
* LLVM: a value called with fewer arguments than parameters reads beyond the array
  (`PocosArgumentos`, `src/compiler_llvm.cpp:1629`); a field's default that names a variable which
  the body with `nuevo` hides (`CampoTomado`); a method whose symbol is taken (`Homonimos`).
* Both: a lambda that annotates a parameter with a generic of the function around it.

The prototypes `()` are those of C17. The verdict of the C compiler on the 520 programs of the run, and
the bodies their executables enter with which arguments, were compared with `latino` built from
the sources and gcc: they agree.

### Library: `Textos`, `Biblioteca`

`Textos` has the matcher of expressions as it walks the text of a pattern, and beside it what a pattern
means: a sequence of items and the ways to share a text among them. It also has the functions
of `cadena.c` that search, cut, replace, split and fill in templates; `lat_cadena` reads escapes again in
every text they give. `Biblioteca` has `rango`, `para` and `lista.a_lista` over doubles of a few
binary digits, so that the sums beyond the largest exact number are rounded. It makes one
call per behaviour and tells its answer again without loops. Excepted, and in comments beside
the properties: `cadena.regexl` with a pattern that matches nothing at the end of the text (it reads on past the
terminator, `runtime/libs/cadena.c:624`), or with `^`, which ties every search to where it
begins; `cadena.ultimo_indice` of a text that overlaps itself (`runtime/libs/cadena.c:243`; the last place is
promised by `cadena.h:29` and `PLAN_LIBS.md:186`); escapes, read once more in every answer
(`runtime/latino.c:190`); `titulo`, for which a vertical tab or a form feed is no blank; `a_lista`, which may end
before `para` beyond the exact doubles. Builds where `long double` is no wider than
`double` (MSVC) are not modelled, nor a `$` in the middle of a pattern or a class left open.

### Correspondence

The key "map" of `PROJECT.json` gives, for every definition, the lines it stands for.
Operators marked external stand for code outside the repository: the C compiler
(`Compilar` of `GeneradorC`, `CompilaC`), `fs::path`, LLVM's builder and verifier and the C library, as the sources use them.
Definitions headed "mutant" are deliberate errors of the kind the code could have had;
each is tried in the place of the definition beside it, and the property it belongs to
then fails.

## 4. The runs

Every run passes.

| run | instance | shows |
|---|---|---|
| `analisis` | every text of up to 4 to 9 pieces of 16 vocabularies: operators, blocks, classes, modules, generics, literals, bare characters | `NadaSePierde`: every character is in exactly one token, taken in order, across both uses of the token put back. `ArbolFiel`: tree and verdict are those of `AnalisisReferencia`. `LexicoFiel`: every token is the longest lexeme there is, only blanks and comments lie between two, and an accepted text was read to its end unless the lexer printed an error. `Termina` |
| `reescritura` | 9,018 files with functions nested three deep, lambdas, loops, `inseguro`, a class and imports | `MismoSentido`: a use means what it meant, but for the five kinds above; nothing is lost. `ExportaLoQueDice`: the export table is what the file says |
| `resolutor` | all import graphs on four files, each importing none, one or two (itself included): chains, diamonds, circles of length 1 to 4, unreached files; and projects with every form of import, reference, export and broken file | `PilaEsCamino`: the stack is a repetition-free path and holds exactly the modules "in process". `CadenaEsCiclo`: a reported circle is one. `OrdenDeDependencias`: every module after what it imports, once. `VeredictoCorrecto`: accepted exactly when sound. `MemoFinal`: what is done is final. `ReferenciasResueltas`: every reference carries the name of the declaration it meant, which is in the program already. `ImplementaEnlace`: the walk implements `EnlaceAbstracto`. `Termina` |
| `inclusiones` | three files in two directories with up to two includes each, some unreadable, some through `.` and `..`, some absolute; the entry by an absolute path, with dots or without, or by a relative one | `SinCirculos`: a file of one text is not entered while it is being expanded. `ExpansionFiel`: a circle of relative includes that passes a `.` or `..` ends in an error; otherwise the program has what the files reached have, each file of one text once and in its place, and the verdict is that of the files reached. `Termina` |
| `jerarquia` | chains of three types, legal and illegal, with interfaces and structures beside them; uses inside and outside the classes | `AccesoRespetado`: no private or protected member is reached from outside. `ObjetosFieles`: an object answers with the nearest ancestor's method, `es` knows all ancestors. `AbstractosImplementados`, `Termina` (both with the exceptions of section 6) |
| `alcance` | 11,200 programs: a declaration before, a function, method, lambda, loop or lambda inside one of them with a declaration and a use in it, something after | `ContextosFieles`: counters and scopes are those of the open blocks. `VeredictoSegunReglas`: rejected exactly by the rules, named exceptions apart. `CAcepta`: an accepted program compiles to C, but for the uses it names. `MismaCelda`: both back ends give a use the same cell, but for the three cases it names |
| `generacion` | every loop around every jump in every place, nested loops, a statement of each kind; 16 scripts; four pairs of orders | `BloquesCerrados`: every block ends in one terminator. `LLVMEsElPrograma`, `CEsElPrograma`: the executable makes the calls of the program, in its order, with its values. `Termina` |
| `llamadas` | 520 programs of one to three bodies around one call, in both back ends, both orders of the types | `LlamadasFieles`, above |
| `invocacion` | up to three runs in two directories, one of them that of the temporary files, every combination of options, of sources with the same stem or not, of kinds of program and of builds | `CadaUnoLoSuyo`, above |
| `listas` | two lists, four values among which 1 = `cierto`, the lists as elements, four calls | `TypeOK` (nothing is written outside a block), `SinBasura`, `BusquedasFieles` (what `unico` and `comparar` answer), `Secuencias` (refinement) |
| `diccionarios` | three dictionaries, two values, four keys: two of one text, a backslash with an `n`, and the line feed they are read as; literals of up to two entries, four calls | `ListadoEncontrable`: what is listed is found beside its value, unless the stored key has an escape: then it is listed by another text, and its entry is not found by that. `Funciones`: the blocks implement `DiccionariosAbstractos` |
| `biblioteca` | every call of the library functions with small arguments | `ExpresionesFieles`, `TextosFieles`, `RangosFieles`: each function answers what its description says |

The type invariants of the other modules are kept beside them for the proofs.

Why the bounds are enough. *Resolver*: the walk distinguishes a module by its phase; four
files give a stack of depth four, a diamond with a tail, and every way a circle can be
entered from outside; the projects with names have three files because every name is bound
across one edge and re-used across at most one more. *Includes*: two directories make the same
text mean different files; a circle is closed by at most three files; `MaxRuta` = 13 is
the least that the assumption allows and `MaxAbiertos` = 15 is a little more than its least, so that there are circles that end at
either limit: most by their text, those whose text grows at one of two calls only by their open files.
*Texts*: a function of the parser looks at two tokens at most; a
vocabulary has the pieces of one construct, and its texts are long enough to open it, put another one inside and
end it, or stop anywhere. *Files*: a nested function three deep has a sibling, a parent and a
grandparent to be confused with, and a name may be declared in four ways. *Runs of latino*: two runs meet on
one file each, and a third spoils a run only through the second; the theorem is for any number of them.
*Library*: patterns of three items put a greedy item before
and after another one; ranges lie on both sides of the largest exact number. *Calls*: the two
conventions meet across one call; a third body is an ancestor, or the one that comes too late. *Lists*: four calls from nothing reach a growth from 1 to 2 and
to 4 cells, a list that extends itself while growing, and a removal after a growth; the
theorems remove the bound. *Dictionaries*: a literal of no entries has four cells, of one or
two exactly as many, and a combination exactly the sum, so that the next insertion grows both
arrays; four calls reach a combination of two literals that is then updated from itself or from
one of them. One key with an escape is listed as the text of another key, whose entry may be there or not; `MCDiccionarios` compares
`LatCadena` and `SinEscapes` with the loop of the code on every text of up to six characters, backslashes among them. Symmetry over addresses and values is sound because the code only compares
them for equality. *Generation*: the generators are recursive and each case looks
at its direct children only, so a jump inside every construct inside every loop, and every
loop inside every loop, meets each pair of cases; the scripts are long enough for each loop to go round twice and
leave by its condition or by a jump. *Names*: a use looks at the function it is in, at those around it and at
the top level; the programs have two functions around a use with a loop between them, each
kind of declaration in each of the three places, every kind of use, and one thing after,
which sees what was left behind. Seven names are enough for a variable, a constant, a function,
an external function, a built-in one and one of each kind hidden by another.

Deadlock is checked in `analisis`, `biblioteca`, `generacion`, `invocacion`, `llamadas`,
`reescritura` and `resolutor`, whose next-state relations say explicitly when everything is over.
It is off where the modelled program just ends (`inclusiones`, `jerarquia`, `alcance`) or is
cut by a bound (`listas`, `diccionarios`).

Fairness is WF of the whole next-state relation and nothing else: one thread runs a
compilation and one runs the program, and nothing either waits for can be withheld. `Invocacion`
and `Llamadas` state safety only. In
`Generacion` the formula is written out (`Avanza`), as a step is possible exactly until
both executables have stopped.

## 5. The proofs

Twenty-four of the properties that the runs check on a small instance, the three refinements among
them, are proved for every value of the constants. The assumptions are those the modules name, and TLC
evaluates them in the passing runs:

* `ResolutorModulos`: `ConstantesAssumption` and `ProyectosAssumption` (the entry is one of the files, it could
  be read and takes part in modules, slugs are slugs).
* `Listas`: `BasuraAssumption`, `IdsAssumption`, `IndicesAssumption`, `CotasAssumption`, and `PesoAssumption`:
  what compares numbers and texts gives a number that is no NaN a magnitude, and two texts of one weight
  are one text (`strcmp`).
* `Diccionarios`: the text of a key is a sequence of characters, garbage is no datum, addresses are no data, the bound of a literal is a number.
* `Inclusiones`: directories and files go by names, and a path that is given or included ends in one; the entry
  can be read; files and absolute includes are finitely many; `MaxAbiertos` is greater than `Holgura` =
  (absolute includes + 1) x files + 1, and `MaxRuta` than a text that begins with the longest entry or absolute include
  and adds the longest relative one `Holgura` times. With less, a long chain of includes without any circle
  could not be opened either, as it cannot in the code.
* `Analisis`: the bound of a text is a number. `Invocacion`: the programs are those of the sources,
  and MSVC is on Windows.
* `Alcance`: `AlcanceAssumption`. A program is what the parser and `elevarFuncionesAnidadas` leave (`BienFormado`):
  blocks are nested, functions and methods are at the top, what declares has a name, only functions carry marks,
  and the increment of a `desde` is an assignment. Which names are built in or in capitals is free.

`ResolutorPruebas`, about `ResolutorModulos`:

* `TiposYPila`: types, and `PilaEsCamino`. Both go together: that a frame's position is
  within its imports comes from the guards, that only the top is moved from the stack being
  a path.
* `OrdenEsInvariante`: `OrdenDeDependencias`. It is not inductive: nothing in it says why a
  module that ends has all its imports in the program. `OrdenInductivo` does: while `ok`
  holds no module has failed (`SinFallidos`) and everything a frame has gone past is done
  (`LoPasadoEstaListo`), and the modules that are done are those in the program
  (`EmitidosListos`). So the last import of a module that ends well is done, hence emitted.
  `SinEmpezar` and `SinRecorrido` cover the entry without imports.
* `MemoEsFinal`: `MemoFinal`, an action property. Only `Descender`, `RetornarListo` and
  `RetornarFallido` write a phase, and the last two only for the top of the stack, which is
  "in process" by `PilaEsCamino`.
* `CadenaEsSiempreCiclo`: `CadenaEsCiclo`. The printed chain is a piece of the stack, whose
  frames wait for one another, closed by the import in hand.
* `ElResolutorAcaba`, for a finite set of files: until the answer some operation can be done, and each
  step goes down in the order of a dictionary on (answer due, files not met, open calls, imports left to the last call):
  `Descender` meets a file, a return closes a call, anything else goes past an import. That a
  circle does not undo this is the mark `en_proceso`, which only a file not met gets.

The rest of the module is what the resolver answers. `EnlaceInductivo` adds to `OrdenInductivo`: the table of a
module that is done has the exports of its file (`TablasFieles`); only files reached from the entry
are in any table (`SoloAlcanzadas`); while `ok` holds, the two maps of every frame say what the imports it has gone
past say (`MarcosAlDia`); what was emitted is sound and resolved (`EmitidosFieles`); and once `ok` is false
the project deserves it (`RechazoJustificado`), which is what makes errors that cascade harmless: the
importer of a module that failed is told of names that are missing only because of it, and its verdict is right
all the same.

* `ReferenciasSiempre`: `ReferenciasResueltas`.
* `VeredictoSiempre`: `VeredictoCorrecto`. One half is `RechazoJustificado`. In the other, the modules in
  the program are closed under imports and hold the entry, so that they contain `Alcanzadas`; all
  are sound; and no circle passes through them, since each comes after what it imports.
* `ImplementaElEnlace`: the refinement of `EnlaceAbstracto`, step by step: `RetornarListo` joins a
  module, the end of the entry accepts, the first error rejects, everything else stutters.

`ListasPruebas`, about `Listas`:

* `TiposSiempre` and `NuncaBasura`: `TypeOK` and `SinBasura` follow from one inductive
  invariant, `Inv`: every block is an array of its capacity whose cells below the length hold
  live values (`EsBloque`). The lemmas say what each primitive (`Copiar`, growth, a cell
  written) does to such an array.
* `BloquesSonSecuencias`: `Spec => Secuencias`, the whole refinement. For each operation a
  lemma says that the sequence of the new block is the operation of `ListasAbstractas` on
  the sequence of the old one; the interesting ones are `Extender` with itself, `Insertar`
  and `Quitar`.
* `BusquedasSiempre`: `BusquedasFieles`, the answers of `unico` and `comparar`. Both stop at the first cell
  that decides, which the proof takes by well-founded induction.

`DiccionariosPruebas`, about `Diccionarios`. `Inv` says that no key is twice in a block (`EsBloque`)
and, while a loop runs, that the destination with what is left to insert over it is what the call must give, all
other blocks being as they were (`EnBucle`). This is where sharing matters: `actualizar` reads a
block while it writes another or the same one, and an insertion may move the arrays; what is left to read
is told of the block as it is now and must still be that of the block as the call found it.

* `TiposSiempre`, `ListadoSiempre`: `TypeOK` and `ListadoEncontrable`. The second rests on what `lat_cadena` makes of a text: the
  same when no backslash is read with the letter after it (`MismoTexto`), and a shorter one otherwise (`OtroTexto`, by counting the
  characters that stay); and one is read if any backslash has such a letter after it, for then the first of those it follows
  is (`SinEscapesEs`).
* `BloquesSonFunciones`: `Spec => Funciones`, the refinement of `DiccionariosAbstractos`. The steps of a loop
  stutter and the last one is the abstract operation.

`AnalisisPruebas`, about `Analisis`: `NadaSePierdeSiempre`. Characters could be lost where a token is put back
while another is there already. `MiradoEnSuSitio` says where the identifier is that is taken to look behind
it, and `DevueltoTrasId` that a token is put back only in front of an expression that begins with an
identifier, so that the next thing done is to take it; `>=` is split only when nothing is put back.
`DevueltoSiempre` states both.

`InvocacionPruebas`, about `Invocacion`: `CadaUnoSiempre`, for any number of runs, sources, builds and
command lines. `InvInicial` and `InvConserva` are the two halves of the induction. The invariant says of
each run that it is where its options lead (`CaminoBien`), that it has read its own source (`LeidoBien`), and,
if no other program interferes, that each file it is going to read back is of its own program
(`ContenidoBien`). A step of another run leaves the last part alone because the two have met (`JuntosTodos`) and so
either share no file or are of one source; being apart now implies having been apart before, since
`juntos` only grows.

`JerarquiaPruebas`, about `Jerarquia`: `AccesoSiempre`, `ObjetosSiempre` and `AbstractosSiempre`, for any number
of types, circles included. Each climb is told by the least set closed under bases (`Hasta`), which
gives two laws: a type that declares a name is the nearest one to itself (`HastaEnS`), and from one that does not,
climbing is climbing from its base (`HastaSube`). `Inv` has a part for each thing the code keeps:

* `IndiceFiel`: the index has the declarations gone past, and without errors no name is there twice, so that in an
  accepted program the entry of a name is its declaration (`TiposSonDeclaraciones`).
* `DeclaracionesBien`, `UsosBien`: while nothing is wrong, the classes that have been visited have what the checks
  are for (`ClaseSana`) and the expressions behind the cursor are in order (`UsoBien`).
* `BusquedaBien`: the nearest declaration of the member is still ahead of the search, and what is climbed for
  permission are ancestors of the class in hand.
* `CadenaBien`, `ObjetoBien`: the chain of a `nuevo` goes from its class up base by base, so that when it goes no further it
  is all the ancestors (`CadenaEntera`); and the object has what the base of the last class of the chain gives, so
  that registering that class gives what the class gives (`DespachoSeRegistra`).

`AbstractosSiempre` did not go through at first: the proof asked why the method that is there by name is
registered, and when it has the name of its class it is not. TLC found the program (`MCJerarquia` has it), and
section 6 tells of it.

`InclusionesPruebas`, about `Inclusiones`: `CirculosSiempre`, `ExpansionSiempreFiel` (and `TiposSiempre`), for any
disk, however deep the directories are. The code compares texts and the property speaks of files, so the proof has to show that for a
file of one text the two are the same. `EsMarco` says of each call that the text it is looked for by is the
entry's directory, or the root, with the names from there to the file behind it, and that the text is among those
visited (but for an entry with a relative path). Names only append (`CaminaNombres`), so that two calls of one file have
the same names (`Cancelar`), hence one text, which the guard of `Entrar` excludes. The proof needs to know
what is reached, because only the includes that are met are assumed to have no dots: `AlcanzaCerrado`. `Camina` goes along
a path of any length; the facts about it are proved by taking the least number (`PorNumeros`) of a given set, which
the provers can do where the library's induction, whose parameter is an operator, is out of their reach. The
proof found that absolute includes had been forgotten in `Incluibles`; with them the property without
`UnTexto` is false, and section 6 tells why.

`ExpansionSiempreFiel` says what the expansion ends with. `InvFiel` tells at every moment what the calls have done and
what is left to them:

* `Cadena`: every text met, the entry apart, comes of an include that is reached, and each call but the first is of the
  text the one under it waits for, no two calls waiting for the same text.
* `Recorrida`: the includes of what was expanded were met, but for those some call has still to come to. At the end none
  has, so that the files met and read are closed under includes: they are those reached (`AlFinal`).
* `Dicha` and `Lograda`: the lists being built hold the statements of the files met, but for those still to come; and
  some call has failed exactly when a text met cannot be read. The failure of a call that has ended is in the one
  under it.
* `EnOrden`, when files have one text: the lists are in order as they stand (`Colocada`); what a file being expanded has given
  is before its next statement (`Superada`); and what was to come before a statement that is in the lists is over, no call being of
  it (`Agotada`). `Conocidos` says that a file that was met is not expanded again, but for the entry.

The circles have two halves. If the expansion ends with every text opened that can be read, there was no circle of relative
includes with a dot: each include of the circle would lead from the longest text of its file to one that is no shorter, and the one with the dot to a longer
one, while the texts met are bounded (`SinCirculoAlFinal`). And if there is no such circle, the stack is short (`PilaCorta`):
two calls of one file with relative includes between them make a circle without dots, in which the path never goes up, so that
both are of the same text (`SinRepetir`), which was met only once; hence each stretch of the stack that begins with an absolute include has
a file at most once, and the pigeonhole principle bounds the whole; so is the text of every call, which grows by one relative
include at a time (`LargoDePila`), and the system opens it (`SinCirculoCabe`). Hence a text that can be read and is not opened
shows a circle, and from then on `Fallida` takes the place of the rest of the invariant: some call's `ok` is false, which
`Volver` hands down to the first. That proof failed at first: the bound that the module assumed left out that each absolute
include begins a stretch anew, so that for several of them in one file the property was false. The assumption now says so.

`AlcancePruebas`, about `Alcance`: `ContextosSiempreFieles`, `VeredictoDeLasReglas`, `LoQueCAcepta`, `LaMismaCelda`
and `TiposDeAlcance`, for programs of any length with blocks of any depth. The invariant (`Invariante`) has these parts:

* `PilaFiel`: the stack of calls of `visitar` is as long as the depth of the visit in hand, and its block k is the open one
  at depth k. So the block a `fin` closes is the innermost open (`AlCerrar`), which is the reason why what is undone on
  leaving is what was done on entering.
* `CuentasFieles`: each counter is the number of open blocks that count for it (`Aporta`), there is a scope for each
  function around the visit, and `instancia` holds when a method of an instance is open. That methods are never nested is
  needed here: the code sets the flag on entering and clears it on leaving, and does not save it.
* `TablasFieles`: the two tables are of the first definitions; without errors each name has one.
* `SinErrores`, while nothing is reported: every visit gone past breaks no rule (`Sana`); the constants are those made so
  far; and `AmbitosFieles`, the scopes up to the k-th hold what has been declared in the k outermost functions. It speaks
  of unions because the variable of a `para` that is declared outside is not declared again, so that a scope alone
  does not say what its function declares; and it stops at the first error because the name of a constant is not
  declared where it is assigned again.
* and the verdict itself, which is kept to the end.

For each kind of visit a lemma (`VeredictoUso`, `VeredictoLlamada`, ...) says that it is reported exactly when it is not
`Sana`. `LoQueCAcepta` needs the verdict only for contexts: whether a use has a variable in C is told from the
tree of any well-formed program (`SinVariableEnC`), and that the back ends agree on it does not depend on the
analyzer at all (`LaMismaVariable`).

What stays with TLC:

* Liveness (`Termina` of each module): fairness and ENABLED are out of the prover's reach. For the resolver the two
  facts its termination rests on are proved (`ElResolutorAcaba`): some operation's guard holds until the answer,
  and each step lowers a measure. That an operation that can be done is done is the fairness the run assumes.
* Code generation, calls, texts and expressions, and `AnalisisReferencia`: they are written with
  RECURSIVE operators over the tree or the text.
* `Reescritura` (`MismoSentido`, `ExportaLoQueDice`): the properties compare what the walk leaves with a meaning told by
  folds over all the places of a program, and a fold says nothing to the provers without induction on its length.

## 6. Disagreements found

What the code does and a document, a comment or a test says otherwise is written into the
property as a named exception, so that the property says exactly how far the promise
holds; where the model was run without the exception, TLC found a program.

* Two files that include each other through `..` are expanded until the system opens no more, the text
  being too long or the files open too many, and the compilation ends in an error: `visitados`
  holds texts that grow (`src/main.cpp:126`) and every call holds its file open, while the comments at 104 ("Los archivos ya procesados
  se rastrean con 'visitados' para evitar ciclos.") and 130 promise the opposite. (`ExpansionFiel`)
* A file included by an absolute path and reached by a relative one as well has two texts and is expanded twice,
  even inside itself (`src/main.cpp:126`; the comments at 104 and 130). (`UnTexto` in `SinCirculos` and `ExpansionFiel`)
* `A extiende B`, `B extiende A` is not rejected and the search for a member never ends
  (`src/analizador_semantico.cpp:953`; `input/PLAN_POO.md:951`). (`Termina` of `Jerarquia`)
* An abstract method two levels up need not be implemented
  (`src/analizador_semantico.cpp:990`; `input/PLAN_POO.md:958`). (`AbstractosImplementados`)
* An abstract method with the name of the derived class counts as implemented by its constructor
  (`src/analizador_semantico.cpp:990`), which no object carries (`src/compiler.cpp:489`). (`AbstractosImplementados`)
* In C, the arguments of a dynamic call in the condition of a loop are evaluated once, before the
  loop (`src/compiler.cpp:993`; `SINTAXIS.md:342-343`, `input/PLAN_LLVM.md:575-576`). (`CEsElPrograma`)
* In C, a lambda that assigns an explicit global changes a local variable of its own
  (`src/compiler.cpp:371`; `SINTAXIS.md:73-76`). (`MismaCelda`)
* `dic.llaves` and `dic.elementos` list a key that has a backslash before `n`, `t`, `r`, a quote or another backslash as
  what the escape reads (`runtime/libs/dic.c:80` and 186, `runtime/latino.c:182`): the key itself is not in the list,
  though `input/PLAN_LIBS.md:245` says "Lista con todas las claves", and what is in the list does not find its entry. (`ListadoEncontrable`)
* Those of `Reescritura`, `Invocacion`, `Llamadas` and `Biblioteca`, in section 3.

Met while modelling and written into the exceptions of the properties of `Alcance`: a lambda may
borrow `romper`, `...` and `este` from around it, which nothing after the analyzer can refer to
anything; it may read a variable of the function around it, which neither back end captures
(`input/PLAN_MODULOS.md:518-530` knows); a constant of one function forbids its name in all that
follow; the increment of a `desde` is not collected; `global funcion f` hides the local `f` of
another function; a name that is a function and a variable is looked up in opposite orders by
the two back ends; `++` is not an assignment for the analyzer, so constants may be
incremented. What the C compiler refuses for want of a declaration, the LLVM back end leaves out in silence.

Met while modelling, with no run: `lista.contiene` never finds a list
(`runtime/libs/lista.c:150`); the LLVM back end reserves the cells of temporaries inside loops
(`input/PLAN_LLVM.md:1354-1361` says it should not). Outside what `MCGeneracion` puts in its
programs: dynamic calls in the condition of `repetir`, in an `osi` or in a later case of
`elegir` leave their temporaries in the block before, and the C does not compile; the
arguments of both branches of a ternary are evaluated; the arguments of `nuevo` and `base`
appear twice in the C of a class with a constructor; when two operands have effects, what
the C program does depends on both compilers. `MCGeneracion` says in its header that it keeps out of these.

## 7. Not modelled

* *Of the lexer and parser*: line numbers, the overflow of `std::stod`, the depth of the recursion.
* *Of the rewriting*: functions nested inside blocks or methods; an alias that is also a declaration of the
  file; a name that only the increment of a `desde` uses.
* *Values as text, numbers as doubles, mathematics*: TLC has integers. Where a comparison
  matters, `Valores` gives a number its magnitude and a NaN its behaviour.
* *Reference counts*: `lat_liberar` exists in the runtime, and emitted programs never call it.
* *System, file and package libraries, the JIT*: input and output, or other people's code.
* *Of the driver*: the wording of messages, what MSVC leaves in its log, the answer for an
  LLVM module that does not verify (`Llamadas` has when that happens).
* *Of the back ends*: the preamble, the marshalling of FFI arguments (`tipoFFIaC` and its LLVM twin), cells for
  temporaries that the LLVM back end reserves inside loops (`src/compiler_llvm.cpp:125`: memory, not meaning).
* *Of the analyzer*: annotated types, generic bounds, the types of FFI arguments, library members: comparisons of
  literals, with no state.
* *Of calls*: a destination that is itself a call; a user's `lat_resto`; types called `wrapper` or `anon`.
* *Of lists and values*: `lista.separador`; the text of a list that contains itself, built by recursion without
  end (`runtime/latino.c:971`); assignment to one character of a string, which every copy of the value
  sees (`runtime/latino.c:946`).
* *Of text*: `cadena.formato` (`snprintf`), `es_numerico` (`strtod`), constants and one-line wrappers.
* *Slugs*: two paths with the same slug share internal names
  (`src/resolutor_modulos.cpp:816`); the runs use distinct slugs, the modules do not assume it.

## 8. Plan

In order of importance; the ones marked are done.

1. [done] `ResolutorModulos` with `EnlaceAbstracto` and `ResolutorPruebas`.
2. [done] `Inclusiones` and `Jerarquia` with proofs; `Listas` with `ListasAbstractas` and proofs.
3. [done] Code generation: `Maquina` ... `Generacion`.
4. [done] `Diccionarios` with `DiccionariosAbstractos`.
5. [done] `Reescritura`: nested functions, mangling and the walk that finds the references, on `Visitas`.
6. [done] `Alcance`: scopes, constants, contexts, the variable collector and the cells of both
   back ends.
7. [done] `Invocacion`: temporary files, options, exit codes; two compilations at once.
8. [done] `Biblioteca`: expressions, texts and ranges.
9. [done] `Lexico`, `Analisis` with `AnalisisReferencia`.
10. [done] Calls: `MaquinaLlamadas` ... `Llamadas`.
11. [done] `Inclusiones` and `Alcance` proved in full. No module is planned beyond these.

## 9. How to run it

```
tlc -workers 2 -config MCResolutor.cfg MCResolutor.tla
tlapm ResolutorPruebas.tla
```

Each `MC*.tla` has its instance in its header comment and one `.cfg`.
The runs take from a few seconds to under three minutes (`listas`, `analisis`; `invocacion` one and a half). The
eight modules of proofs, `ResolutorPruebas`, `ListasPruebas`, `DiccionariosPruebas`, `AnalisisPruebas`,
`InvocacionPruebas`, `JerarquiaPruebas`, `InclusionesPruebas` and `AlcancePruebas`, take from half a minute to a few minutes each.

---------------------------- MODULE MCInvocacion ----------------------------
(***************************************************************************)
(* Runs of latino in two directories.  In the first group of scenes two    *)
(* make an executable: of sources with the same stem or not, with the      *)
(* same output or not, with either back end.  In the second one run has    *)
(* every combination of options over every kind of program.  In the third  *)
(* two of them name files of the temporary directory.  The rest stop at    *)
(* their command line.  In the last scene two runs of one source meet a    *)
(* run of another with the same stem.                                      *)
(***************************************************************************)
EXTENDS Invocacion

P1 == "p1"
P2 == "p2"
P3 == "p3"
MC_Procesos == {P1, P2, P3}

(* Sources that compile and run, and one of each other kind.                *)
Corren == {<<"d", "a", ".lat">>, <<"e", "a", ".lat">>, <<"d", "b", ".lat">>, <<"d", "a", "">>}
Mudo == <<"d", "mudo", ".lat">>
Raro == <<"d", "raro", ".lat">>
Malo == <<"d", "malo", ".lat">>
Ausente == <<"d", "ausente", ".lat">>
Temporal == <<"tmp", "a", ".c">>
MC_Fuentes == Corren \cup {Mudo, Raro, Malo, Temporal}
MC_Programas ==
  [f \in MC_Fuentes |->
     [frente |-> f # Malo, entrada |-> IF f = Mudo THEN "ninguna" ELSE IF f = Raro THEN "mal" ELSE "bien"]]

B(l, w, m) == [llvm |-> l, windows |-> w, msvc |-> m]
MC_Builds == {B(TRUE, FALSE, FALSE), B(TRUE, TRUE, TRUE), B(FALSE, TRUE, FALSE)}

Normal(f, b, o, c) ==
  [linea |-> TRUE, ruta |-> f, opciones |-> {}, backend |-> b, salida |-> o, args |-> FALSE, cwd |-> c]
Otra == <<"d", "x", "">>
Normales(fs, c) ==
  {Normal(f, b, o, c) : f \in fs, b \in {"", "c"}, o \in {Sin, Otra}}

Parado == [Normal(Mudo, "", Sin, "e") EXCEPT !.linea = FALSE]
Opciones ==
  {[linea |-> TRUE, ruta |-> f, opciones |-> os, backend |-> b, salida |-> o, args |-> a, cwd |-> "d"] :
     f \in {<<"d", "b", ".lat">>, Mudo, Raro, Malo, Ausente},
     os \in SUBSET {"ast", "solo-c", "solo-ir", "jit"},
     b \in {"", "c", "llvm"}, o \in {Sin, Otra}, a \in BOOLEAN}

Escena(x, y, z) == [p \in MC_Procesos |-> IF p = P1 THEN x ELSE IF p = P2 THEN y ELSE z]
(* Two runs of one source, which the third spoils.                          *)
Tres ==
  Escena(Normal(<<"d", "a", ".lat">>, "c", Sin, "d"), Normal(<<"d", "a", ".lat">>, "c", Sin, "d"),
         Normal(<<"e", "a", ".lat">>, "c", Sin, "e"))

(* Sources and outputs where the back ends put their files.                 *)
EnTemporales == {Normal(Temporal, "c", Sin, "d"),
                 Normal(<<"d", "a", ".lat">>, "", Temporal, "d"),
                 Normal(<<"d", "a", ".lat">>, "c", <<"tmp/latino_obj", "a", ".obj">>, "d"),
                 Normal(<<"d", "b", ".lat">>, "c", <<"tmp", "latino_llvm_obj", ".obj">>, "d")}

MC_Escenas ==
  {Escena(x, y, Parado) :
     x \in Normales(Corren \cup {Mudo}, "d"),
     y \in Normales({<<"d", "a", ".lat">>, <<"e", "a", ".lat">>, <<"d", "b", ".lat">>}, "e")}
  \cup {Escena(x, Parado, Parado) : x \in Opciones}
  \cup {Escena(x, y, Parado) : x \in EnTemporales, y \in EnTemporales}
  \cup {Tres}
=============================================================================

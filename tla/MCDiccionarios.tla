--------------------------- MODULE MCDiccionarios ---------------------------
(* Up to three dictionaries and MaxPasos calls, with two keys of one text,   *)
(* one that is a backslash and an n, and one that is what they are read as.  *)
EXTENDS Diccionarios, TLC

CONSTANT MaxPasos
VARIABLE pasos      \* calls made

MC_Texto ==
  [k \in Llaves |-> CASE k \in {"1", "uno"} -> <<"1">>
                     [] k = "barra" -> <<"\\", "n">>
                     [] k = "salto" -> <<"\n">>]

\* lat_cadena letter by letter.
RECURSIVE Lee(_, _)
Lee(t, i) ==
  IF i > Len(t) THEN <<>>
  ELSE IF t[i] # "\\" \/ i = Len(t) THEN <<t[i]>> \o Lee(t, i + 1)
  ELSE (IF t[i + 1] \in DOMAIN Leida THEN <<Leida[t[i + 1]]>> ELSE <<t[i], t[i + 1]>>) \o Lee(t, i + 2)

ASSUME LatCadenaAssumption ==
  \A n \in 0..6 : \A t \in [1..n -> {"\\", "n", "x"}] :
    LatCadena(t) = Lee(t, 1) /\ (LatCadena(t) = t <=> SinEscapes(t))

\* Addresses and values are only compared for equality.
Simetria == Permutations(Ids) \cup Permutations(Datos)

MCInit == Init /\ pasos = 0
MCNext ==
  \/ Next /\ destino = Libre /\ pasos < MaxPasos /\ pasos' = pasos + 1
  \/ Next /\ destino # Libre /\ UNCHANGED pasos
MCSpec == MCInit /\ [][MCNext]_<<vars, pasos>>
=============================================================================

---------------------------- MODULE MCLoadParams ----------------------------
(***************************************************************************)
(* Blocks for LoadParams.  Every order of three parameters with every      *)
(* acyclic set of dependencies, empty slots and an unknown name; a block   *)
(* of five with at most one dependency each (renaming them gives the other *)
(* orders); and every order of the parameters of diskmodel's modules that  *)
(* wait for others, with one that does not.                                *)
(***************************************************************************)
EXTENDS LoadParams, ModSpecs, FiniteSets, Functions, TLC

Letters == {"a", "b", "c"}

Five == <<"a", "b", "c", "d", "e">>

RealParams ==
    [dm_mech_g1 |-> {"Seek type", "Full seek curve", "First ten seek times",
                     "Head switch time"},
     dm_layout_g4 |-> {"TP", "IDX", "Slips"},
     dm_layout_g1_zone |-> {"Blocks per track", "Offset of first block",
                            "Skew for track switch", "slips"},
     dm_layout_g2_zone |-> {"Blocks per track", "Zone Skew",
                            "Skew for track switch", "First LBN"}]

MCParams == Letters \cup {"d", "e"} \cup UNION {RealParams[m] : m \in DOMAIN RealParams}

\* The orders of all the elements of S.
Orders(S) ==
    {f \in [1..Cardinality(S) -> S] : \A i, j \in DOMAIN f : f[i] = f[j] => i = j}

DepsOf(f) == f @@ [p \in MCParams |-> <<>>]

\* No parameter depends, directly or not, on itself (DOC: "Don't create
\* cyclic dependencies").
Acyclic(f) ==
    \E rank \in [Letters -> 1..3] :
        \A p \in Letters : \A i \in DOMAIN f[p] : rank[f[p][i]] < rank[p]

LetterDeps ==
    {f \in [Letters -> {<<>>} \cup {<<p>> : p \in Letters} \cup {<<"b", "c">>, <<"c", "a">>}] :
        Acyclic(f)}

LetterBlocks ==
    LET present == {s \in SUBSET (Letters \cup {Unknown}) : Cardinality(s) >= 2}
        full    == UNION {Orders(s) : s \in present}
    IN  full \cup {b \o <<Null>> : b \in full}

LetterInputs ==
    {[block |-> b, deps |-> DepsOf(d), req |-> <<"a", "c">>] : b \in LetterBlocks, d \in LetterDeps}

\* Each of the five waits for at most one; going from one to the next four
\* times reaches one that waits for none.
FiveDeps ==
    LET on(f, p) == IF f[p] = <<>> THEN p ELSE f[p][1] IN
    {f \in [Range(Five) -> {<<>>} \cup {<<p>> : p \in Range(Five)}] :
        \A p \in Range(Five) : f[on(f, on(f, on(f, on(f, p))))] = <<>>}

FiveInputs ==
    {[block |-> Five, deps |-> DepsOf(f), req |-> <<"e">>] : f \in FiveDeps}

RealInputs ==
    UNION {{[block |-> b \o t, deps |-> DepsOf(Restrict(dm_deps[m], RealParams[m])),
             req |-> SelectSeq(RequiredOf(m), LAMBDA n : n \in RealParams[m])] :
                 b \in Orders(RealParams[m]), t \in {<<>>, <<Null>>}} :
           m \in DOMAIN RealParams}

MCInputs == LetterInputs \cup FiveInputs \cup RealInputs
=============================================================================

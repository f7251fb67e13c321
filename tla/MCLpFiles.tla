----------------------------- MODULE MCLpFiles -----------------------------
(***************************************************************************)
(* Small trees of parameter files for LpFiles, and what loading one should *)
(* give: every file in the place it is named.                              *)
(***************************************************************************)
EXTENDS LpFiles, TLC

P(d, b) == [abs |-> FALSE, dir |-> d, base |-> b]
Abs(d, b) == [abs |-> TRUE, dir |-> d, base |-> b]

item(x) == [k |-> "item", x |-> x]
block(x) == [k |-> "block", x |-> x]
inst(x)  == [k |-> "inst", x |-> x]
source  == [k |-> "source"]
name(p) == [k |-> "name", p |-> p]
src(p)  == <<source, name(p)>>
bad     == [k |-> "bad"]

main == P(<<>>, "main")
more == P(<<"t">>, "more")

\* The name `x`, with and without a directory, absolute, and one of nothing.
Names == {P(<<>>, "x"), P(<<"s">>, "x"), Abs(<<"s">>, "x")}

Lines == {<<item("m")>>, <<bad>>} \cup {src(p) : p \in Names}

Short(S) == S \cup {a \o b : a \in S, b \in S}

\* Where a file x can be, and what is in it: an item, an item before another
\* file, itself, and one more file in the library.
Places == {P(<<>>, "x"), P(<<"s">>, "x"), P(<<"s", "s">>, "x"), P(<<"t">>, "x"),
           P(<<"lib">>, "x"), P(<<"lib", "s">>, "x"), Abs(<<"s">>, "x")}

Near == {P(<<>>, "x"), P(<<"s">>, "x"), P(<<"lib">>, "x")}

Kept == {<<item("x")>>, <<item("x"), item("y")>>, <<item("x")>> \o src(P(<<>>, "x")),
         src(P(<<"s">>, "x")) \o <<bad>>, src(P(<<>>, "y")) \o <<item("x")>>}

Deeper == P(<<"lib">>, "y") :> <<item("y")>>

\* At most one file in two places, of two kinds.
Libraries ==
    {<<>>} \cup {a :> c @@ b :> <<item("x")>> : a \in Places, b \in Places, c \in Kept}

LibDir == [abs |-> FALSE, dir |-> <<"lib">>]
NoDir  == [abs |-> FALSE, dir |-> <<"none">>]

SearchPaths == {<<>>, <<NoDir, LibDir>>}

Includes ==
    {[files |-> main :> c @@ more :> (src(P(<<>>, "x")) \o <<item("n")>>) @@ Deeper @@ l,
      path |-> e, loads |-> <<main, more>>] :
        l \in Libraries, c \in Short(Lines), e \in SearchPaths}

\* A block and an instantiation of it, in one file or in two, in one load or in
\* two, before or after another file.
BlockLines ==
    {<<block("b")>>, <<inst("b")>>, <<inst("b")>> \o src(P(<<>>, "x"))} \cup {src(p) : p \in Names}

BlockFiles == {<<block("b")>>, <<inst("b")>> \o src(P(<<"s">>, "x"))}

Instances ==
    {[files |-> main :> c @@ more :> (<<inst("b")>> \o src(P(<<>>, "x"))) @@ a :> f @@ b :> <<item("x")>>,
      path |-> e, loads |-> <<main, more>>] :
        a \in Places, b \in Near, f \in BlockFiles, c \in Short(BlockLines), e \in SearchPaths}

MCSetups == Includes \cup Instances

-----------------------------------------------------------------------------
(* Where a name is meant to be looked for, as the comment before the search *)
(* says: an absolute one there; another under the directory of the file it  *)
(* is in, then under each directory of LP_PATH.                             *)
Meant(f, p) ==
    LET base == [p EXCEPT !.dir = <<>>, !.abs = FALSE]
        cs    == <<Under(NewCwd(Dir(f), p), base)>> \o
                 [i \in DOMAIN setup.path |-> Under(setup.path[i], p)]
        there == {i \in DOMAIN cs : Exists(cs[i])}
    IN  IF (p.abs /\ ~Exists(p)) \/ there = {} THEN None ELSE cs[Min(there)]

\* The directories searched: all of LP_PATH in the first load, only its first
\* directory in the ones after it.
Searched(i) == IF i = 1 THEN setup.path ELSE FirstOf(setup.path)

Found(f, p, i) == lp_search_path(NewCwd(Dir(f), p), Searched(i), p)

(* The things of a file with each included file in its place; <<None>> when *)
(* a name cannot be found, the input is bad or files nest too deep, and     *)
(* <<Elsewhere>> when a file is looked for in another place than is meant.  *)
Elsewhere == [k |-> "elsewhere"]

RECURSIVE Flat(_, _, _), FlatFrom(_, _, _, _)

Flat(f, i, depth) ==
    IF depth > MaxInputFiles THEN <<None>> ELSE FlatFrom(f, setup.files[f], i, depth)

Included(f, p, i, depth) ==
    CASE Found(f, p, i) # Meant(f, p) -> <<Elsewhere>>
      [] Found(f, p, i) = None /\ Meant(f, p) = None -> <<None>>
      [] OTHER -> Flat(Meant(f, p), i, depth + 1)

FlatFrom(f, ts, i, depth) ==
    IF ts = <<>> THEN <<>>
    ELSE LET t == Head(ts)
             first == CASE t.k \in {"item", "block", "inst"} ->
                                 <<[k |-> t.k, x |-> t.x, source_file |-> f, away |-> FALSE]>>
                        [] t.k = "bad" -> <<None>>
                        [] t.k = "source" -> <<>>
                        [] t.k = "name" -> Included(f, t.p, i, depth)
         IN  first \o FlatFrom(f, Tail(ts), i, depth)

Whole(ts) == \A j \in DOMAIN ts : ts[j] # None

\* Every load before this one ended, and no instantiation in it moved lp_cwd.
InOrder(i) ==
    /\ \A j \in 1..(i - 1) : results[j].how = "ended"
    /\ Stays(results[i].things)

\* lp_loadfile gives what the file asked for says: as long as every load before
\* it ended, and neither an instantiation nor a name with directories in it has
\* a file looked for in another place than libparam.lex:164-168 says, the things
\* of that file, each file named in it in its place and each thing with the file
\* it is from, or it does not end (util.c:1204-1284).
ReadsAsAsked ==
    \A i \in DOMAIN results :
        LET w == Flat(results[i].asked, i, 0) IN
        InOrder(i) /\ (\A j \in DOMAIN w : w[j] # Elsewhere) =>
            /\ results[i].how = "ended" <=> Whole(w)
            /\ results[i].how = "ended" => results[i].things = w

\* Unparsing gives the outermost file back when each file named in it is found
\* under the very name written and holds one thing, its own (libparam/DOC:450,
\* util.c:532-561); a `./` that dirname put before the name is not told apart.
UnparseRecreates ==
    \A i \in DOMAIN results :
        LET f  == results[i].asked
            ts == setup.files[f]
        IN  (/\ InOrder(i) /\ results[i].how = "ended"
             /\ \A k \in DOMAIN ts : ts[k].k = "name" =>
                    /\ Found(f, ts[k].p, i) = ts[k].p
                    /\ Len(setup.files[ts[k].p]) = 1
                    /\ setup.files[ts[k].p][1].k # "bad")
            => Unparse(results[i].things, f) = SelectSeq(ts, LAMBDA t : t.k # "source")
=============================================================================

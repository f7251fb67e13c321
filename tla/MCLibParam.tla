----------------------------- MODULE MCLibParam -----------------------------
(***************************************************************************)
(* Small files, overrides and calls for LibParam, and what an instance     *)
(* should be: the parameters of its block and of those above it, the       *)
(* overrides for its name, and numbers of the wanted types.                *)
(***************************************************************************)
EXTENDS LibParam, TLC

disk == [name |-> "disk", vars |-> "x" :> "D" @@ "y" :> "I" @@ "z" :> "S" @@ "l" :> "LIST" @@ "b" :> "BLOCK"]
lay  == [name |-> "lay", vars |-> "x" :> "D" @@ "y" :> "I"]

int(n) == [t |-> "I", x |-> 10 * n]
dbl(n) == [t |-> "D", x |-> n]
str(b, n) == [t |-> "S", x |-> [b |-> b, n |-> n]]
range(b, lo, hi) == [t |-> "RANGE", b |-> b, lo |-> lo, hi |-> hi]
listof(s) == [t |-> "LIST", items |-> s]
laywith(es) == [t |-> "BLOCK", of |-> "lay", exps |-> es]

is(n, v) == [names |-> <<n>>, v |-> v]
both(v) == [names |-> <<"x", "y">>, v |-> v]

block(super, sub, es) == [k |-> "block", t |-> "DEF", super |-> super, sub |-> sub, exps |-> es]
inst(s, name) == [k |-> "inst", items |-> s, name |-> name]

z == is("z", str("st", Null))

\* Definitions of p and of others; the inheriting ones stand second.
Firsts ==
    {block("disk", "p", es) : es \in {
        <<is("x", int(2)), is("y", int(3))>>,
        <<is("x", dbl(25)), is("y", int(3)), z>>,
        <<is("b", laywith(<<is("x", int(2))>>)), is("x", int(2))>>,
        <<is("l", listof(<<laywith(<<is("x", int(2))>>), range("ee", 1, 4), str("ee", 7)>>))>>,
        <<both(int(2)), is("u", int(1))>>,
        <<is("x", int(1)), is("y", int(2)), z, is("l", listof(<<range("ee", 1, 4)>>))>>,
        <<is("b", [t |-> "DEF", super |-> "lay", sub |-> "r", exps |-> <<is("y", int(1))>>]), is("y", int(5))>>,
        <<is("x", int(1)), is("x", int(2))>>,
        <<is("x", str("ss", 1))>>, <<is("z", str("ss", 1)), is("x", int(4))>>,
        <<is("b", [t |-> "BLOCK", of |-> "none", exps |-> <<>>])>>}}

Seconds ==
    {block("p", "q", es) : es \in {
        <<is("x", int(3)), is("y", int(1)), z>>,
        <<is("x", int(3)), is("y", int(1)), is("w", int(1))>>,
        <<>>, <<is("x", int(3))>>}}
    \cup {block("disk", "disk", <<is("y", int(1))>>),
          block("disk", "p", <<>>),
          block("none", "q", <<z>>),
          block("lay", "r", <<is("y", int(4))>>)}

Lasts ==
    {inst(<<range("dk", 1, 2)>>, n) : n \in {"p", "q", "disk"}}
    \cup {inst(<<str("d", 1)>>, "p"), inst(<<int(1)>>, "p"), inst(<<range("dk", 2, 1)>>, "p"),
          [k |-> "topo", x |-> "t"]}

Files == {<<a, c>> : a \in Firsts, c \in Lasts}
         \cup {<<a, b, c>> : a \in Firsts, b \in Seconds, c \in Lasts}

on(r, p, v) == [range |-> r, path |-> p, text |-> v]
all == [k |-> "all"]
dk1 == [b |-> "dk", n |-> 1]

Overrides ==
    {<<>>,
     <<on(all, <<"x">>, 25)>>,
     <<on([k |-> "is", name |-> dk1], <<"x">>, 25), on(all, <<"y">>, 70)>>,
     <<on([k |-> "prefix", b |-> "dk"], <<"b", "x">>, 35), on(all, <<"x">>, 15)>>,
     <<on([k |-> "range", b |-> "dk", lo |-> 2, hi |-> 3], <<"y">>, 90),
       on([k |-> "range", b |-> "dk", lo |-> 2, hi |-> 1], <<"y">>, 10)>>,
     <<on(all, <<"z">>, 25), on(all, <<"l">>, 10)>>}

Calls == {<<>>, <<[targ |-> dk1, name |-> Null], [targ |-> [b |-> "dk", n |-> Null], name |-> "p"]>>}

MCSetups ==
    {[modules |-> <<disk, lay, disk>>, file |-> f, overrides |-> o, calls |-> c] :
        f \in Files, o \in Overrides, c \in Calls}

-----------------------------------------------------------------------------
(* What is meant, from the text of the file alone.                         *)

Defs == {i \in DOMAIN setup.file : setup.file[i].k = "block"}

Module(name) == CHOOSE i \in {1, 2} : <<"disk", "lay">>[i] = name

RECURSIVE Meant(_), MeantExps(_)
Meant(a) ==
    CASE a.t = "LIST" ->
            LET whole == FoldLeft(LAMBDA s, e : s \o Expanded(e), <<>>, a.items)
            IN  [t |-> "LIST", l |-> [i \in DOMAIN whole |-> Meant(whole[i])]]
      [] a.t = "BLOCK" -> [t |-> "BLOCK", type |-> Module(a.of), ps |-> MeantExps(a.exps)]
      [] a.t = "DEF" -> [t |-> "BLOCK", type |-> Module(a.super), ps |-> MeantExps(a.exps)]
      [] OTHER -> a

MeantExps(es) == UNION {{<<n, Meant(es[i].v)>> : n \in ToSet(es[i].names)} : i \in DOMAIN es}

\* The parameters of a block and, unless it gives them, of the one it is made from.
RECURSIVE Inherited(_)
Inherited(name) ==
    LET d   == setup.file[CHOOSE i \in Defs : setup.file[i].sub = name]
        own == MeantExps(d.exps)
        up  == IF d.super \in {"disk", "lay"}
               THEN [type |-> Module(d.super), ps |-> {}] ELSE Inherited(d.super)
    IN  [type |-> up.type,
         ps |-> own \cup {p \in up.ps : \A q \in own : q[1] # p[1]}]

Applies(r, name) ==
    CASE r.k = "all" -> TRUE
      [] r.k = "is" -> r.name = name
      [] r.k = "prefix" -> r.b = name.b
      [] r.k = "range" -> r.b = name.b /\ name.n # Null /\ r.lo <= name.n /\ name.n <= r.hi

\* A number given where an integer stands is cut to one.
Given(v, text) ==
    [v EXCEPT !.x = CASE v.t = "I" -> text - (text % 10)
                      [] v.t = "D" -> text
                      [] v.t = "S" -> [b |-> "text", n |-> text]]

Replaced(ps, n, f(_)) == {IF p[1] = n THEN <<n, f(p[2])>> ELSE p : p \in ps}

Overridden(ps, os, name) ==
    FoldLeft(LAMBDA s, o :
        IF ~Applies(o.range, name) THEN s
        ELSE IF Len(o.path) = 1 THEN Replaced(s, o.path[1], LAMBDA v : Given(v, o.text))
        ELSE Replaced(s, o.path[1], LAMBDA v :
                 [v EXCEPT !.ps = Replaced(@, o.path[2], LAMBDA w : Given(w, o.text))]),
        ps, os)

RECURSIVE Typed(_)
Typed(v) ==
    CASE v.t = "BLOCK" ->
            [v EXCEPT !.ps = {<<p[1], IF p[2].t = "I" /\ Wanted(v.type, p[1]) = "D"
                                      THEN [p[2] EXCEPT !.t = "D"] ELSE Typed(p[2])>> : p \in @}]
      [] v.t = "LIST" -> [v EXCEPT !.l = [i \in DOMAIN @ |-> Typed(@[i])]]
      [] OTHER -> v

\* Names defined once, and not as a module: what the file means is plain.
Plain ==
    /\ \A i, j \in Defs : i # j => setup.file[i].sub # setup.file[j].sub
    /\ \A i \in Defs : setup.file[i].sub \notin {"disk", "lay", "r"}

-----------------------------------------------------------------------------
(* Properties                                                              *)

TypeOK ==
    /\ pc \in {"register", "reading", "loaded", "crash", "aborted"}
    /\ at \in 0..(Len(setup.file) + Len(setup.modules))
    /\ \A i \in DOMAIN typetbl : typetbl[i] # Null =>
          typetbl[i].spec \in DOMAIN mem \cup {Null}
    /\ \A id \in DOMAIN mem :
          /\ mem[id].t = "LIST" => \A i \in DOMAIN mem[id].l : mem[id].l[i] \in DOMAIN mem \cup {Null}
          /\ mem[id].t = "BLOCK" =>
                /\ mem[id].type \in DOMAIN mods
                /\ \A p \in ToSet(Used(mem[id].ps)) : p.v \in DOMAIN mem

\* What a loader is called with: the block's own parameters, the inherited
\* ones, the overrides for the component in the order they are given, and
\* integers made floating point where the module wants that
\* (util.c:584-694, 966-984, 1140-1199).
InstanceAsMeant ==
    \A i \in DOMAIN insts :
        LET n == insts[i].as IN
        (Plain /\ n # Null /\ Splits(insts[i].targ)) =>
            LET b == Inherited(n) IN
            insts[i].got = Typed([t |-> "BLOCK", type |-> b.type,
                                  ps |-> Overridden(b.ps, setup.overrides, insts[i].targ)])

\* Making instances leaves the blocks they are made from as they were, for
\* the next ones: overrides and conversions write to a copy (util.c:1140-1199).
SpecsUntouched ==
    [][\A id \in DOMAIN mem : Flat(mem', id) = Flat(mem, id)]_<<mem, insts>>

\* No loader sees a parameter of another type than its module wants, at any
\* depth: in blocks in blocks and in lists (util.c:624-694).
TypesHold ==
    LET RECURSIVE Holds(_)
        Holds(v) ==
            CASE v.t = "BLOCK" ->
                    \A p \in v.ps : /\ Wanted(v.type, p[1]) \in {Null, p[2].t}
                                    /\ Holds(p[2])
              [] v.t = "LIST" -> \A i \in DOMAIN v.l : Holds(v.l[i])
              [] OTHER -> TRUE
    IN  \A i \in DOMAIN insts : Holds(insts[i].got)

\* The things of a file are kept in order and none is lost as their array
\* grows (util.c:876-900).
ThingsInOrder ==
    LET ts == Used(tlts) IN
    /\ \A i \in DOMAIN ts : tlts[i] = ts[i] /\ ts[i].k = setup.file[i].k
    /\ pc = "reading" => Len(ts) = at

\* Every type there is comes down to a module (util.c:787-804).
TypesEndInModules ==
    \A i \in DOMAIN typetbl :
        typetbl[i] # Null => lp_mod_name(lp_lookup_base_type(typetbl, typetbl[i].sub)) # Null

\* A file of blocks made from modules, each of its own name, crashes in no
\* way; names of one letter apart (util.c:584-621, 728-784, 1029-1132).
NoCrash ==
    (/\ \A i \in Defs : setup.file[i].super \in {"disk", "lay", "none"}
     /\ \A i, j \in Defs : i # j => setup.file[i].sub # setup.file[j].sub
     /\ \A i \in DOMAIN setup.file :
           setup.file[i].k = "inst" => setup.file[i].items # <<str("d", 1)>>)
    => (pc = "crash" => \E i \in Defs : setup.file[i].sub = "r")

\* Each block written, read alone where its module is known and nothing else is,
\* gives the same block again, of the same module, with all it inherited in it
\* (libparam/DOC:435-455, util.c:400-561).  The file as a whole is not read back:
\* not names written twice, nor what is written as a `source` of another file.
UnparseReadsBack ==
    pc = "loaded" =>
        \A i \in DOMAIN Used(tlts) :
            tlts[i].k = "block" =>
                LET id == tlts[i].it
                    b  == Blockdef(Making(<<>>, lp_init_typetbl(mods)), unparse_block(mem, mem[id]))
                IN  b.how = "ok" /\ Flat(b.mem, b.made) = Flat(mem, id)

\* Releasing the types frees each value once, unless parameters share one:
\* those of one list of names, and those taken from the block above
\* (util.c:226-297, 966-984, 1004-1024; nothing calls it yet).
ReleaseFreesOnce ==
    (/\ pc = "loaded"
     /\ \A i \in Defs : /\ setup.file[i].super # "p"
                        /\ \A e \in ToSet(setup.file[i].exps) : Len(e.names) = 1)
    => IsInjective(lp_release_typetbl(typetbl, mem))

\* A loader sees what the file and the overrides say, with numbers of the
\* types its module wants (InstanceAsMeant, TypesHold above).
InstancesAsMeant == InstanceAsMeant /\ TypesHold

\* The tables of things, types and values hold together while a file is read
\* (util.c:728-962, 1004-1024; the parts are above).
KeepsTables ==
    /\ TypeOK
    /\ ThingsInOrder
    /\ TypesEndInModules
    /\ NoCrash
    /\ ReleaseFreesOnce
=============================================================================

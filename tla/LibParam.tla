------------------------------ MODULE LibParam ------------------------------
(***************************************************************************)
(* Blocks, types and instances in libparam (util.c and the actions of the  *)
(* grammar in libparam.y, built as libparam.tab.c): registering modules,   *)
(* the table of types, reading the top-level things of a file, making      *)
(* instances with command-line overrides, checking types, unparsing.       *)
(*                                                                         *)
(* The objects the parser allocates are cells of a memory, so that what is *)
(* shared and what is copied can be told apart: copying, overriding and    *)
(* converting write to cells.  Files and search paths are LpFiles', and    *)
(* what a loader function does with a block is LoadParams'.                *)
(*                                                                         *)
(* A number is in tenths: 20 stands for 2 and for 2.0, 25 for 2.5.         *)
(***************************************************************************)
EXTENDS Integers, SequencesExt

CONSTANTS
    Null,
    Slots,       \* how many places a new list or block has: 8 in the code
    OneLetter,   \* names of components of one letter and perhaps a number
    Setups       \* modules to register, a file, overrides, calls after it

VARIABLES
    setup,
    pc,        \* "register", "reading", "loaded", "crash", "aborted"
    mods,      \* lp_modules: [name, vars], vars the types of its parameters
    typetbl,   \* lp_typetbl: [sub, super, spec] or a free place
    mem,       \* cells: values, lists and blocks
    tlts,      \* lp_tlts: top-level things or free places
    at,        \* how much of the file, then of the calls, is done
    insts      \* what loaders were called with

vars == <<setup, pc, mods, typetbl, mem, tlts, at, insts>>

Nulls(n) == [i \in 1..n |-> Null]
IsFree(s, i) == s[i] = Null
FirstFree(s) == CHOOSE i \in DOMAIN s : IsFree(s, i) /\ \A j \in 1..(i - 1) : ~IsFree(s, j)
HasFree(s) == \E i \in DOMAIN s : IsFree(s, i)
Used(s) == SelectSeq(s, LAMBDA x : x # Null)

(* The arrays grow when they are full: lists double, blocks take one more  *)
(* than double, types and things double from nothing to two.               *)
lp_list_add(l, v) ==
    IF HasFree(l) THEN [l EXCEPT ![FirstFree(l)] = v]
    ELSE Append(l, v) \o Nulls(Len(l) - 1)

AddPlace(ps, p) ==
    IF HasFree(ps) THEN [ps EXCEPT ![FirstFree(ps)] = p]
    ELSE Append(ps, p) \o Nulls(Len(ps))

\* A mutant: a thing is put at the end of the longer array.
lp_add_tlt_last(ts, t) ==
    IF ts = <<>> THEN <<t, Null>>
    ELSE IF HasFree(ts) THEN lp_list_add(ts, t) ELSE ts \o Nulls(Len(ts) - 1) \o <<t>>

lp_add_tlt(ts, t) ==
    IF ts = <<>> THEN <<t, Null>> ELSE lp_list_add(ts, t)

-----------------------------------------------------------------------------
(* Modules and types                                                       *)

lp_register_module(ms, m) ==
    IF \E i \in DOMAIN ms : ms[i].name = m.name THEN ms ELSE Append(ms, m)

lp_init_typetbl(ms) ==
    [i \in DOMAIN ms |-> [sub |-> ms[i].name, super |-> Null, spec |-> Null]]

lp_mod_name(n) ==
    IF \E i \in DOMAIN mods : mods[i].name = n
    THEN CHOOSE i \in DOMAIN mods : mods[i].name = n ELSE Null

\* The first entry of a name, or Null.
Entry(tbl, name) ==
    LET here == {i \in DOMAIN tbl : tbl[i] # Null /\ tbl[i].sub = name}
    IN  IF here = {} THEN Null ELSE CHOOSE i \in here : \A j \in here : i <= j

lp_lookup_type(tbl, name) ==
    LET e == Entry(tbl, name) IN IF e = Null THEN Null ELSE tbl[e].super

RECURSIVE lp_lookup_base_type(_, _)
lp_lookup_base_type(tbl, name) ==
    LET up == lp_lookup_type(tbl, name)
    IN  IF up = Null THEN name ELSE lp_lookup_base_type(tbl, up)

\* Without a name: the first entry that is not a module's.
lp_lookup_spec(tbl, name) ==
    LET here == {i \in DOMAIN tbl : tbl[i] # Null /\
                    IF name = Null THEN tbl[i].super # Null ELSE tbl[i].sub = name}
    IN  IF here = {} THEN Null ELSE tbl[CHOOSE i \in here : \A j \in here : i <= j].spec

lp_add_type(tbl, newt, parent) ==
    lp_list_add(tbl, [sub |-> newt, super |-> parent, spec |-> Null])

-----------------------------------------------------------------------------
(* Parsing.  What is being built: the cells and types so far, the last     *)
(* thing made, and how it goes: "ok", "bad" when the parser gives up,      *)
(* "crash" when a NULL is dereferenced, "aborted" on a failed assertion or *)
(* exit.                                                                   *)

Making(m, tbl) == [mem |-> m, tbl |-> tbl, made |-> Null, how |-> "ok"]
Made(b, cell) == [b EXCEPT !.mem = Append(@, cell), !.made = Len(b.mem) + 1]
Fails(b, how) == [b EXCEPT !.how = how]

\* Adding a parameter to a block: a second one of a name is refused.
lp_add_param(b, p) ==
    IF \E i \in DOMAIN b.made : b.made[i] # Null /\ b.made[i].name = p.name
    THEN Fails(b, "bad")
    ELSE [b EXCEPT !.made = AddPlace(@, p)]

(* What the child has not defined is taken from the parent, place by       *)
(* place.  Both sides' names are read in every place, the free ones too.   *)
FromParent(ps, p) ==
    CASE ps = Null -> Null
      [] ps = <<>> -> <<p>>
      [] ps \notin {Null, <<>>} /\ (p = Null \/ HasFree(ps)) -> Null
      [] OTHER -> IF \E i \in DOMAIN ps : ps[i].name = p.name THEN ps ELSE AddPlace(ps, p)

lp_setup_subtype(parent, child) == FoldLeft(FromParent, child, parent)

RECURSIVE Value(_, _), Items(_, _), Exps(_, _), Blockdef(_, _)

(* LITEMS: `a1 .. a3` stands for as many strings.  Ranges need two letters *)
(* before the numbers, the same on both sides, and to go up.               *)
BadRange(a) == a.t = "RANGE" /\ (a.b \in OneLetter \/ a.hi < a.lo)

Expanded(a) ==
    IF a.t # "RANGE" \/ BadRange(a) THEN <<a>>
    ELSE [i \in 1..(a.hi - a.lo + 1) |-> [t |-> "S", x |-> [b |-> a.b, n |-> a.lo + i - 1]]]

PutInList(v, l) == [v EXCEPT !.made = lp_list_add(l, @)]

AddItem(b, a) == IF b.how = "ok" THEN PutInList(Value(b, a), b.made) ELSE b

Items(b, as) ==
    FoldLeft(AddItem,
             [b EXCEPT !.made = Nulls(Slots)],
             FoldLeft(LAMBDA s, a : s \o Expanded(a), <<>>, as))

(* EXPS: the parameters of a block.  `x = v`, or `[ x, y ] = v` for which  *)
(* the parameters share the value.  The first one makes the array.         *)
PutInBlock(v, names, ps) ==
    FoldLeft(LAMBDA acc, x : IF acc.how # "ok" THEN acc
                             ELSE lp_add_param(acc, [name |-> x, v |-> v.made]),
             [v EXCEPT !.made = ps], names)

AddExp(b, e) ==
    IF b.how # "ok" THEN b
    ELSE PutInBlock(Value(b, e.v), e.names, IF b.made = <<>> THEN Nulls(Slots) ELSE b.made)

Exps(b, es) == FoldLeft(AddExp, [b EXCEPT !.made = <<>>], es)

BlockCell(type, name, ps) == [t |-> "BLOCK", type |-> type, name |-> name, ps |-> ps]

(* BLOCKVAL: a block of a module, without a name.                          *)
Unnamed(e, type) ==
    IF e.how # "ok" THEN e
    ELSE IF type = Null THEN Fails(e, "bad")
    ELSE Made(e, BlockCell(type, Null, e.made))

Blockval(b, a) == Unnamed(Exps(b, a.exps), lp_mod_name(a.of))

ListOf(l) == IF l.how = "ok" THEN Made(l, [t |-> "LIST", l |-> l.made]) ELSE l

Value(b, a) ==
    CASE a.t \in {"I", "D", "S", "TOPOSPEC"} -> Made(b, [t |-> a.t, x |-> a.x])
      [] a.t = "RANGE" -> Fails(b, "bad")
      [] a.t = "LIST"  -> ListOf(Items(b, a.items))
      [] a.t = "BLOCK" -> Blockval(b, a)
      [] a.t = "DEF"   -> Blockdef(b, a)

(* BLOCKDEF: `super sub { ... }` adds a type.  Of one that is there        *)
(* already only a block with no name is made.                              *)
Defined(e, a, type, ps) ==
    CASE e.how # "ok" -> e
      [] e.how = "ok" /\ type = Null -> Fails(e, "bad")
      [] e.how = "ok" /\ type # Null /\ lp_lookup_type(e.tbl, a.sub) # Null ->
            Made(e, BlockCell(type, Null, <<>>))
      [] OTHER ->
            IF ps = Null THEN Fails(e, "crash")
            ELSE [Made(e, BlockCell(type, a.sub, ps)) EXCEPT
                    !.tbl = lp_add_type(@, a.sub, a.super)]

ParamsUnder(e, parent) ==
    IF parent = Null THEN e.made ELSE lp_setup_subtype(e.mem[parent].ps, e.made)

Derived(e, a) ==
    Defined(e, a, lp_mod_name(lp_lookup_base_type(e.tbl, a.super)),
            ParamsUnder(e, lp_lookup_spec(e.tbl, a.super)))

Blockdef(b, a) == Derived(Exps(b, a.exps), a)

(* load_block: the name's first entry gets the block.                      *)
load_block(b) ==
    LET name == b.mem[b.made].name IN
    IF name = Null THEN Fails(b, "crash")
    ELSE [b EXCEPT !.tbl[Entry(b.tbl, name)].spec = b.made]

-----------------------------------------------------------------------------
(* Instances                                                               *)

RECURSIVE copy_value(_, _)

\* What a cell holds, and the cell with other things in those places.
Held(c) ==
    CASE c.t = "LIST" -> c.l
      [] c.t = "BLOCK" -> [i \in DOMAIN c.ps |-> IF IsFree(c.ps, i) THEN Null ELSE c.ps[i].v]
      [] OTHER -> <<>>

Holding(c, ids) ==
    CASE c.t = "LIST" -> [c EXCEPT !.l = ids]
      [] c.t = "BLOCK" ->
            [c EXCEPT !.ps = [i \in DOMAIN @ |->
                                IF IsFree(@, i) THEN Null ELSE [@[i] EXCEPT !.v = ids[i]]]]
      [] OTHER -> c

(* copy_block, copy_list, copy_param and copy_value: a cell and all under  *)
(* it.                                                                     *)
NextCopy(acc, copied) == [m |-> copied.m, ids |-> Append(acc.ids, copied.id)]

Copies(m, ids) ==
    FoldLeft(LAMBDA acc, id : IF id = Null THEN [acc EXCEPT !.ids = Append(@, Null)]
                              ELSE NextCopy(acc, copy_value(acc.m, id)),
             [m |-> m, ids |-> <<>>], ids)

CopyWith(c, under) ==
    [m |-> Append(under.m, Holding(c, under.ids)), id |-> Len(under.m) + 1]

\* A mutant: only the cell is copied.
copy_value_shallow(m, id) == [m |-> Append(m, m[id]), id |-> Len(m) + 1]

copy_value(m, id) == CopyWith(m[id], Copies(m, Held(m[id])))

(* A component's name: letters, then perhaps a number.  dumb_split finds   *)
(* no number after a single letter and leaves its results unset.           *)
Splits(name) == name.b \notin OneLetter
Number(name) == IF name.n = Null THEN 0 ELSE name.n

\* A mutant: a range leaves out its first name.
range_match_short(r, name, guess) ==
    CASE r.k = "all" -> "hit"
      [] r.k = "is" /\ r.name = name -> "hit"
      [] r.k = "is" /\ r.name # name -> IF Splits(name) THEN "miss" ELSE guess
      [] r.k = "prefix" ->
            IF ~Splits(name) THEN guess ELSE IF r.b = name.b THEN "hit" ELSE "miss"
      [] r.k = "range" ->
            IF r.b \in OneLetter THEN guess
            ELSE IF r.hi < r.lo THEN "miss"
            ELSE IF ~Splits(name) THEN guess
            ELSE IF r.b = name.b /\ Number(name) \in (r.lo + 1)..r.hi THEN "hit" ELSE "miss"

(* Whether an override is for a component.  guess stands for what is read  *)
(* of an unset prefix.                                                     *)
range_match(r, name, guess) ==
    CASE r.k = "all" -> "hit"
      [] r.k = "is" /\ r.name = name -> "hit"
      [] r.k = "is" /\ r.name # name -> IF Splits(name) THEN "miss" ELSE guess
      [] r.k = "prefix" ->
            IF ~Splits(name) THEN guess ELSE IF r.b = name.b THEN "hit" ELSE "miss"
      [] r.k = "range" ->
            IF r.b \in OneLetter THEN guess
            ELSE IF r.hi < r.lo THEN "miss"
            ELSE IF ~Splits(name) THEN guess
            ELSE IF r.b = name.b /\ Number(name) \in r.lo..r.hi THEN "hit" ELSE "miss"

\* The place of a parameter in a block.
Named(ps, pname) == {i \in DOMAIN ps : ps[i] # Null /\ ps[i].name = pname}

(* The text is read as the type of the value that is there, not of the     *)
(* parameter: an integer keeps only the whole part.                        *)
Read(t, text) ==
    CASE t = "I" -> (text \div 10) * 10
      [] t = "D" -> text
      [] t = "S" -> [b |-> "text", n |-> text]

param_override(b, block, pname, text) ==
    LET ps == b.mem[block].ps IN
    IF Named(ps, pname) = {} THEN b
    ELSE LET v == ps[CHOOSE i \in Named(ps, pname) : TRUE].v IN
         IF b.mem[v].t \notin {"I", "D", "S"} THEN Fails(b, "aborted")
         ELSE [b EXCEPT !.mem[v].x = Read(b.mem[v].t, text)]

(* `foo:bar` goes into the block foo; when foo is no block the whole       *)
(* instance is given up.                                                   *)
OverrideIn(b, block, o) ==
    LET ps   == b.mem[block].ps
        here == Named(ps, o.path[1])
    IN  CASE Len(o.path) = 1 -> param_override(b, block, o.path[1], o.text)
          [] Len(o.path) = 2 /\ here = {} -> b
          [] OTHER ->
                LET v == ps[CHOOSE i \in here : TRUE].v IN
                IF b.mem[v].t = "BLOCK" THEN param_override(b, v, o.path[2], o.text)
                ELSE Fails(b, "none")

Override(b, block, o, match) ==
    CASE b.how # "ok" \/ match = "miss" -> b
      [] b.how = "ok" /\ match = "hit" -> OverrideIn(b, block, o)
      [] b.how = "ok" /\ match = "crash" -> Fails(b, "crash")

(* check_types: unknown parameters pass, integers become floating point    *)
(* where that is wanted, anything else ends the program.  Blocks in blocks *)
(* and in lists are checked too.                                           *)
RECURSIVE check_types(_, _)

Converted(b, v, want) ==
    IF want = "D" /\ b.mem[v].t = "I" THEN [b EXCEPT !.mem[v].t = "D"] ELSE b

BlocksUnder(m, v) ==
    CASE m[v].t = "BLOCK" -> <<v>>
      [] m[v].t = "LIST"  -> SelectSeq(Used(m[v].l), LAMBDA w : m[w].t = "BLOCK")
      [] OTHER -> <<>>

CheckedBelow(b, v, want) ==
    IF want \notin {Null, b.mem[v].t} THEN Fails(b, "aborted")
    ELSE FoldLeft(check_types, b, BlocksUnder(b.mem, v))

Wanted(type, name) ==
    IF name \in DOMAIN mods[type].vars THEN mods[type].vars[name] ELSE Null

CheckParam(b, v, want) ==
    IF b.how # "ok" THEN b ELSE CheckedBelow(Converted(b, v, want), v, want)

check_types(b, block) ==
    FoldLeft(LAMBDA acc, p : CheckParam(acc, p.v, Wanted(b.mem[block].type, p.name)),
             b, Used(b.mem[block].ps))

\* A value as it is read: without free places, the parameters of a block in
\* no order.
RECURSIVE Flat(_, _)
Flat(m, id) ==
    LET c == m[id] IN
    CASE c.t = "LIST"  -> [t |-> "LIST", l |-> [i \in DOMAIN Used(c.l) |-> Flat(m, Used(c.l)[i])]]
      [] c.t = "BLOCK" -> [t |-> "BLOCK", type |-> c.type,
                           ps |-> {<<p.name, Flat(m, p.v)>> : p \in ToSet(Used(c.ps))}]
      [] OTHER -> c

(* lp_override_inst on a copy of the spec, and the loader's call.  The     *)
(* copy is never freed, and forgotten here.                                *)
Loaded(b, done, block, targ, name) ==
    [b EXCEPT !.mem = SubSeq(done.mem, 1, Len(b.mem)),
              !.how = IF done.how = "none" THEN "ok" ELSE done.how,
              !.made = IF done.how = "ok"
                       THEN Append(@, [targ |-> targ, as |-> name, got |-> Flat(done.mem, block)])
                       ELSE @]

Checked(b, block) == IF b.how = "ok" THEN check_types(b, block) ELSE b

OverrideCopy(b, copy, targ, name, guess) ==
    Loaded(b,
           Checked(FoldLeft(LAMBDA acc, o :
                               Override(acc, copy.id, o, range_match(o.range, targ, guess)),
                            [b EXCEPT !.mem = copy.m], setup.overrides),
                   copy.id),
           copy.id, targ, name)

lp_override_inst(b, spec, targ, name, guess) ==
    OverrideCopy(b, copy_value(b.mem, spec), targ, name, guess)

lp_instantiate(b, targ, name, guess) ==
    IF b.how # "ok" THEN b
    ELSE IF lp_lookup_spec(b.tbl, name) = Null THEN Fails(b, "aborted")
    ELSE lp_override_inst(b, lp_lookup_spec(b.tbl, name), targ, name, guess)

\* Each string of the list, in order.
lp_inst_list(b, l, name, guess) ==
    FoldLeft(LAMBDA acc, v :
                IF acc.how = "ok" /\ acc.mem[v].t # "S" THEN Fails(acc, "aborted")
                ELSE lp_instantiate(acc, acc.mem[v].x, name, guess),
             [b EXCEPT !.made = <<>>], Used(l))

-----------------------------------------------------------------------------
Init ==
    /\ setup \in Setups
    /\ pc = "register"
    /\ mods = <<>> /\ typetbl = <<>> /\ mem = <<>> /\ tlts = <<>>
    /\ at = 0 /\ insts = <<>>

(* The application registers its modules, then makes the table of types.   *)
Register ==
    /\ pc = "register" /\ at < Len(setup.modules)
    /\ mods' = lp_register_module(mods, setup.modules[at + 1])
    /\ at' = at + 1
    /\ UNCHANGED <<setup, pc, typetbl, mem, tlts, insts>>

InitTypes ==
    /\ pc = "register" /\ at = Len(setup.modules)
    /\ typetbl' = lp_init_typetbl(mods)
    /\ pc' = "reading" /\ at' = 0
    /\ UNCHANGED <<setup, mods, mem, tlts, insts>>

\* Where a thing of the file leaves the program.
After(how, stop) ==
    CASE how = "ok" -> pc
      [] how = "bad" -> stop
      [] OTHER -> how

Took(b) ==
    /\ mem' = b.mem /\ typetbl' = b.tbl
    /\ pc' = After(b.how, "loaded")
    /\ at' = IF pc' = "loaded" THEN 0 ELSE at + 1
    /\ UNCHANGED <<setup, mods>>

Reading(k) ==
    pc = "reading" /\ at < Len(setup.file) /\ setup.file[at + 1].k = k

TookBlock(b) ==
    /\ Took(IF b.how = "ok" THEN load_block(b) ELSE b)
    /\ tlts' = IF b.how = "ok"
               THEN lp_add_tlt(tlts, [k |-> "block", it |-> b.made]) ELSE tlts

ReadBlock ==
    /\ Reading("block")
    /\ TookBlock(Blockdef(Making(mem, typetbl), setup.file[at + 1]))
    /\ UNCHANGED insts

(* The names are read into a list first.                                   *)
TookInst(b, i) ==
    /\ Took(b) /\ insts' = insts \o b.made
    /\ tlts' = lp_add_tlt(tlts, [k |-> "inst", it |-> i])

TookNames(l, i) ==
    IF l.how # "ok" THEN Took(l) /\ UNCHANGED <<tlts, insts>>
    ELSE \E guess \in {"hit", "miss", "crash"} :
            TookInst(lp_inst_list(l, l.made, i.name, guess), i)

ReadInst ==
    /\ Reading("inst")
    /\ TookNames(Items(Making(mem, typetbl), setup.file[at + 1].items), setup.file[at + 1])

(* The application's topology loader gets it.                              *)
ReadTopo ==
    /\ Reading("topo")
    /\ tlts' = lp_add_tlt(tlts, [k |-> "topo", it |-> setup.file[at + 1]])
    /\ at' = at + 1
    /\ UNCHANGED <<setup, pc, mods, typetbl, mem, insts>>

ReadEnd ==
    /\ pc = "reading" /\ at = Len(setup.file)
    /\ pc' = "loaded" /\ at' = 0
    /\ UNCHANGED <<setup, mods, typetbl, mem, tlts, insts>>

(* The application makes instances itself, of a type or of the first one   *)
(* there is (dm_testsuite.c:618, libparam_to_v3.c:250).                    *)
Called(b) ==
    /\ mem' = b.mem /\ insts' = insts \o b.made
    /\ pc' = After(b.how, "loaded")
    /\ at' = at + 1
    /\ UNCHANGED <<setup, mods, typetbl, tlts>>

Call ==
    /\ pc = "loaded" /\ at < Len(setup.calls)
    /\ \E guess \in {"hit", "miss", "crash"} :
          Called(lp_instantiate([Making(mem, typetbl) EXCEPT !.made = <<>>],
                                setup.calls[at + 1].targ, setup.calls[at + 1].name, guess))

Next == Register \/ InitTypes \/ ReadBlock \/ ReadInst \/ ReadTopo \/ ReadEnd \/ Call

Spec == Init /\ [][Next]_vars

-----------------------------------------------------------------------------
(* Unparsing: things as the parser would read them.  A block is written    *)
(* as one of its module.                                                   *)

RECURSIVE unparse_value(_, _)

\* A mutant: the last parameter is left out.
unparse_params_short(m, ps) ==
    [i \in 1..(Len(Used(ps)) - 1) |->
        [names |-> <<Used(ps)[i].name>>, v |-> unparse_value(m, Used(ps)[i].v)]]

unparse_params(m, ps) ==
    [i \in DOMAIN Used(ps) |->
        [names |-> <<Used(ps)[i].name>>, v |-> unparse_value(m, Used(ps)[i].v)]]

unparse_block(m, c) ==
    IF c.name = Null
    THEN [t |-> "BLOCK", of |-> mods[c.type].name, exps |-> unparse_params(m, c.ps)]
    ELSE [t |-> "DEF", super |-> mods[c.type].name, sub |-> c.name,
          exps |-> unparse_params(m, c.ps)]

unparse_value(m, id) ==
    LET c == m[id] IN
    CASE c.t = "LIST"  -> [t |-> "LIST", items |-> [i \in DOMAIN Used(c.l) |->
                                                        unparse_value(m, Used(c.l)[i])]]
      [] c.t = "BLOCK" -> unparse_block(m, c)
      [] OTHER -> c

-----------------------------------------------------------------------------
(* Releasing the table of types: the cells freed, in order.                *)

RECURSIVE destroy_value(_, _)
destroy_value(m, id) ==
    FlattenSeq([i \in DOMAIN Used(Held(m[id])) |-> destroy_value(m, Used(Held(m[id]))[i])])
        \o <<id>>

lp_release_typetbl(tbl, m) ==
    LET specs == SelectSeq(Used(tbl), LAMBDA e : e.spec # Null)
    IN  FlattenSeq([i \in DOMAIN specs |-> destroy_value(m, specs[i].spec)])
=============================================================================

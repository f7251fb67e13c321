------------------------------ MODULE LpFiles ------------------------------
(***************************************************************************)
(* Reading parameter files: lp_loadfile and lp_search_path                 *)
(* (libparam/util.c) and the scanner's include stack (libparam.lex, built  *)
(* as lex.libparam.c).  A file is a sequence of tokens: `source`, the name *)
(* after it, and whole topologies, blocks and instantiations.  A program   *)
(* may load several files (utils/params/merge_blocks.c does); the          *)
(* scanner's state is global and most of it outlives a load.               *)
(*                                                                         *)
(* Left out: line numbers, the length of candidates, blocks inside blocks  *)
(* and `source` inside a block.  A block is of a known type and its        *)
(* parameters of theirs, and an instantiation names some component, so     *)
(* that its loader runs.                                                   *)
(***************************************************************************)
EXTENDS Integers, SequencesExt

CONSTANTS
    None,           \* a NULL entry of the search path
    MaxInputFiles,  \* MAX_INPUT_FILES: slots of input_files and of paths
    Setups          \* the files there are, LP_PATH, and the loads

(* The files asked for are there: lp_loadfile gives up at once otherwise.  *)
(* A word is read as a name only after `source`.                           *)
ASSUME SetupsType ==
    /\ MaxInputFiles \in Nat
    /\ \A u \in Setups :
          /\ None \notin DOMAIN u.files /\ None \notin [file : DOMAIN u.files, pos : Nat]
          /\ u.path \in Seq(Range(u.path))
          /\ u.loads \in Seq(DOMAIN u.files)
          /\ \A f \in DOMAIN u.files :
                /\ u.files[f] \in Seq(Range(u.files[f]))
                /\ \A i \in DOMAIN u.files[f] :
                      u.files[f][i].k = "name" => i > 1 /\ u.files[f][i - 1].k = "source"

(* A path: absolute or not, its directories, its last name; a directory is *)
(* one without a name.                                                     *)
Dir(p) == [abs |-> p.abs, dir |-> p.dir]

(* "%s/%s": the second goes under the first even when it is absolute.      *)
Under(d, p) == [abs |-> d.abs, dir |-> d.dir \o p.dir, base |-> p.base]

VARIABLES
    setup,        \* [files, path, loads]: contents, directories, files to load
    phase,        \* "idle" between loads, "reading", "crash"
    n,            \* how many loads have begun
    env,          \* LP_PATH, which lp_loadfile cuts at the first colon
    lp_searchpath,
    infile,       \* libparamin, and whether anything of it was read
    buf,          \* the scanner's buffer: whose tokens, and where
    start,        \* its start condition
    input_files,  \* buffers and file names to go back to; top_file is its length
    paths,        \* directories to go back to; top_path is its length
    lp_cwd, lp_filename,
    things,       \* lp_tlts: each top-level thing and its source_file, and
                  \* whether reading it moved lp_cwd away from that of the file
    specs,        \* lp_typetbl: the blocks there are and their source_file
    results       \* what the loads before gave

lpvars == <<setup, phase, n, env, lp_searchpath, infile, buf, start, input_files,
          paths, lp_cwd, lp_filename, things, specs, results>>

Exists(p) == p \in DOMAIN setup.files

(* lp_search_path: where the name is looked for, in order; the first file  *)
(* that is there.  A NULL directory names nothing.                         *)
Candidates(cwd, sp, p) ==
    <<Under(cwd, p)>> \o
    [i \in DOMAIN sp |-> IF sp[i] = None THEN None ELSE Under(sp[i], p)]

lp_search_path(cwd, sp, p) ==
    LET cs    == Candidates(cwd, sp, p)
        there == {i \in DOMAIN cs : cs[i] # None /\ Exists(cs[i])}
    IN  IF (p.abs /\ ~Exists(p)) \/ there = {} THEN None
        ELSE cs[CHOOSE i \in there : \A j \in there : i <= j]

(* The directory of the name becomes the current one before the name is    *)
(* looked for: its own when it is absolute, else one under the current.    *)
NewCwd(cwd, p) ==
    IF p.abs THEN Dir(p)
    ELSE [abs |-> cwd.abs, dir |-> cwd.dir \o p.dir]

\* LP_PATH once its first colon has been made the end of the string.
FirstOf(e) == IF e = <<>> THEN <<>> ELSE <<Head(e)>>

Left == IF buf = None THEN <<>>
        ELSE SubSeq(setup.files[buf.file], buf.pos, Len(setup.files[buf.file]))

NextToken == Head(Left)

Advance == buf' = [buf EXCEPT !.pos = @ + 1]

LpInit ==
    /\ setup \in Setups
    /\ phase = "idle" /\ n = 0
    /\ env = setup.path
    /\ lp_searchpath = <<>>
    /\ infile = [file |-> None, fresh |-> FALSE]
    /\ buf = None
    /\ start = "INITIAL"
    /\ input_files = <<>> /\ paths = <<>>
    /\ lp_cwd = None /\ lp_filename = None
    /\ things = <<>> /\ specs = {} /\ results = <<>>

(* lp_loadfile up to the parser's first token.  The search path is a new   *)
(* array but its length goes on from the last load; the scanner's buffer,  *)
(* start condition and stack of directories are left as they are, and so   *)
(* is the table of types.                                                  *)
LoadFile ==
    /\ phase = "idle" /\ n < Len(setup.loads)
    /\ LET f == setup.loads[n + 1] IN
          /\ infile' = [file |-> f, fresh |-> TRUE]
          /\ lp_filename' = f /\ lp_cwd' = Dir(f)
    /\ lp_searchpath' = IF env = <<>> THEN lp_searchpath
                        ELSE [i \in DOMAIN lp_searchpath |-> None] \o env
    /\ env' = FirstOf(env)
    /\ input_files' = <<>>
    /\ things' = <<>>
    /\ n' = n + 1 /\ phase' = "reading"
    /\ UNCHANGED <<setup, buf, start, paths, specs, results>>

(* The buffer is at its end: more is read from libparamin.                 *)
Refill ==
    /\ phase = "reading" /\ Left = <<>> /\ infile.fresh
    /\ buf' = [file |-> infile.file, pos |-> 1]
    /\ infile' = [infile EXCEPT !.fresh = FALSE]
    /\ UNCHANGED <<setup, phase, n, env, lp_searchpath, start, input_files, paths,
                   lp_cwd, lp_filename, things, specs, results>>

Thing(f, away) ==
    [k |-> NextToken.k, x |-> NextToken.x, source_file |-> f, away |-> away]

Met(k) ==
    /\ phase = "reading" /\ start = "INITIAL"
    /\ Left # <<>> /\ NextToken.k = k

\* A mutant: a thing is given the file that was loaded.
ItemOfMain ==
    /\ Met("item")
    /\ things' = Append(things, Thing(setup.loads[n], FALSE))
    /\ Advance
    /\ UNCHANGED <<setup, phase, n, env, lp_searchpath, infile, start, input_files,
                   paths, lp_cwd, lp_filename, specs, results>>

(* The parser reduces a topology.                                          *)
Item ==
    /\ Met("item")
    /\ things' = Append(things, Thing(lp_filename, FALSE))
    /\ Advance
    /\ UNCHANGED <<setup, phase, n, env, lp_searchpath, infile, start, input_files,
                   paths, lp_cwd, lp_filename, specs, results>>

(* A block of a new name.                                                  *)
SpecsOf(x) == {s \in specs : s.x = x}

Block ==
    /\ Met("block")
    /\ SpecsOf(NextToken.x) = {}
    /\ things' = Append(things, Thing(lp_filename, FALSE))
    /\ specs' = specs \cup {[x |-> NextToken.x, source_file |-> lp_filename]}
    /\ Advance
    /\ UNCHANGED <<setup, phase, n, env, lp_searchpath, infile, start, input_files,
                   paths, lp_cwd, lp_filename, results>>

(* lp_loadparams, called by the loader of a block, makes the directory of  *)
(* the block's file the scanner's current one.                             *)
MovesTo(s) == lp_cwd' = Dir(s.source_file)

(* An instantiation: lp_inst_list and lp_instantiate call the loader.      *)
Instantiate ==
    /\ Met("inst")
    /\ \E s \in SpecsOf(NextToken.x) :
          /\ MovesTo(s)
          /\ things' = Append(things, Thing(lp_filename, Dir(s.source_file) # Dir(lp_filename)))
    /\ Advance
    /\ UNCHANGED <<setup, phase, n, env, lp_searchpath, infile, start, input_files,
                   paths, lp_filename, specs, results>>

(* A block of a name that is there already is made without a name, which   *)
(* load_block compares; an instantiation of none fails an assertion.       *)
Refused ==
    /\ \/ Met("block") /\ SpecsOf(NextToken.x) # {}
       \/ Met("inst") /\ SpecsOf(NextToken.x) = {}
    /\ phase' = "crash"
    /\ UNCHANGED <<setup, n, env, lp_searchpath, infile, buf, start, input_files,
                   paths, lp_cwd, lp_filename, things, specs, results>>

(* What lp_loadfile gives, whatever made the parser stop: it always        *)
(* returns 0.                                                              *)
Return(how, rest) ==
    /\ phase' = "idle"
    /\ results' = Append(results, [asked |-> setup.loads[n], how |-> how,
                                   things |-> things, rest |-> rest])

(* A block of an unknown type, or a syntax error: the parser stops there.  *)
Bad ==
    /\ Met("bad")
    /\ Advance
    /\ Return("bad", Tail(Left))
    /\ UNCHANGED <<setup, n, env, lp_searchpath, infile, start, input_files,
                   paths, lp_cwd, lp_filename, things, specs>>

Source ==
    /\ Met("source")
    /\ start' = "src"
    /\ Advance
    /\ UNCHANGED <<setup, phase, n, env, lp_searchpath, infile, input_files, paths,
                   lp_cwd, lp_filename, things, specs, results>>

(* The name after `source`: the buffer, the file name and the directory    *)
(* are pushed and the file is searched for.                                *)
Pushed ==
    /\ Len(input_files) < MaxInputFiles /\ Len(paths) < MaxInputFiles
    /\ input_files' = Append(input_files,
          [b |-> [buf EXCEPT !.pos = @ + 1], filename |-> lp_filename])
    /\ paths' = Append(paths, lp_cwd)

Include ==
    /\ phase = "reading" /\ start = "src"
    /\ Left # <<>> /\ NextToken.k = "name"
    /\ LET p == NextToken.p
           f == lp_search_path(NewCwd(lp_cwd, p), lp_searchpath, p)
       IN  /\ f # None
           /\ lp_filename' = f /\ lp_cwd' = Dir(f)
           /\ buf' = [file |-> f, pos |-> 1]
           /\ infile' = [file |-> f, fresh |-> FALSE]
    /\ Pushed
    /\ start' = "INITIAL"
    /\ UNCHANGED <<setup, phase, n, env, lp_searchpath, things, specs, results>>

(* It is not found: the scanner says the input has ended, and stays where  *)
(* it is.                                                                  *)
NotFound ==
    /\ phase = "reading" /\ start = "src"
    /\ Left # <<>> /\ NextToken.k = "name"
    /\ lp_search_path(NewCwd(lp_cwd, NextToken.p), lp_searchpath, NextToken.p) = None
    /\ Pushed
    /\ lp_cwd' = NewCwd(lp_cwd, NextToken.p)
    /\ lp_filename' = None
    /\ Advance
    /\ Return("lost", Tail(Left))
    /\ UNCHANGED <<setup, n, env, lp_searchpath, infile, start, things, specs>>

(* In the next load the scanner still waits for a name: the first word it  *)
(* meets, here one that names no file.  The words of a block after it may  *)
(* remain.                                                                 *)
TakenForName ==
    /\ phase = "reading" /\ start = "src"
    /\ Left # <<>> /\ NextToken.k # "name"
    /\ Pushed
    /\ lp_filename' = None
    /\ \/ Advance /\ Return("lost", Tail(Left))
       \/ NextToken.k # "source" /\ buf' = buf /\ Return("lost", Left)
    /\ UNCHANGED <<setup, n, env, lp_searchpath, infile, start, lp_cwd, things, specs>>

(* Nothing compares top_file or top_path with MAX_INPUT_FILES.             *)
Overflow ==
    /\ phase = "reading" /\ start = "src" /\ Left # <<>>
    /\ Len(input_files) >= MaxInputFiles \/ Len(paths) >= MaxInputFiles
    /\ phase' = "crash"
    /\ UNCHANGED <<setup, n, env, lp_searchpath, infile, buf, start, input_files,
                   paths, lp_cwd, lp_filename, things, specs, results>>

\* A mutant: the name of the file is not popped.
EofKeepsName ==
    /\ phase = "reading" /\ Left = <<>> /\ ~infile.fresh /\ input_files # <<>>
    /\ buf' = Last(input_files).b
    /\ lp_filename' = lp_filename
    /\ input_files' = Front(input_files)
    /\ lp_cwd' = Last(paths)
    /\ paths' = Front(paths)
    /\ infile' = [file |-> Last(input_files).b.file, fresh |-> FALSE]
    /\ UNCHANGED <<setup, phase, n, env, lp_searchpath, start, things, specs, results>>

\* A mutant: neither stack is popped.
EofPopsNothing ==
    /\ phase = "reading" /\ Left = <<>> /\ ~infile.fresh /\ input_files # <<>>
    /\ buf' = Last(input_files).b
    /\ lp_filename' = Last(input_files).filename
    /\ input_files' = input_files
    /\ lp_cwd' = Last(paths)
    /\ paths' = paths
    /\ infile' = [file |-> Last(input_files).b.file, fresh |-> FALSE]
    /\ UNCHANGED <<setup, phase, n, env, lp_searchpath, start, things, specs, results>>

(* <<EOF>> of an included file: back to the one that named it.             *)
EofOfIncluded ==
    /\ phase = "reading" /\ Left = <<>> /\ ~infile.fresh /\ input_files # <<>>
    /\ buf' = Last(input_files).b
    /\ lp_filename' = Last(input_files).filename
    /\ input_files' = Front(input_files)
    /\ lp_cwd' = Last(paths)
    /\ paths' = Front(paths)
    /\ infile' = [file |-> Last(input_files).b.file, fresh |-> FALSE]
    /\ UNCHANGED <<setup, phase, n, env, lp_searchpath, start, things, specs, results>>

(* <<EOF>> of the outermost.                                               *)
Eof ==
    /\ phase = "reading" /\ Left = <<>> /\ ~infile.fresh /\ input_files = <<>>
    /\ Return("ended", <<>>)
    /\ UNCHANGED <<setup, n, env, lp_searchpath, infile, buf, start, input_files,
                   paths, lp_cwd, lp_filename, things, specs>>

LpNext ==
    \/ LoadFile \/ Refill \/ Item \/ Block \/ Instantiate \/ Refused \/ Bad
    \/ Source \/ Include \/ NotFound \/ TakenForName \/ Overflow
    \/ EofOfIncluded \/ Eof

LpSpec == LpInit /\ [][LpNext]_lpvars

(* The program makes its loads one after the other, in one thread.         *)
LpFairSpec == LpSpec /\ WF_lpvars(LpNext)

\* A mutant: things of the outermost file are written as its name too.
UnparseNames(ts, f) ==
    [i \in DOMAIN ts |->
        IF ts[i].source_file # None
        THEN [k |-> "name", p |-> ts[i].source_file]
        ELSE [k |-> ts[i].k, x |-> ts[i].x]]

-----------------------------------------------------------------------------
(* unparse_tlt: a thing from another file than infile is written as a      *)
(* `source` of that file, here the name alone.                             *)
Unparse(ts, f) ==
    [i \in DOMAIN ts |->
        IF ts[i].source_file \notin {None, f}
        THEN [k |-> "name", p |-> ts[i].source_file]
        ELSE [k |-> ts[i].k, x |-> ts[i].x]]

-----------------------------------------------------------------------------
(* Properties                                                              *)

LpTypeOK ==
    /\ phase \in {"idle", "reading", "crash"}
    /\ n \in 0..Len(setup.loads) /\ Len(results) <= n
    /\ start \in {"INITIAL", "src"}
    /\ buf # None => Exists(buf.file) /\ buf.pos \in 1..(Len(setup.files[buf.file]) + 1)
    /\ Len(input_files) <= Len(paths) /\ Len(paths) <= MaxInputFiles
    /\ Len(env) <= Len(setup.path)

\* No instantiation has moved lp_cwd: each was of a block from a file in the
\* same directory as its own.
Stays(ts) == \A i \in DOMAIN ts : ~ts[i].away

\* Until an instantiation in this load moves lp_cwd, names are looked for
\* relative to the directory of the file they are in, at whatever depth and
\* after whatever loads (libparam.lex:117-201, util.c:1299-1304).
CwdOfFile == phase = "reading" /\ Stays(things) => lp_cwd = Dir(lp_filename)

\* And until then what was pushed belongs together: the name of each file being
\* read and its directory, though lp_loadfile empties one stack and not the other.
StacksMatch ==
    Stays(things) => \A i \in 1..Len(input_files) :
        paths[Len(paths) - Len(input_files) + i] = Dir(input_files[i].filename)

\* Each load that gives up inside included files leaves their directories on
\* the stack, which the next loads find filled (util.c:1217, libparam.lex:139).
PathsLeak ==
    (\A i \in DOMAIN results : results[i].how = "ended") =>
        (phase # "crash" => Len(paths) = Len(input_files))

\* A load that stops before the end of its input leaves the rest to be read
\* by the next: that begins with what the last left over (util.c:1225).
LeftoverRead ==
    \A i \in 2..Len(results) :
        LET left == results[i - 1].rest IN
        results[i - 1].how = "bad" /\ left # <<>> /\ left[1].k = "item" =>
            /\ results[i].things # <<>>
            /\ results[i].things[1].x = left[1].x

\* After a file that was not found the next load gets nothing, if there is
\* anything in its file, and does not get to its own end: the scanner still
\* waits for a name, and takes the next word for it (libparam.lex:190, no
\* BEGIN(INITIAL) before yyterminate).
NothingAfterLost ==
    \A i \in 2..Len(results) :
        LET left == results[i - 1].rest IN
        /\ results[i - 1].how = "lost" /\ (left = <<>> \/ left[1].k # "name")
        /\ setup.files[results[i].asked] # <<>>
        => results[i].how = "lost" /\ results[i].things = <<>>

\* What the scanner keeps of a file, and of a load for the next, stays in step:
\* its two stacks, its buffer and its start condition, the parts above.
ScannerInStep ==
    LpTypeOK /\ CwdOfFile /\ StacksMatch /\ PathsLeak /\ LeftoverRead /\ NothingAfterLost

\* Every load returns or runs past the end of the stacks, cyclic inclusion
\* and earlier failures included (util.c:1204-1284).
LoadsEnd == <>[](phase = "crash" \/ (phase = "idle" /\ n = Len(setup.loads)))
=============================================================================

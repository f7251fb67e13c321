----------------------------- MODULE LoadParams -----------------------------
(***************************************************************************)
(* lp_loadparams (libparam/util.c:1290): the loop that hands each          *)
(* parameter of a block to the loader its module has for it, and the       *)
(* dependency functions libparam/mod.pl writes from the DEPEND lines.      *)
(*                                                                         *)
(* A parameter is a name; its value is told by the name of the parameter   *)
(* it was written under, which is all the properties look at.  Indexes     *)
(* count from 1 here and from 0 in the code.                               *)
(*                                                                         *)
(* The loop also sets the directory of the scanner for each parameter      *)
(* (:1299); nothing here depends on it, and LpFiles has it.                *)
(***************************************************************************)
EXTENDS Integers, Sequences

CONSTANTS
    Params,     \* parameters the module knows
    NoParam,    \* -1: no unmet dependency; also an index not yet computed
    Null,       \* an empty slot of the block's array
    Unknown,    \* a name the module does not have: check_types only warns
    StackMax,   \* LP_STACK_MAX
    Inputs      \* the calls: a block and the module's DEPEND lines

ASSUME NamesDiffer == {NoParam, Null, Unknown} \cap Params = {}

ASSUME StackMaxPositive == StackMax \in Nat \ {0}

(* deps[p] lists the DEPEND lines of p in order, req the required ones.    *)
(* lp_add_param lets no name occur twice in a block and fills its slots    *)
(* from the front.                                                         *)
ASSUME InputsType ==
    \A in \in Inputs :
        /\ in.block \in Seq(Params \cup {Null, Unknown})
        /\ in.deps \in [Params -> Seq(Params)]
        /\ in.req \in Seq(Params)
        /\ \A i, j \in DOMAIN in.block :
              /\ in.block[i] = in.block[j] /\ in.block[i] \in Params => i = j
              /\ in.block[i] = Null /\ i < j => in.block[j] = Null

VARIABLES
    in,         \* the call's arguments
    pc,         \* where the loop is
    c,          \* index of the parameter at hand, shared by both loops
    pnum,       \* number of that parameter's name in the module
    needed,     \* the dependency looked for last
    stack,      \* param_stack[0 .. stack_ptr-1]
    loaded,     \* paramvec, the bit vector of what was loaded
    log,        \* loader calls: whose loader, and under whose name the value
    missing     \* the first required parameter found missing, if any

vars == <<in, pc, c, pnum, needed, stack, loaded, log, missing>>

Final == {"done", "abort", "crash"}

(* The function mod.pl writes for a parameter: one test per DEPEND line,   *)
(* the first unmet one returned, NoParam (-1) when all are met.            *)
AllMet(ds, met) == \A i \in DOMAIN ds : ds[i] \in met

FirstUnmet(ds, met) ==
    IF AllMet(ds, met)
    THEN NoParam
    ELSE ds[CHOOSE i \in DOMAIN ds :
                /\ ds[i] \notin met
                /\ \A j \in 1..(i - 1) : ds[j] \in met]

(* Where the search for `needed` stops: at the name, or at an empty slot,  *)
(* which it does not test for.                                             *)
StopsAt(b, name) ==
    {i \in DOMAIN b : /\ b[i] \in {name, Null}
                      /\ \A j \in 1..(i - 1) : b[j] \notin {name, Null}}

Init ==
    /\ in \in Inputs
    /\ pc = "for"
    /\ c = 1
    /\ pnum = NoParam
    /\ needed = NoParam
    /\ stack = <<>>
    /\ loaded = {}
    /\ log = <<>>
    /\ missing = NoParam

-----------------------------------------------------------------------------
(* The head of the for loop: past the end, an empty slot, or a parameter.  *)
ForEnd ==
    /\ pc = "for" /\ c > Len(in.block)
    /\ pc' = "check"
    /\ UNCHANGED <<in, c, pnum, needed, stack, loaded, log, missing>>

ForNull ==
    /\ pc = "for" /\ c <= Len(in.block) /\ in.block[c] = Null
    /\ c' = c + 1
    /\ UNCHANGED <<in, pc, pnum, needed, stack, loaded, log, missing>>

ForParam ==
    /\ pc = "for" /\ c <= Len(in.block) /\ in.block[c] # Null
    /\ pc' = "top"
    /\ UNCHANGED <<in, c, pnum, needed, stack, loaded, log, missing>>

(* TOP with a name the module does not have: bit -1 of the vector is       *)
(* tested (undefined; it may read as set), then the function before the    *)
(* table of dependency functions is called.                                *)
TopUnknown ==
    /\ pc = "top" /\ in.block[c] = Unknown
    /\ \/ pc' = "for" /\ c' = c + 1
       \/ pc' = "crash" /\ c' = c
    /\ pnum' = NoParam
    /\ UNCHANGED <<in, needed, stack, loaded, log, missing>>

(* A mutant of TopLoaded: the loop starts again.                           *)
TopLoadedRestarts ==
    /\ pc = "top" /\ in.block[c] \in loaded
    /\ pnum' = in.block[c]
    /\ pc' = "for" /\ c' = 1
    /\ UNCHANGED <<in, needed, stack, loaded, log, missing>>

(* TOP with a parameter loaded before: the loop goes on, whether or not    *)
(* something waits on the stack.                                           *)
TopLoaded ==
    /\ pc = "top" /\ in.block[c] \in loaded
    /\ pnum' = in.block[c]
    /\ pc' = "for" /\ c' = c + 1
    /\ UNCHANGED <<in, needed, stack, loaded, log, missing>>

(* A mutant of TopFree: what is loaded already is not tested.              *)
TopFreeAgain ==
    /\ pc = "top" /\ in.block[c] \in Params /\ stack = <<>>
    /\ pnum' = in.block[c]
    /\ pc' = "found"
    /\ UNCHANGED <<in, c, needed, stack, loaded, log, missing>>

TopFree ==
    /\ pc = "top" /\ in.block[c] \in Params \ loaded /\ stack = <<>>
    /\ pnum' = in.block[c]
    /\ pc' = "found"
    /\ UNCHANGED <<in, c, needed, stack, loaded, log, missing>>

(* TOP with something on the stack: c moves to the needed parameter while  *)
(* pnum stays the number of the one the loop was at.  An empty slot met on *)
(* the way is dereferenced; a needed parameter that is not in the block    *)
(* ends the whole loop.                                                    *)
TopSearch ==
    /\ pc = "top" /\ in.block[c] \in Params \ loaded /\ stack # <<>>
    /\ pnum' = in.block[c]
    /\ \/ /\ StopsAt(in.block, needed) = {}
          /\ pc' = "check" /\ c' = c
       \/ \E i \in StopsAt(in.block, needed) :
             /\ pc' = IF in.block[i] = Null THEN "crash" ELSE "found"
             /\ c' = i
    /\ UNCHANGED <<in, needed, stack, loaded, log, missing>>

(* FOUND with a dependency unmet: the index at hand is pushed and the loop *)
(* goes on to the next slot.                                               *)
Push ==
    /\ pc = "found" /\ ~AllMet(in.deps[pnum], loaded)
    /\ Len(stack) < StackMax
    /\ stack' = Append(stack, c)
    /\ needed' = FirstUnmet(in.deps[pnum], loaded)
    /\ pc' = "for" /\ c' = c + 1
    /\ UNCHANGED <<in, pnum, loaded, log, missing>>

PushFull ==
    /\ pc = "found" /\ ~AllMet(in.deps[pnum], loaded)
    /\ Len(stack) >= StackMax
    /\ pc' = "abort"
    /\ UNCHANGED <<in, c, pnum, needed, stack, loaded, log, missing>>

(* A mutant of Load: the index pushed last is taken off the stack but the  *)
(* loop goes on from here.                                                 *)
LoadNoReturn ==
    /\ pc = "found" /\ AllMet(in.deps[pnum], loaded)
    /\ log' = Append(log, [loader |-> pnum, value |-> in.block[c]])
    /\ loaded' = loaded \cup {pnum}
    /\ pc' = "for" /\ c' = c + 1
    /\ stack' = SubSeq(stack, 1, Len(stack) - 1)
    /\ UNCHANGED <<in, pnum, needed, missing>>

(* FOUND with none: pnum's loader is given the value at c.  The loader of  *)
(* one parameter may die of the value of another (an integer taken for a   *)
(* list).  Then the last index pushed is taken up again at TOP.            *)
Load ==
    /\ pc = "found" /\ AllMet(in.deps[pnum], loaded)
    /\ log' = Append(log, [loader |-> pnum, value |-> in.block[c]])
    /\ loaded' = loaded \cup {pnum}
    /\ \/ /\ stack = <<>>
          /\ pc' = "for" /\ c' = c + 1 /\ stack' = stack
       \/ /\ stack # <<>>
          /\ pc' = "top" /\ c' = stack[Len(stack)]
          /\ stack' = SubSeq(stack, 1, Len(stack) - 1)
    /\ UNCHANGED <<in, pnum, needed, missing>>

LoadDies ==
    /\ pc = "found" /\ AllMet(in.deps[pnum], loaded)
    /\ pnum # in.block[c]
    /\ pc' = "crash"
    /\ UNCHANGED <<in, c, pnum, needed, stack, loaded, log, missing>>

(* The second loop: a warning for the first required parameter not loaded, *)
(* and 0 is returned either way.                                           *)
Check ==
    /\ pc = "check"
    /\ missing' = FirstUnmet(in.req, loaded)
    /\ pc' = "done"
    /\ UNCHANGED <<in, c, pnum, needed, stack, loaded, log>>

Next ==
    \/ ForEnd \/ ForNull \/ ForParam
    \/ TopUnknown \/ TopLoaded \/ TopFree \/ TopSearch
    \/ Push \/ PushFull \/ Load \/ LoadDies
    \/ Check

Spec == Init /\ [][Next]_vars

(* The loop is sequential code: it takes its next step.                    *)
FairSpec == Spec /\ WF_vars(Next)

-----------------------------------------------------------------------------
(* Properties                                                              *)

TypeOK ==
    /\ pc \in {"for", "top", "found", "check"} \cup Final
    /\ c \in Nat \ {0}
    /\ pnum \in Params \cup {NoParam}
    /\ pc = "found" => pnum \in Params \ loaded
    /\ pc \in {"top", "found"} => c \in DOMAIN in.block /\ in.block[c] # Null
    /\ stack \in Seq(DOMAIN in.block) /\ Len(stack) <= StackMax
    /\ \A i \in DOMAIN stack : in.block[stack[i]] # Null
    /\ loaded \subseteq Params
    /\ log \in Seq([loader : Params, value : Params \cup {Null, Unknown}])

\* "Don't initialize things more than once" (util.c:1315): whatever the
\* order of the block and the dependencies, no loader runs twice.
LoadedOnce ==
    /\ loaded = {log[i].loader : i \in DOMAIN log}
    /\ \A i, j \in DOMAIN log : log[i].loader = log[j].loader => i = j

\* A loader runs only after the loaders of everything its DEPEND lines name,
\* though the loop jumps about in the block (util.c:1319-1341).
DepsLoadedFirst ==
    \A i \in DOMAIN log : \A k \in DOMAIN in.deps[log[i].loader] :
        \E j \in 1..(i - 1) : log[j].loader = in.deps[log[i].loader][k]

\* lp_loadparams calls each loader at most once, and after those of everything it
\* depends on, whatever the order of the block; what it pushed can be taken up.
OnceAfterDeps == TypeOK /\ LoadedOnce /\ DepsLoadedFirst

\* The names of the block before index i.
Before(i) == {in.block[j] : j \in 1..(i - 1)} \cap Params

\* Each parameter comes after what it depends on, or just before the one
\* parameter it still lacks, which itself lacks nothing.
NextDoor ==
    \A i \in DOMAIN in.block :
        in.block[i] \in Params =>
            \/ AllMet(in.deps[in.block[i]], Before(i))
            \/ /\ i + 1 \in DOMAIN in.block
               /\ in.block[i + 1] = FirstUnmet(in.deps[in.block[i]], Before(i))
               /\ in.block[i + 1] \in Params
               /\ AllMet(in.deps[in.block[i + 1]], Before(i))
               /\ AllMet(in.deps[in.block[i]], Before(i) \cup {in.block[i + 1]})

\* The module knows every name of the block.
Known == \A i \in DOMAIN in.block : in.block[i] # Unknown

OwnValues == \A i \in DOMAIN log : log[i].value = log[i].loader

Complete == loaded = Before(Len(in.block) + 1)

\* In a block ordered like that every parameter present reaches its own
\* loader with its own value, and the loop ends normally (util.c:1306-1372).
LoadsNextDoor ==
    Known /\ NextDoor =>
        /\ OwnValues
        /\ pc \notin {"abort", "crash"}
        /\ pc \in {"check", "done"} => Complete

\* The loop ends, whatever the order and the dependencies: each turn loads,
\* moves on, or takes a slot of a stack of bounded size (util.c:1306-1372).
Ends == <>(pc \in Final)
=============================================================================

------------------------------ MODULE LpProofs ------------------------------
(***************************************************************************)
(* What libparam promises of loading, in two parts.                        *)
(*                                                                         *)
(* Parameters (LoadParams), for every block, every set of DEPEND lines and *)
(* every stack size: each loader runs at most once and after those it      *)
(* waits for, and a block in which each parameter comes after what it      *)
(* waits for, or just before it, is loaded whole and right.                *)
(*                                                                         *)
(* Files (LpFiles), for any files, search path, depth and sequence of      *)
(* loads: what the scanner keeps stays in step.                            *)
(***************************************************************************)
EXTENDS LoadParams, LpFiles, WellFoundedInduction, TLAPS

-----------------------------------------------------------------------------
(* Parameters                                                              *)

TypeInv == in \in Inputs /\ TypeOK

\* What the assumption says of the call at hand.
LEMMA InputFacts ==
    ASSUME in \in Inputs
    PROVE  /\ in.block \in Seq(Params \cup {Null, Unknown})
           /\ in.deps \in [Params -> Seq(Params)]
           /\ \A i, j \in DOMAIN in.block :
                 /\ in.block[i] = in.block[j] /\ in.block[i] \in Params => i = j
                 /\ in.block[i] = Null /\ i < j => in.block[j] = Null
           /\ DOMAIN in.block = 1..Len(in.block) /\ Len(in.block) \in Nat
           /\ \A i \in DOMAIN in.block : in.block[i] \in Params \cup {Null, Unknown}
BY InputsType

\* A sequence without its last element.
LEMMA FrontOf ==
    ASSUME NEW S, NEW s \in Seq(S), NEW h \in Nat, Len(s) = h + 1
    PROVE  /\ SubSeq(s, 1, h) \in Seq(S)
           /\ Len(SubSeq(s, 1, h)) = h
           /\ \A i \in 1..h : SubSeq(s, 1, h)[i] = s[i]
OBVIOUS

\* Of some numbers one is the least.
LEMMA LeastOf ==
  ASSUME NEW T, T \subseteq Nat, T # {}
  PROVE  \E m \in T : \A k \in T : m <= k
<1> DEFINE R == OpToRel(<, Nat)
<1>1. IsWellFoundedOn(R, Nat)
  BY NatLessThanWellFounded, Zenon
<1>2. ASSUME NEW a \in Nat, NEW b \in Nat, a < b PROVE <<a, b>> \in R
  BY <1>2, Zenon DEF OpToRel
<1> HIDE DEF R
<1>3. PICK m \in T : \A k \in T : ~(<<k, m>> \in R)
  BY <1>1, WFMin, Zenon
<1>4. ASSUME NEW k \in T PROVE m <= k
  <2>1. m \in Nat /\ k \in Nat
    OBVIOUS
  <2>2. ~(k < m)
    BY <1>2, <1>3, <2>1
  <2> QED
    BY <2>1, <2>2
<1> QED
  BY <1>3, <1>4

-----------------------------------------------------------------------------
\* The variables keep their types, an index on the stack is one of a filled
\* slot, and the parameter whose loader is about to run was not loaded before
\* (util.c:1306-1372).
THEOREM TypeCorrect == Spec => [](in \in Inputs /\ TypeOK)
<1>1. Init => TypeInv
  BY InputFacts, StackMaxPositive DEF Init, TypeInv, TypeOK, Final
<1>2. TypeInv /\ [Next]_vars => TypeInv'
  <2> SUFFICES ASSUME TypeInv, [Next]_vars
               PROVE  TypeInv'
    OBVIOUS
  <2> USE DEF TypeInv, TypeOK, Final
  <2>0. /\ in.block \in Seq(Params \cup {Null, Unknown})
        /\ DOMAIN in.block = 1..Len(in.block) /\ Len(in.block) \in Nat
        /\ \A i \in DOMAIN in.block : in.block[i] \in Params \cup {Null, Unknown}
    BY InputFacts
  <2>1. CASE ForEnd
    BY <2>0, <2>1 DEF ForEnd
  <2>2. CASE ForNull
    BY <2>0, <2>2 DEF ForNull
  <2>3. CASE ForParam
    BY <2>0, <2>3 DEF ForParam
  <2>4. CASE TopUnknown
    BY <2>0, <2>4 DEF TopUnknown
  <2>5. CASE TopLoaded
    BY <2>0, <2>5 DEF TopLoaded
  <2>6. CASE TopFree
    BY <2>0, <2>6 DEF TopFree
  <2>7. CASE TopSearch
    BY <2>0, <2>7 DEF TopSearch, StopsAt
  <2>8. CASE Push
    <3>1. c \in DOMAIN in.block /\ in.block[c] # Null /\ Len(stack) < StackMax
          /\ stack' = Append(stack, c) /\ in' = in
      BY <2>8 DEF Push
    <3>2. stack' \in Seq(DOMAIN in.block) /\ Len(stack') <= StackMax
      BY <3>1, StackMaxPositive
    <3>3. \A i \in DOMAIN stack' : in.block[stack'[i]] # Null
      BY <3>1
    <3> QED
      BY <2>0, <2>8, <3>2, <3>3 DEF Push
  <2>9. CASE PushFull
    BY <2>0, <2>9 DEF PushFull
  <2>10. CASE Load
    <3>1. loaded' \subseteq Params /\ pnum' \in Params \cup {NoParam} /\ in' = in
      BY <2>10 DEF Load
    <3>2. log' \in Seq([loader : Params, value : Params \cup {Null, Unknown}])
      BY <2>0, <2>10 DEF Load
    <3>3. CASE stack = <<>>
      BY <2>0, <2>10, <3>1, <3>2, <3>3 DEF Load
    <3>4. CASE stack # <<>>
      <4>1. Len(stack) \in DOMAIN stack /\ stack[Len(stack)] \in DOMAIN in.block
        BY <3>4
      <4>2. stack' = SubSeq(stack, 1, Len(stack) - 1) /\ c' = stack[Len(stack)] /\ pc' = "top"
        BY <2>10, <3>4 DEF Load
      <4>3. PICK h \in Nat : Len(stack) = h + 1
        <5>1. Len(stack) - 1 \in Nat /\ Len(stack) = (Len(stack) - 1) + 1
          BY <4>1
        <5> QED
          BY <5>1
      <4>4. /\ stack' \in Seq(DOMAIN in.block) /\ Len(stack') = h
            /\ \A i \in 1..h : stack'[i] = stack[i]
        <5>1. stack' = SubSeq(stack, 1, h)
          BY <4>2, <4>3
        <5> QED
          BY <4>3, <5>1, FrontOf
      <4>6. /\ Len(stack') <= StackMax
            /\ \A i \in DOMAIN stack' : in.block[stack'[i]] # Null
        BY <4>3, <4>4, StackMaxPositive
      <4>5. c' \in DOMAIN in.block /\ in.block[c'] # Null
        BY <4>1, <4>2
      <4> QED
        <5>1. c' \in Nat \ {0} /\ c' \in DOMAIN in.block
          BY <2>0, <4>5
        <5> QED
          BY <3>1, <3>2, <4>2, <4>4, <4>5, <4>6, <5>1
    <3> QED
      BY <3>3, <3>4
  <2>11. CASE LoadDies
    BY <2>0, <2>11 DEF LoadDies
  <2>12. CASE Check
    BY <2>0, <2>12 DEF Check
  <2>13. CASE UNCHANGED vars
    BY <2>13 DEF vars
  <2> QED
    BY <2>1, <2>2, <2>3, <2>4, <2>5, <2>6, <2>7, <2>8, <2>9, <2>10, <2>11,
       <2>12, <2>13 DEF Next
<1> QED
  BY <1>1, <1>2, PTL DEF Spec, TypeInv

-----------------------------------------------------------------------------
(* The order of the loads.  Only Load changes the log and the bit vector.  *)
LEMMA LoadStep ==
    ASSUME TypeInv, Next
    PROVE  \/ log' = log /\ loaded' = loaded /\ in' = in
           \/ Load
BY DEF Next, ForEnd, ForNull, ForParam, TopUnknown, TopLoaded, TopFree, TopSearch,
       Push, PushFull, LoadDies, Check

OrderInv == TypeInv /\ LoadedOnce /\ DepsLoadedFirst

LEMMA OrderStep ==
    ASSUME OrderInv, TypeInv', [Next]_vars
    PROVE  LoadedOnce' /\ DepsLoadedFirst'
<1>1. CASE log' = log /\ loaded' = loaded /\ in' = in
  BY <1>1 DEF OrderInv, LoadedOnce, DepsLoadedFirst
<1>2. CASE Load
  <2> DEFINE h == Len(log)
             new == [loader |-> pnum, value |-> in.block[c]]
  <2>1. /\ log' = Append(log, new) /\ loaded' = loaded \cup {pnum} /\ in' = in
        /\ pnum \in Params \ loaded /\ AllMet(in.deps[pnum], loaded)
    BY <1>2 DEF Load, OrderInv, TypeInv, TypeOK
  <2>2. new \in [loader : Params, value : Params \cup {Null, Unknown}]
    BY <2>1, InputFacts, <1>2 DEF OrderInv, TypeInv, TypeOK, Load
  <2> HIDE DEF new
  <2>3. /\ h \in Nat /\ DOMAIN log = 1..h /\ DOMAIN log' = 1..(h + 1)
        /\ \A i \in 1..h : log'[i] = log[i]
        /\ log'[h + 1] = new
    BY <2>1, <2>2 DEF OrderInv, TypeInv, TypeOK
  <2>4. new.loader = pnum
    BY DEF new
  <2>5. loaded = {log[i].loader : i \in 1..h}
    BY <2>3 DEF OrderInv, LoadedOnce
  <2>6. LoadedOnce'
    <3>1. loaded' = {log'[i].loader : i \in 1..(h + 1)}
      <4>1. 1..(h + 1) = (1..h) \cup {h + 1}
        BY <2>3
      <4>2. {log'[i].loader : i \in 1..h} = {log[i].loader : i \in 1..h}
        BY <2>3
      <4>3. {log'[i].loader : i \in 1..(h + 1)} = {log'[i].loader : i \in 1..h} \cup {pnum}
        BY <2>3, <2>4, <4>1
      <4> QED
        BY <2>1, <2>5, <4>2, <4>3
    <3>2. \A i \in 1..h : log[i].loader # pnum
      BY <2>1, <2>5
    <3>3. \A i, j \in 1..(h + 1) : log'[i].loader = log'[j].loader => i = j
      BY <2>3, <2>4, <3>2 DEF OrderInv, LoadedOnce
    <3> QED
      BY <2>3, <3>1, <3>3 DEF LoadedOnce
  <2>7. DepsLoadedFirst'
    <3> SUFFICES ASSUME NEW i \in DOMAIN log', NEW k \in DOMAIN in'.deps[log'[i].loader]
                 PROVE  \E j \in 1..(i - 1) : log'[j].loader = in'.deps[log'[i].loader][k]
      BY DEF DepsLoadedFirst
    <3>0. i \in 1..(h + 1) /\ in' = in
      BY <2>1, <2>3
    <3>1. CASE i \in 1..h
      <4>1. PICK j \in 1..(i - 1) : log[j].loader = in.deps[log[i].loader][k]
        BY <2>3, <3>0, <3>1 DEF OrderInv, DepsLoadedFirst
      <4> QED
        BY <2>3, <3>0, <3>1, <4>1
    <3>2. CASE i = h + 1
      <4>1. in.deps[pnum][k] \in loaded
        BY <2>1, <2>3, <2>4, <3>0, <3>2 DEF AllMet
      <4>2. PICK j \in 1..h : log[j].loader = in.deps[pnum][k]
        BY <2>5, <4>1
      <4> QED
        BY <2>3, <2>4, <3>0, <3>2, <4>2
    <3> QED
      BY <2>3, <3>0, <3>1, <3>2
  <2> QED
    BY <2>6, <2>7
<1>3. CASE UNCHANGED vars
  BY <1>1, <1>3 DEF vars
<1> QED
  BY <1>1, <1>2, <1>3, LoadStep DEF OrderInv

\* No loader is called twice, whatever the order of the block (util.c:1315).
THEOREM LoadsOnce == Spec => []LoadedOnce
<1>1. Init => LoadedOnce /\ DepsLoadedFirst
  BY DEF Init, LoadedOnce, DepsLoadedFirst
<1>2. TypeInv /\ TypeInv' /\ LoadedOnce /\ DepsLoadedFirst /\ [Next]_vars
        => (LoadedOnce /\ DepsLoadedFirst)'
  BY OrderStep DEF OrderInv
<1>3. Spec => []TypeInv
  BY TypeCorrect DEF TypeInv
<1> QED
  BY <1>1, <1>2, <1>3, PTL DEF Spec

\* A loader runs after those of everything its DEPEND lines name, though the
\* loop jumps about in the block (util.c:1319-1341).
THEOREM LoadsAfterDeps == Spec => []DepsLoadedFirst
<1>1. Init => LoadedOnce /\ DepsLoadedFirst
  BY DEF Init, LoadedOnce, DepsLoadedFirst
<1>2. TypeInv /\ TypeInv' /\ LoadedOnce /\ DepsLoadedFirst /\ [Next]_vars
        => (LoadedOnce /\ DepsLoadedFirst)'
  BY OrderStep DEF OrderInv
<1>3. Spec => []TypeInv
  BY TypeCorrect DEF TypeInv
<1> QED
  BY <1>1, <1>2, <1>3, PTL DEF Spec

\* The three together, for blocks, dependencies and stacks of any size.
THEOREM LoadsOnceAfterDeps == Spec => []OnceAfterDeps
<1>1. TypeOK /\ LoadedOnce /\ DepsLoadedFirst => OnceAfterDeps
  BY DEF OnceAfterDeps
<1> QED
  BY <1>1, TypeCorrect, LoadsOnce, LoadsAfterDeps, PTL

-----------------------------------------------------------------------------
(* A block in that order.  At most one index is ever pushed, and then the  *)
(* parameter it waits for is the very next one.                            *)
InOrder == Known /\ NextDoor

\* What is loaded when the loop is at c: everything before c; c as well, when
\* it was loaded for the one before; or c's one dependency, just after it.
Fresh == loaded = Before(c)

Ahead == c \in DOMAIN in.block /\ loaded = Before(c + 1)

Back ==
    /\ c \in DOMAIN in.block /\ c + 1 \in DOMAIN in.block
    /\ in.block[c] \in Params /\ in.block[c + 1] \in Params
    /\ loaded = Before(c) \cup {in.block[c + 1]}
    /\ AllMet(in.deps[in.block[c]], loaded)

\* The parameter before c is on the stack and waits for the one at c.
Waits(s) ==
    /\ stack = <<s>> /\ c = s + 1 /\ c \in DOMAIN in.block
    /\ in.block[s] \in Params /\ in.block[c] \in Params
    /\ needed = in.block[c]
    /\ loaded = Before(s)
    /\ AllMet(in.deps[in.block[c]], loaded)
    /\ AllMet(in.deps[in.block[s]], loaded \cup {in.block[c]})

Waiting == \E s \in DOMAIN in.block : Waits(s)

InOrderInv ==
    InOrder =>
        /\ OwnValues
        /\ pc \notin {"abort", "crash"}
        /\ pc = "for" => \/ stack = <<>> /\ c \in 1..(Len(in.block) + 1) /\ (Fresh \/ Ahead)
                         \/ Waiting
        /\ pc = "top" => \/ stack = <<>> /\ (Fresh \/ Ahead \/ Back)
                         \/ Waiting
        /\ pc = "found" => /\ pnum = in.block[c]
                           /\ \/ stack = <<>> /\ (Fresh \/ Back)
                              \/ Waiting
        /\ pc \in {"check", "done"} => Complete

\* The names before the next index; the name at an index is not before it.
LEMMA BeforeNext ==
    ASSUME in \in Inputs, NEW i \in DOMAIN in.block
    PROVE  /\ Before(i + 1) = Before(i) \cup ({in.block[i]} \cap Params)
           /\ in.block[i] \notin Before(i)
           /\ i + 1 \in DOMAIN in.block /\ in.block[i] \in Params => in.block[i] # in.block[i + 1]
<1>1. DOMAIN in.block = 1..Len(in.block) /\ Len(in.block) \in Nat
  BY InputFacts
<1>2. 1..(i + 1 - 1) = (1..(i - 1)) \cup {i}
  BY <1>1
<1>3. Before(i + 1) = Before(i) \cup ({in.block[i]} \cap Params)
  BY <1>2 DEF Before
<1>4. in.block[i] \notin Before(i)
  <2> SUFFICES ASSUME NEW j \in 1..(i - 1), in.block[j] = in.block[i], in.block[i] \in Params
               PROVE  FALSE
    BY DEF Before
  <2>1. j \in DOMAIN in.block /\ j # i
    BY <1>1
  <2> QED
    BY <2>1, InputFacts
<1>5. i + 1 # i
  BY <1>1
<1> QED
  BY <1>3, <1>4, <1>5, InputFacts

\* What one waits for is the very next: the facts Push needs.
LEMMA WaitsForNext ==
    ASSUME in \in Inputs, InOrder, NEW i \in DOMAIN in.block, in.block[i] \in Params,
           ~AllMet(in.deps[in.block[i]], Before(i))
    PROVE  /\ i + 1 \in DOMAIN in.block
           /\ in.block[i + 1] = FirstUnmet(in.deps[in.block[i]], Before(i))
           /\ in.block[i + 1] \in Params
           /\ AllMet(in.deps[in.block[i + 1]], Before(i))
           /\ AllMet(in.deps[in.block[i]], Before(i) \cup {in.block[i + 1]})
BY DEF InOrder, NextDoor

\* The search from the front of the block stops where the name is.
LEMMA SearchFinds ==
    ASSUME in \in Inputs, NEW i \in DOMAIN in.block, in.block[i] \in Params
    PROVE  StopsAt(in.block, in.block[i]) = {i}
<1>0. DOMAIN in.block = 1..Len(in.block) /\ Len(in.block) \in Nat
  BY InputFacts
<1>1. in.block[i] # Null
  BY NamesDiffer
<1>2. ASSUME NEW j \in DOMAIN in.block, j < i
      PROVE  in.block[j] \notin {in.block[i], Null}
  BY <1>0, <1>1, <1>2, InputFacts
<1>3. i \in StopsAt(in.block, in.block[i])
  BY <1>0, <1>2 DEF StopsAt
<1>4. ASSUME NEW j \in StopsAt(in.block, in.block[i])
      PROVE  j = i
  <2>1. j \in DOMAIN in.block /\ in.block[j] \in {in.block[i], Null}
        /\ \A k \in 1..(j - 1) : in.block[k] \notin {in.block[i], Null}
    BY DEF StopsAt
  <2>2. ~(i < j)
    BY <1>0, <2>1
  <2>3. ~(j < i)
    BY <1>2, <2>1
  <2> QED
    BY <1>0, <2>1, <2>2, <2>3
<1> QED
  BY <1>3, <1>4

LEMMA InOrderStep ==
    ASSUME TypeInv, InOrderInv, [Next]_vars
    PROVE  InOrderInv'
<1> SUFFICES ASSUME InOrder'
             PROVE  InOrderInv'
  BY DEF InOrderInv
<1>0. in' = in /\ in \in Inputs
  BY DEF TypeInv, Next, vars, ForEnd, ForNull, ForParam, TopUnknown, TopLoaded, TopFree,
         TopSearch, Push, PushFull, Load, LoadDies, Check
<1>1. InOrder
  <2>1. Known
    BY <1>0 DEF InOrder, Known
  <2>2. NextDoor
    <3> SUFFICES ASSUME NEW i \in DOMAIN in.block, in.block[i] \in Params,
                        ~AllMet(in.deps[in.block[i]], Before(i))
                 PROVE  /\ i + 1 \in DOMAIN in.block
                        /\ in.block[i + 1] = FirstUnmet(in.deps[in.block[i]], Before(i))
                        /\ in.block[i + 1] \in Params
                        /\ AllMet(in.deps[in.block[i + 1]], Before(i))
                        /\ AllMet(in.deps[in.block[i]], Before(i) \cup {in.block[i + 1]})
      BY DEF NextDoor
    <3>1. Before(i)' = Before(i)
      BY <1>0 DEF Before
    <3>2. NextDoor' /\ i \in DOMAIN in'.block /\ in'.block[i] \in Params
          /\ ~AllMet(in'.deps[in'.block[i]], Before(i)')
      BY <1>0, <3>1 DEF InOrder
    <3> QED
      BY <1>0, <3>1, <3>2 DEF NextDoor
  <2> QED
    BY <2>1, <2>2 DEF InOrder
<1>2. /\ DOMAIN in.block = 1..Len(in.block) /\ Len(in.block) \in Nat
      /\ \A i \in DOMAIN in.block : in.block[i] \in Params \cup {Null}
  BY <1>0, <1>1, InputFacts DEF InOrder, Known
<1>3. \A i : Before(i)' = Before(i)
  BY <1>0 DEF Before
<1>4. CASE ForEnd
  <2>1. /\ pc = "for" /\ c > Len(in.block) /\ pc' = "check"
        /\ UNCHANGED <<in, c, pnum, needed, stack, loaded, log, missing>>
    BY <1>4 DEF ForEnd
  <2>2. ~Waiting
    BY <1>2, <2>1 DEF Waiting, Waits
  <2>3. c = Len(in.block) + 1 /\ Fresh
    BY <1>1, <1>2, <2>1, <2>2 DEF InOrderInv, Ahead
  <2>4. Complete'
    BY <1>3, <2>1, <2>3 DEF Complete, Fresh
  <2> QED
    BY <1>1, <2>1, <2>4 DEF InOrderInv, OwnValues
<1>5. CASE ForNull
  <2>1. /\ pc = "for" /\ pc' = "for" /\ c \in DOMAIN in.block /\ in.block[c] = Null /\ c' = c + 1
        /\ UNCHANGED <<in, pc, pnum, needed, stack, loaded, log, missing>>
    BY <1>2, <1>5 DEF ForNull, TypeInv, TypeOK
  <2>2. in.block[c] \notin Params
    BY <2>1, NamesDiffer
  <2>3. stack = <<>> /\ Before(c + 1) = Before(c) /\ loaded = Before(c)
    <3>1. Before(c + 1) = Before(c)
      BY <1>0, <2>1, <2>2, BeforeNext
    <3>2. ~Waiting
      BY <2>2 DEF Waiting, Waits
    <3> QED
      BY <1>1, <2>1, <3>1, <3>2 DEF InOrderInv, Fresh, Ahead
  <2>4. Fresh' /\ stack' = <<>> /\ c' \in 1..(Len(in'.block) + 1)
    BY <1>0, <1>2, <1>3, <2>1, <2>3 DEF Fresh
  <2> QED
    BY <1>1, <2>1, <2>4 DEF InOrderInv, OwnValues
<1>6. CASE ForParam
  <2>1. /\ pc = "for" /\ pc' = "top"
        /\ UNCHANGED <<in, c, pnum, needed, stack, loaded, log, missing>>
    BY <1>6 DEF ForParam
  <2>2. (Fresh' <=> Fresh) /\ (Ahead' <=> Ahead) /\ (Waiting' <=> Waiting)
    BY <1>3, <2>1 DEF Fresh, Ahead, Waiting, Waits, AllMet
  <2> QED
    BY <1>1, <2>1, <2>2 DEF InOrderInv, OwnValues
<1>7. CASE TopUnknown
  BY <1>1, <1>2, <1>7, NamesDiffer DEF TopUnknown, TypeInv, TypeOK, InOrder, Known
<1>8. CASE TopLoaded
  <2>1. /\ pc = "top" /\ in.block[c] \in loaded /\ pc' = "for" /\ c' = c + 1
        /\ UNCHANGED <<in, needed, stack, loaded, log, missing>>
        /\ c \in DOMAIN in.block /\ loaded \subseteq Params
    BY <1>8 DEF TopLoaded, TypeInv, TypeOK
  <2>2. in.block[c] \notin Before(c)
    BY <1>0, <2>1, BeforeNext
  <2>3. ~Waiting
    <3> SUFFICES ASSUME NEW s \in DOMAIN in.block, Waits(s)
                 PROVE  FALSE
      BY DEF Waiting
    <3>1. in.block[c] \in Before(s) /\ c = s + 1
      BY <2>1 DEF Waits
    <3>2. Before(c) = Before(s) \cup ({in.block[s]} \cap Params)
      BY <1>0, <3>1, BeforeNext
    <3> QED
      BY <2>2, <3>1, <3>2
  <2>4. stack = <<>> /\ ~Fresh /\ ~Back
    BY <1>0, <1>1, <2>1, <2>2, <2>3, BeforeNext DEF InOrderInv, Fresh, Back
  <2>5. Ahead
    BY <1>1, <2>1, <2>3, <2>4 DEF InOrderInv
  <2>6. Fresh' /\ stack' = <<>> /\ c' \in 1..(Len(in'.block) + 1)
    BY <1>0, <1>2, <1>3, <2>1, <2>4, <2>5 DEF Fresh, Ahead
  <2> QED
    BY <1>1, <2>1, <2>6 DEF InOrderInv, OwnValues
<1>9. CASE TopFree
  <2>1. /\ pc = "top" /\ pc' = "found" /\ pnum' = in.block[c] /\ stack = <<>>
        /\ in.block[c] \in Params \ loaded
        /\ UNCHANGED <<in, c, needed, stack, loaded, log, missing>>
    BY <1>9 DEF TopFree
  <2>2. ~Waiting
    BY <2>1 DEF Waiting, Waits
  <2>3. ~Ahead
    BY <1>0, <2>1, BeforeNext DEF Ahead
  <2>4. Fresh \/ Back
    BY <1>1, <2>1, <2>2, <2>3 DEF InOrderInv
  <2>5. (Fresh' <=> Fresh) /\ (Back' <=> Back)
    BY <1>3, <2>1 DEF Fresh, Back, AllMet
  <2> QED
    BY <1>1, <2>1, <2>4, <2>5 DEF InOrderInv, OwnValues
<1>10. CASE TopSearch
  <2>1. /\ pc = "top" /\ pnum' = in.block[c] /\ stack # <<>>
        /\ UNCHANGED <<in, needed, stack, loaded, log, missing>>
    BY <1>10 DEF TopSearch
  <2>2. PICK s \in DOMAIN in.block : Waits(s)
    BY <1>1, <2>1 DEF InOrderInv, Waiting
  <2>3. c \in DOMAIN in.block /\ needed = in.block[c] /\ in.block[c] \in Params
    BY <2>2 DEF Waits
  <2>4. StopsAt(in.block, needed) = {c}
    BY <1>0, <2>3, SearchFinds
  <2>5. c' = c /\ pc' = "found"
    BY <1>10, <2>3, <2>4, NamesDiffer DEF TopSearch
  <2>6. Waits(s)'
    BY <1>3, <2>1, <2>2, <2>5 DEF Waits, AllMet
  <2>7. Waiting'
    BY <2>1, <2>6 DEF Waiting
  <2> QED
    BY <1>1, <2>1, <2>5, <2>7 DEF InOrderInv, OwnValues
<1>11. ASSUME pc = "found"
       PROVE  /\ c \in DOMAIN in.block /\ pnum = in.block[c] /\ pnum \in Params \ loaded
              /\ \/ stack = <<>> /\ (Fresh \/ Back)
                 \/ Waiting
              /\ Waiting \/ Back => AllMet(in.deps[pnum], loaded)
  BY <1>1, <1>11 DEF InOrderInv, TypeInv, TypeOK, Waiting, Waits, Back
<1>12. CASE Push
  <2>1. /\ pc = "found" /\ ~AllMet(in.deps[pnum], loaded)
        /\ stack' = Append(stack, c) /\ needed' = FirstUnmet(in.deps[pnum], loaded)
        /\ pc' = "for" /\ c' = c + 1
        /\ UNCHANGED <<in, pnum, loaded, log, missing>>
    BY <1>12 DEF Push
  <2>2. /\ stack = <<>> /\ Fresh /\ c \in DOMAIN in.block
        /\ pnum = in.block[c] /\ pnum \in Params
    BY <1>11, <2>1
  <2>3. /\ c + 1 \in DOMAIN in.block
        /\ in.block[c + 1] = FirstUnmet(in.deps[in.block[c]], Before(c))
        /\ in.block[c + 1] \in Params
        /\ AllMet(in.deps[in.block[c + 1]], Before(c))
        /\ AllMet(in.deps[in.block[c]], Before(c) \cup {in.block[c + 1]})
    BY <1>0, <1>1, <2>1, <2>2, WaitsForNext DEF Fresh
  <2>4. PICK s \in DOMAIN in.block : s = c
    BY <2>2
  <2>5. stack' = <<s>> /\ c' = s + 1 /\ needed' = in.block[s + 1] /\ loaded' = Before(s)
    BY <2>1, <2>2, <2>3, <2>4 DEF Fresh
  <2>6. Waits(s)'
    BY <1>0, <1>3, <2>2, <2>3, <2>4, <2>5 DEF Waits, AllMet
  <2>7. Waiting'
    BY <1>0, <2>4, <2>6 DEF Waiting
  <2> QED
    BY <1>1, <2>1, <2>7 DEF InOrderInv, OwnValues
<1>13. CASE PushFull
  <2>1. pc = "found" /\ ~AllMet(in.deps[pnum], loaded) /\ Len(stack) >= StackMax
    BY <1>13 DEF PushFull
  <2>2. Len(stack) # 0
    BY <2>1, StackMaxPositive
  <2> QED
    BY <1>11, <2>1, <2>2
<1>14. CASE Load
  <2>1. /\ pc = "found"
        /\ log' = Append(log, [loader |-> pnum, value |-> in.block[c]])
        /\ loaded' = loaded \cup {pnum} /\ in' = in
    BY <1>14 DEF Load
  <2>2. OwnValues'
    <3>1. pnum = in.block[c] /\ OwnValues /\ log \in Seq([loader : Params, value : Params \cup {Null, Unknown}])
      BY <1>1, <1>11, <2>1 DEF InOrderInv, TypeInv, TypeOK
    <3>2. [loader |-> pnum, value |-> in.block[c]] \in [loader : Params, value : Params \cup {Null, Unknown}]
      BY <1>11, <2>1, <3>1
    <3> QED
      BY <2>1, <3>1, <3>2 DEF OwnValues
  <2>3. CASE stack = <<>>
    <3>1. pc' = "for" /\ c' = c + 1 /\ stack' = <<>>
      BY <1>14, <2>3 DEF Load
    <3>2. c \in DOMAIN in.block /\ pnum = in.block[c] /\ pnum \in Params /\ (Fresh \/ Back)
      BY <1>11, <2>1, <2>3 DEF Waiting, Waits
    <3>3. Before(c + 1) = Before(c) \cup {pnum}
      BY <1>0, <3>2, BeforeNext
    <3>4. CASE Fresh
      <4>1. Fresh'
        BY <1>3, <2>1, <3>1, <3>3, <3>4 DEF Fresh
      <4> QED
        BY <1>0, <1>1, <1>2, <2>2, <3>1, <3>2, <4>1 DEF InOrderInv
    <3>5. CASE Back
      <4>1. /\ c + 1 \in DOMAIN in.block /\ in.block[c + 1] \in Params
            /\ loaded = Before(c) \cup {in.block[c + 1]}
        BY <3>5 DEF Back
      <4>2. Before(c + 1 + 1) = Before(c + 1) \cup {in.block[c + 1]}
        BY <1>0, <4>1, BeforeNext
      <4>3. Ahead'
        BY <1>0, <1>3, <2>1, <3>1, <3>3, <4>1, <4>2 DEF Ahead
      <4> QED
        BY <1>0, <1>1, <1>2, <2>2, <3>1, <3>2, <4>3 DEF InOrderInv
    <3> QED
      BY <3>2, <3>4, <3>5
  <2>4. CASE stack # <<>>
    <3>1. PICK s \in DOMAIN in.block : Waits(s)
      BY <1>11, <2>1, <2>4 DEF Waiting
    <3>2. /\ stack = <<s>> /\ c = s + 1 /\ c \in DOMAIN in.block /\ pnum = in.block[c]
          /\ in.block[s] \in Params /\ in.block[c] \in Params /\ loaded = Before(s)
          /\ AllMet(in.deps[in.block[s]], loaded \cup {in.block[c]})
      BY <1>11, <2>1, <3>1 DEF Waits
    <3>3. pc' = "top" /\ c' = s /\ stack' = <<>>
      BY <1>14, <2>4, <3>2 DEF Load
    <3>4. Back'
      BY <1>0, <1>3, <2>1, <3>2, <3>3 DEF Back, AllMet
    <3> QED
      BY <1>1, <2>2, <3>3, <3>4 DEF InOrderInv
  <2> QED
    BY <2>3, <2>4
<1>15. CASE LoadDies
  BY <1>11, <1>15 DEF LoadDies
<1>16. CASE Check
  <2>1. /\ pc = "check" /\ pc' = "done"
        /\ UNCHANGED <<in, c, pnum, needed, stack, loaded, log>>
    BY <1>16 DEF Check
  <2>2. Complete' <=> Complete
    BY <1>3, <2>1 DEF Complete
  <2> QED
    BY <1>1, <2>1, <2>2 DEF InOrderInv, OwnValues
<1>17. CASE UNCHANGED vars
  <2>1. /\ UNCHANGED <<in, pc, c, pnum, needed, stack, loaded, log>>
    BY <1>17 DEF vars
  <2>2. /\ (Fresh' <=> Fresh) /\ (Ahead' <=> Ahead) /\ (Back' <=> Back)
        /\ (Waiting' <=> Waiting) /\ (Complete' <=> Complete)
    BY <1>3, <2>1 DEF Fresh, Ahead, Back, Waiting, Waits, Complete, AllMet
  <2> QED
    BY <1>1, <2>1, <2>2 DEF InOrderInv, OwnValues
<1> QED
  BY <1>4, <1>5, <1>6, <1>7, <1>8, <1>9, <1>10, <1>12, <1>13, <1>14, <1>15, <1>16,
     <1>17 DEF Next

\* In a block in which each parameter comes after what it waits for, or just
\* before the one thing it lacks, every parameter reaches its own loader with
\* its own value and the loop ends normally, however long the block is
\* (util.c:1306-1372).
THEOREM LoadsInOrder == Spec => []LoadsNextDoor
<1>1. Init => InOrderInv
  <2> SUFFICES ASSUME Init, InOrder
               PROVE  InOrderInv
    BY DEF InOrderInv
  <2>1. Before(1) = {}
    BY DEF Before
  <2>2. Fresh /\ 1 \in 1..(Len(in.block) + 1)
    BY <2>1, InputFacts DEF Init, Fresh
  <2> QED
    BY <2>2 DEF Init, InOrderInv, OwnValues
<1>2. TypeInv /\ InOrderInv /\ [Next]_vars => InOrderInv'
  BY InOrderStep
<1>3. InOrderInv => LoadsNextDoor
  BY DEF InOrderInv, LoadsNextDoor, InOrder
<1>4. Spec => []TypeInv
  BY TypeCorrect DEF TypeInv
<1> QED
  BY <1>1, <1>2, <1>3, <1>4, PTL DEF Spec

-----------------------------------------------------------------------------
(***************************************************************************)
(* Files                                                                   *)
(*                                                                         *)
(* The current directory is that of the file, and what is pushed belongs   *)
(* together: each depends on the other, as the name popped has the         *)
(* directory popped because they were pushed while the one was the         *)
(* directory of the other.  The places kept are places in the files, the   *)
(* stack of directories is as high as that of buffers unless a load gave   *)
(* up, and what such a load left is what the next begins with: an          *)
(* invariant has to follow it through the tokens of that load.             *)
(***************************************************************************)

IsSeq(s) == \E S : s \in Seq(S)

DirsInv ==
    /\ IsSeq(input_files) /\ IsSeq(paths) /\ IsSeq(things)
    /\ Len(input_files) <= Len(paths)
    /\ CwdOfFile
    /\ StacksMatch

LEMMA PushOne ==
    ASSUME NEW r, NEW z, IsSeq(r)
    PROVE  /\ IsSeq(Append(r, z)) /\ Len(Append(r, z)) = Len(r) + 1 /\ Len(r) \in Nat
           /\ \A i \in 1..Len(r) : Append(r, z)[i] = r[i]
           /\ Append(r, z)[Len(r) + 1] = z
<1>1. PICK S : r \in Seq(S)
  BY DEF IsSeq
<1>2. r \in Seq(S \cup {z})
  BY <1>1
<1>3. Append(r, z) \in Seq(S \cup {z})
  BY <1>2
<1> QED
  BY <1>2, <1>3 DEF IsSeq

\* The part of a stack that goes with the other keeps its place from the top
\* when both grow.
LEMMA PushBoth ==
    ASSUME NEW s, NEW t, IsSeq(s), IsSeq(t), NEW x, NEW y, Len(s) <= Len(t)
    PROVE  /\ IsSeq(Append(s, x)) /\ IsSeq(Append(t, y))
           /\ Len(Append(s, x)) = Len(s) + 1 /\ Len(Append(t, y)) = Len(t) + 1
           /\ Len(s) \in Nat /\ Len(t) \in Nat
           /\ \A i \in 1..Len(s) : Append(s, x)[i] = s[i]
           /\ \A i \in 1..Len(t) : Append(t, y)[i] = t[i]
           /\ Append(s, x)[Len(s) + 1] = x
           /\ Append(t, y)[Len(t) + 1] = y
BY PushOne

\* And when both shrink.
LEMMA PopBoth ==
    ASSUME NEW s, IsSeq(s), s # <<>>
    PROVE  /\ IsSeq(Front(s)) /\ Len(s) \in Nat \ {0}
           /\ Len(Front(s)) = Len(s) - 1
           /\ \A i \in 1..(Len(s) - 1) : Front(s)[i] = s[i]
           /\ Last(s) = s[Len(s)]
<1>1. PICK S : s \in Seq(S)
  BY DEF IsSeq
<1>2. Len(s) \in Nat /\ Len(s) # 0
  BY <1>1
<1>3. Len(s) - 1 \in Nat /\ Front(s) = [i \in 1..(Len(s) - 1) |-> s[i]]
  BY <1>1, <1>2 DEF Front
<1>4. \A i \in 1..(Len(s) - 1) : s[i] \in S
  BY <1>1, <1>2
<1>5. Front(s) \in Seq(S)
  BY <1>3, <1>4
<1>6. Len(Front(s)) = Len(s) - 1
  BY <1>3
<1> QED
  BY <1>2, <1>3, <1>5, <1>6 DEF IsSeq, Last

\* Pushing the file being read and its directory keeps the stacks together.
LEMMA PushKeeps ==
    ASSUME DirsInv, phase = "reading", Pushed, things' = things
    PROVE  /\ IsSeq(input_files') /\ IsSeq(paths')
           /\ Len(input_files') <= Len(paths')
           /\ StacksMatch'
<1>1. PICK b : /\ input_files' = Append(input_files, [b |-> b, filename |-> lp_filename])
               /\ paths' = Append(paths, lp_cwd)
  BY DEF Pushed
<1> DEFINE f == [b |-> b, filename |-> lp_filename]
<1>2. /\ IsSeq(input_files') /\ IsSeq(paths')
      /\ Len(input_files') = Len(input_files) + 1 /\ Len(paths') = Len(paths) + 1
      /\ Len(input_files) \in Nat /\ Len(paths) \in Nat
      /\ \A i \in 1..Len(input_files) : input_files'[i] = input_files[i]
      /\ \A i \in 1..Len(paths) : paths'[i] = paths[i]
      /\ input_files'[Len(input_files) + 1] = f
      /\ paths'[Len(paths) + 1] = lp_cwd
  <2>1. IsSeq(input_files) /\ IsSeq(paths) /\ Len(input_files) <= Len(paths)
    BY DEF DirsInv
  <2>2. input_files' = Append(input_files, f) /\ paths' = Append(paths, lp_cwd)
    BY <1>1
  <2> HIDE DEF f
  <2> QED
    BY <2>1, <2>2, PushBoth
<1>3. ASSUME Stays(things), NEW i \in 1..Len(input_files')
      PROVE  paths'[Len(paths') - Len(input_files') + i] = Dir(input_files'[i].filename)
  <2>1. Len(paths') - Len(input_files') = Len(paths) - Len(input_files)
    BY <1>2
  <2>2. CASE i \in 1..Len(input_files)
    <3>1. Len(paths) - Len(input_files) + i \in 1..Len(paths)
      BY <2>2, <1>2 DEF DirsInv
    <3>2. paths[Len(paths) - Len(input_files) + i] = Dir(input_files[i].filename)
      BY <1>3, <2>2 DEF DirsInv, StacksMatch
    <3> QED
      BY <2>1, <2>2, <3>1, <3>2, <1>2
  <2>3. CASE i = Len(input_files) + 1
    <3>1. Len(paths) - Len(input_files) + i = Len(paths) + 1
      BY <2>3, <1>2
    <3>2. input_files'[i].filename = lp_filename
      BY <2>3, <1>2
    <3>3. lp_cwd = Dir(lp_filename)
      BY <1>3 DEF DirsInv, CwdOfFile
    <3> QED
      BY <2>1, <3>1, <3>2, <3>3, <1>2
  <2> QED
    BY <2>2, <2>3, <1>2
<1> QED
  BY <1>2, <1>3 DEF DirsInv, StacksMatch, Stays

\* One more thing read: the ones before it moved lp_cwd if it has been moved,
\* unless the last did.
LEMMA OneMoreStays ==
    ASSUME IsSeq(things), NEW t, things' = Append(things, t)
    PROVE  IsSeq(things') /\ (Stays(things)' => Stays(things) /\ ~t.away)
<1>1. /\ IsSeq(things') /\ Len(things') = Len(things) + 1 /\ Len(things) \in Nat
      /\ \A i \in 1..Len(things) : things'[i] = things[i]
      /\ things'[Len(things) + 1] = t
  BY PushOne
<1>2. DOMAIN things = 1..Len(things) /\ DOMAIN things' = 1..(Len(things) + 1)
  BY <1>1 DEF IsSeq
<1>3. ASSUME Stays(things') PROVE Stays(things) /\ ~t.away
  <2>1. ASSUME NEW i \in DOMAIN things PROVE ~things[i].away
    <3>1. i \in DOMAIN things' /\ things'[i] = things[i]
      BY <1>1, <1>2
    <3> QED
      BY <1>3, <3>1 DEF Stays
  <2>2. Len(things) + 1 \in DOMAIN things'
    BY <1>1, <1>2
  <2> QED
    BY <1>1, <1>3, <2>1, <2>2 DEF Stays
<1> QED
  BY <1>1, <1>3

LEMMA DirsInit == LpInit => DirsInv
<1> SUFFICES ASSUME LpInit PROVE DirsInv
  OBVIOUS
<1>1. input_files = <<>> /\ paths = <<>> /\ things = <<>> /\ phase = "idle"
  BY DEF LpInit
<1>2. <<>> \in Seq({})
  OBVIOUS
<1> QED
  BY <1>1, <1>2 DEF DirsInv, IsSeq, CwdOfFile, StacksMatch

LEMMA DirsStep == DirsInv /\ [LpNext]_lpvars => DirsInv'
<1> SUFFICES ASSUME DirsInv, [LpNext]_lpvars PROVE DirsInv'
  OBVIOUS
<1> DEFINE Same == UNCHANGED <<input_files, paths>>
<1>same. ASSUME Same, things' = things, CwdOfFile' PROVE DirsInv'
  BY <1>same DEF DirsInv, StacksMatch, IsSeq, Stays
<1>more. ASSUME Same, phase = "reading", NEW t, things' = Append(things, t),
                ~t.away => \/ lp_cwd' = Dir(lp_filename) /\ lp_filename' = lp_filename
                           \/ lp_cwd' = lp_cwd /\ lp_filename' = lp_filename
         PROVE  DirsInv'
  <2>1. IsSeq(things') /\ (Stays(things)' => Stays(things) /\ ~t.away)
    BY <1>more, OneMoreStays DEF DirsInv
  <2>2. CwdOfFile'
    BY <1>more, <2>1 DEF DirsInv, CwdOfFile, Dir
  <2>3. StacksMatch'
    BY <1>more, <2>1 DEF DirsInv, StacksMatch
  <2> QED
    BY <1>more, <2>1, <2>2, <2>3 DEF DirsInv, IsSeq
<1>1. CASE LoadFile
  <2>1. input_files' = <<>> /\ paths' = paths /\ things' = <<>> /\ CwdOfFile'
    BY <1>1 DEF LoadFile, CwdOfFile
  <2>2. <<>> \in Seq({})
    OBVIOUS
  <2>3. Len(paths) \in Nat
    BY DEF DirsInv, IsSeq
  <2> QED
    BY <2>1, <2>2, <2>3 DEF DirsInv, IsSeq, StacksMatch
<1>2. CASE Refill \/ Source
  BY <1>2, <1>same DEF Refill, Source, Met, DirsInv, CwdOfFile, Stays
<1>9. CASE Item \/ Block
  <2> DEFINE t == Thing(lp_filename, FALSE)
  <2>1. /\ Same /\ phase = "reading" /\ things' = Append(things, t)
        /\ lp_cwd' = lp_cwd /\ lp_filename' = lp_filename
    BY <1>9 DEF Item, Block, Met
  <2> HIDE DEF t
  <2> QED
    BY <1>more, <2>1
<1>10. CASE Instantiate
  <2>1. PICK s \in SpecsOf(NextToken.x) :
           /\ lp_cwd' = Dir(s.source_file)
           /\ things' = Append(things, Thing(lp_filename, Dir(s.source_file) # Dir(lp_filename)))
    BY <1>10 DEF Instantiate, MovesTo
  <2> DEFINE t == Thing(lp_filename, Dir(s.source_file) # Dir(lp_filename))
  <2>2. Same /\ phase = "reading" /\ lp_filename' = lp_filename
    BY <1>10 DEF Instantiate, Met
  <2>3. t.away = (Dir(s.source_file) # Dir(lp_filename))
    BY DEF Thing
  <2>4. ~t.away => lp_cwd' = Dir(lp_filename)
    BY <2>1, <2>3
  <2>5. things' = Append(things, t)
    BY <2>1
  <2> HIDE DEF t
  <2> QED
    BY <1>more, <2>2, <2>4, <2>5
<1>3. CASE Bad \/ Eof
  BY <1>3, <1>same DEF Bad, Eof, Return, CwdOfFile
<1>4. CASE Overflow \/ Refused
  BY <1>4, <1>same DEF Overflow, Refused, CwdOfFile
<1>5. CASE Include
  <2>1. Pushed /\ phase = "reading" /\ things' = things
    BY <1>5 DEF Include
  <2>2. CwdOfFile'
    BY <1>5 DEF Include, CwdOfFile
  <2> QED
    BY <2>1, <2>2, PushKeeps DEF DirsInv, IsSeq
<1>6. CASE NotFound \/ TakenForName
  <2>1. Pushed /\ phase = "reading" /\ phase' = "idle" /\ things' = things
    BY <1>6 DEF NotFound, TakenForName, Return
  <2> QED
    BY <2>1, PushKeeps DEF DirsInv, CwdOfFile, IsSeq
<1>7. CASE EofOfIncluded
  <2>1. /\ input_files # <<>> /\ input_files' = Front(input_files)
        /\ paths' = Front(paths)
        /\ lp_cwd' = Last(paths) /\ lp_filename' = Last(input_files).filename
        /\ things' = things
    BY <1>7 DEF EofOfIncluded
  <2>2. IsSeq(input_files) /\ IsSeq(paths) /\ Len(input_files) <= Len(paths)
    BY DEF DirsInv
  <2>3. Len(input_files) \in Nat \ {0} /\ Len(paths) \in Nat
    BY <2>1, <2>2, PopBoth DEF IsSeq
  <2>4. paths # <<>>
    BY <2>2, <2>3
  <2>5. /\ IsSeq(input_files') /\ IsSeq(paths')
        /\ Len(input_files') = Len(input_files) - 1 /\ Len(paths') = Len(paths) - 1
        /\ \A i \in 1..(Len(input_files) - 1) : input_files'[i] = input_files[i]
        /\ \A i \in 1..(Len(paths) - 1) : paths'[i] = paths[i]
        /\ lp_cwd' = paths[Len(paths)]
        /\ lp_filename' = input_files[Len(input_files)].filename
    BY <2>1, <2>2, <2>4, PopBoth
  <2>6. ASSUME Stays(things) PROVE lp_cwd' = Dir(lp_filename)'
    <3>1. Len(paths) - Len(input_files) + Len(input_files) = Len(paths)
      BY <2>3
    <3>2. paths[Len(paths) - Len(input_files) + Len(input_files)]
             = Dir(input_files[Len(input_files)].filename)
      BY <2>3, <2>6 DEF DirsInv, StacksMatch
    <3> QED
      BY <2>5, <3>1, <3>2 DEF Dir
  <2>7. ASSUME Stays(things), NEW i \in 1..Len(input_files')
        PROVE  paths'[Len(paths') - Len(input_files') + i] = Dir(input_files'[i].filename)
    <3>1. Len(paths') - Len(input_files') = Len(paths) - Len(input_files)
      BY <2>3, <2>5
    <3>2. i \in 1..Len(input_files) /\ i \in 1..(Len(input_files) - 1)
      BY <2>3, <2>5
    <3>3. Len(paths) - Len(input_files) + i \in 1..(Len(paths) - 1)
      BY <2>2, <2>3, <3>2
    <3>4. paths[Len(paths) - Len(input_files) + i] = Dir(input_files[i].filename)
      BY <2>7, <3>2 DEF DirsInv, StacksMatch
    <3> QED
      BY <2>5, <3>1, <3>2, <3>3, <3>4
  <2> QED
    BY <2>1, <2>2, <2>3, <2>5, <2>6, <2>7 DEF DirsInv, CwdOfFile, StacksMatch, Stays, IsSeq
<1>8. CASE UNCHANGED lpvars
  BY <1>8, <1>same DEF lpvars, DirsInv, CwdOfFile, Stays
<1> QED
  BY <1>1, <1>2, <1>3, <1>4, <1>5, <1>6, <1>7, <1>8, <1>9, <1>10 DEF LpNext

-----------------------------------------------------------------------------
(* What the scanner holds, and what a load leaves behind.                  *)
BufOK(b) ==
    /\ b \in [file : DOMAIN setup.files, pos : Nat]
    /\ b.pos \in 1..(Len(setup.files[b.file]) + 1)

SeqsInv ==
    /\ setup \in Setups
    /\ IsSeq(env) /\ IsSeq(lp_searchpath) /\ IsSeq(things) /\ IsSeq(results)
    /\ Len(env) <= Len(setup.path)

CountsInv ==
    /\ phase \in {"idle", "reading", "crash"}
    /\ start \in {"INITIAL", "src"}
    /\ n \in 0..Len(setup.loads) /\ Len(results) <= n
    /\ phase # "idle" => Len(results) < n

BuffersInv ==
    /\ buf # None => BufOK(buf)
    /\ \A i \in 1..Len(input_files) : BufOK(input_files[i].b)
    /\ infile.fresh => infile.file \in DOMAIN setup.files

AllEnded == \A i \in DOMAIN results : results[i].how = "ended"

\* What leaves directories on the stack is a load that gave up, and only that.
DepthInv ==
    /\ Len(paths) <= MaxInputFiles
    /\ PathsLeak
    /\ AllEnded /\ phase = "idle" => input_files = <<>>

\* Something to load was left over; the scanner waits for a name it will not see.
Unread(r)  == r.how = "bad" /\ r.rest # <<>> /\ r.rest[1].k = "item"
Starved(r) == r.how = "lost" /\ (r.rest = <<>> \/ r.rest[1].k # "name")

\* What a load that ended like that has left for the one that reads on.
GoesOn(r) ==
    /\ phase = "idle" => start = "INITIAL" /\ Left = r.rest
    /\ phase = "reading" =>
          \/ things = <<>> /\ start = "INITIAL" /\ Left = r.rest
          \/ things # <<>> /\ things[1].x = r.rest[1].x

WaitsOn(r) ==
    /\ phase = "idle" => start = "src" /\ Left = r.rest
    /\ phase = "reading" /\ setup.files[setup.loads[n]] # <<>> =>
          /\ start = "src" /\ things = <<>>
          /\ \/ Left = <<>> /\ infile = [file |-> setup.loads[n], fresh |-> TRUE]
             \/ Left # <<>> /\ Left[1].k # "name"

LeftFor(r) == (Unread(r) => GoesOn(r)) /\ (Starved(r) => WaitsOn(r))

CarryInv ==
    /\ LeftoverRead /\ NothingAfterLost
    /\ results # <<>> => LeftFor(results[Len(results)])

ScannerInv == DirsInv /\ SeqsInv /\ CountsInv /\ BuffersInv /\ DepthInv /\ CarryInv

-----------------------------------------------------------------------------
(* Places in a file.                                                       *)

\* Reading on from a place in a file.
LEMMA SuffixOf ==
    ASSUME NEW S, NEW s \in Seq(S), NEW p \in 1..(Len(s) + 1)
    PROVE  /\ SubSeq(s, p, Len(s)) \in Seq(S)
           /\ Len(SubSeq(s, p, Len(s))) = Len(s) + 1 - p
           /\ \A k \in 1..(Len(s) + 1 - p) : SubSeq(s, p, Len(s))[k] = s[p + k - 1]
           /\ p <= Len(s) => Tail(SubSeq(s, p, Len(s))) = SubSeq(s, p + 1, Len(s))
<1> DEFINE m == Len(s)
           t == SubSeq(s, p, m)
<1>1. m \in Nat /\ p \in Nat \ {0} /\ DOMAIN s = 1..m
  OBVIOUS
<1>2. t = [k \in 1..(m - p + 1) |-> s[k + p - 1]]
  BY <1>1
<1>3. \A k \in 1..(m - p + 1) : s[k + p - 1] \in S
  BY <1>1
<1>4. m - p + 1 \in Nat
  BY <1>1
<1>5. t \in Seq(S) /\ Len(t) = m + 1 - p
  BY <1>2, <1>3, <1>4
<1>6. \A k \in 1..(m + 1 - p) : t[k] = s[p + k - 1]
  BY <1>1, <1>2
<1>7. ASSUME p <= m
      PROVE  Tail(t) = SubSeq(s, p + 1, m)
  <2> DEFINE u == SubSeq(s, p + 1, m)
  <2>1. u = [k \in 1..(m - p) |-> s[k + p]]
    BY <1>1, <1>7
  <2>2. Tail(t) = [k \in 1..(m - p) |-> t[k + 1]]
    <3>1. Tail(t) = [k \in 1..(Len(t) - 1) |-> t[k + 1]] /\ Len(t) - 1 = m - p
      BY <1>1, <1>5, <1>7
    <3> HIDE DEF t
    <3> QED
      BY <3>1
  <2>3. \A k \in 1..(m - p) : t[k + 1] = s[k + p]
    BY <1>1, <1>6
  <2> QED
    BY <2>1, <2>2, <2>3
<1> QED
  BY <1>5, <1>6, <1>7

LEMMA SetupIs ==
    ASSUME setup \in Setups
    PROVE  /\ MaxInputFiles \in Nat
           /\ setup.loads \in Seq(DOMAIN setup.files)
           /\ IsSeq(setup.path)
           /\ None \notin DOMAIN setup.files
           /\ None \notin [file : DOMAIN setup.files, pos : Nat]
           /\ \A f \in DOMAIN setup.files :
                 /\ IsSeq(setup.files[f])
                 /\ \A i \in DOMAIN setup.files[f] :
                       setup.files[f][i].k = "name" =>
                          i > 1 /\ setup.files[f][i - 1].k = "source"
BY SetupsType DEF IsSeq

LEMMA BufIsThere ==
    ASSUME setup \in Setups, NEW b, BufOK(b)
    PROVE  b # None
BY SetupIs DEF BufOK

\* The start of a file, where no name stands.
LEMMA FileStart ==
    ASSUME setup \in Setups, NEW f \in DOMAIN setup.files
    PROVE  LET b == [file |-> f, pos |-> 1]
               t == SubSeq(setup.files[f], 1, Len(setup.files[f]))
           IN  /\ BufOK(b)
               /\ setup.files[f] # <<>> => t # <<>> /\ t[1].k # "name"
<1> DEFINE s == setup.files[f]
           t == SubSeq(s, 1, Len(s))
<1>1. PICK S : s \in Seq(S)
  BY SetupIs DEF IsSeq
<1>2. \A i \in DOMAIN s : s[i].k = "name" => i > 1
  BY SetupIs
<1>3. Len(s) \in Nat /\ DOMAIN s = 1..Len(s)
  BY <1>1
<1>4. BufOK([file |-> f, pos |-> 1])
  BY <1>3 DEF BufOK
<1>5. ASSUME s # <<>> PROVE t # <<>> /\ t[1].k # "name"
  <2>1. Len(s) >= 1 /\ 1 \in DOMAIN s
    BY <1>1, <1>3, <1>5
  <2>2. t = s
    BY <1>1, <1>3
  <2> QED
    BY <1>2, <1>5, <2>1, <2>2
<1> QED
  BY <1>4, <1>5

\* The next token, and what is left when it has been taken.
LEMMA TakesToken ==
    ASSUME setup \in Setups, buf # None => BufOK(buf), Left # <<>>
    PROVE  LET b == [buf EXCEPT !.pos = @ + 1]
               s == setup.files[buf.file]
           IN  /\ buf # None /\ BufOK(buf)
               /\ IsSeq(Left) /\ NextToken = Left[1]
               /\ BufOK(b) /\ b # None
               /\ SubSeq(setup.files[b.file], b.pos, Len(setup.files[b.file])) = Tail(Left)
<1> DEFINE b == [buf EXCEPT !.pos = @ + 1]
           s == setup.files[buf.file]
<1>1. buf # None /\ BufOK(buf)
  BY DEF Left
<1>2. buf.file \in DOMAIN setup.files /\ buf.pos \in 1..(Len(s) + 1)
  BY <1>1 DEF BufOK
<1>3. PICK S : s \in Seq(S)
  BY <1>2, SetupIs DEF IsSeq
<1>4. Left = SubSeq(s, buf.pos, Len(s))
  BY <1>1 DEF Left
<1>5. Len(s) \in Nat
  BY <1>3
<1>6. /\ Left \in Seq(S) /\ Len(Left) = Len(s) + 1 - buf.pos
      /\ buf.pos <= Len(s) => Tail(Left) = SubSeq(s, buf.pos + 1, Len(s))
  <2> HIDE DEF s
  <2> QED
    BY <1>2, <1>3, <1>4, SuffixOf
<1>7. buf.pos <= Len(s)
  BY <1>2, <1>5, <1>6
<1>8. b = [file |-> buf.file, pos |-> buf.pos + 1]
  BY <1>1 DEF BufOK
<1>9. BufOK(b)
  BY <1>2, <1>5, <1>7, <1>8 DEF BufOK
<1>10. b # None
  BY <1>9, BufIsThere
<1>11. NextToken = Left[1]
  BY <1>6 DEF NextToken
<1> QED
  BY <1>1, <1>6, <1>7, <1>8, <1>9, <1>10, <1>11 DEF IsSeq

-----------------------------------------------------------------------------
(* What is searched for and found is there.                                *)

LEMMA FoundIsThere ==
    ASSUME NEW cwd, NEW sp, IsSeq(sp), NEW p, lp_search_path(cwd, sp, p) # None
    PROVE  Exists(lp_search_path(cwd, sp, p))
<1> DEFINE cs == Candidates(cwd, sp, p)
           there == {i \in DOMAIN cs : cs[i] # None /\ Exists(cs[i])}
           least(i) == \A j \in there : i <= j
<1>1. PICK S : sp \in Seq(S)
  BY DEF IsSeq
<1>2. DOMAIN cs \subseteq Nat
  <2> DEFINE q == [i \in DOMAIN sp |-> IF sp[i] = None THEN None ELSE Under(sp[i], p)]
             Q == {Under(cwd, p)} \cup {q[i] : i \in DOMAIN sp}
  <2>1. q \in Seq(Q)
    <3>1. DOMAIN sp = 1..Len(sp) /\ Len(sp) \in Nat
      BY <1>1
    <3>2. \A i \in DOMAIN sp : q[i] \in Q
      OBVIOUS
    <3>3. q = [i \in 1..Len(sp) |-> q[i]]
      BY <3>1
    <3> HIDE DEF q, Q
    <3> QED
      BY <3>1, <3>2, <3>3
  <2>2. <<Under(cwd, p)>> \in Seq(Q)
    OBVIOUS
  <2>3. cs = <<Under(cwd, p)>> \o q
    BY DEF Candidates
  <2> HIDE DEF q, Q, cs
  <2>4. cs \in Seq(Q)
    BY <2>1, <2>2, <2>3
  <2> QED
    BY <2>4
<1>3. /\ there # {}
      /\ lp_search_path(cwd, sp, p) = cs[CHOOSE i \in there : least(i)]
  BY DEF lp_search_path
<1>4. there \subseteq Nat
  BY <1>2
<1>5. \E m \in there : least(m)
  <2> HIDE DEF there
  <2> QED
    BY <1>3, <1>4, LeastOf
<1>6. (CHOOSE i \in there : least(i)) \in there
  <2> HIDE DEF there, least
  <2> QED
    BY <1>5
<1> QED
  BY <1>3, <1>6

-----------------------------------------------------------------------------
(* The steps.                                                              *)

LEMMA EmptySeq == \A s : s = <<>> => \E S : s \in Seq(S)
<1> TAKE s
<1> HAVE s = <<>>
<1> WITNESS {}
<1> QED
  OBVIOUS

LEMMA SeqsInit == LpInit => SeqsInv
<1> SUFFICES ASSUME LpInit PROVE SeqsInv
  OBVIOUS
<1>1. /\ setup \in Setups /\ env = setup.path
      /\ lp_searchpath = <<>> /\ things = <<>> /\ results = <<>>
  BY DEF LpInit
<1>2. IsSeq(setup.path)
  BY <1>1, SetupIs
<1>3. Len(setup.path) <= Len(setup.path)
  BY <1>2 DEF IsSeq
<1> QED
  <2>1. IsSeq(lp_searchpath) /\ IsSeq(things) /\ IsSeq(results)
    BY <1>1, EmptySeq DEF IsSeq
  <2> QED
    BY <1>1, <1>2, <1>3, <2>1 DEF SeqsInv

LEMMA SeqsStep == SeqsInv /\ [LpNext]_lpvars => SeqsInv'
<1> SUFFICES ASSUME SeqsInv, [LpNext]_lpvars PROVE SeqsInv'
  OBVIOUS
<1>setup. setup' = setup /\ setup \in Setups
  BY DEF LpNext, lpvars, SeqsInv, LoadFile, Refill, Item, Block, Instantiate, Refused, Bad,
         Source, Include, NotFound, TakenForName, Overflow, EofOfIncluded, Eof
<1>ret. ASSUME NEW how, NEW rest, Return(how, rest) PROVE IsSeq(results')
  BY <1>ret, PushOne DEF Return, SeqsInv
<1>1. CASE LoadFile
  <2>1. IsSeq(things')
    <3>1. things' = <<>>
      BY <1>1 DEF LoadFile
    <3> QED
      BY <3>1, EmptySeq DEF IsSeq
  <2>2. PICK S : env \in Seq(S)
    BY DEF SeqsInv, IsSeq
  <2>3. IsSeq(env') /\ Len(env') <= Len(env) /\ Len(env) \in Nat
    <3>1. env' = FirstOf(env)
      BY <1>1 DEF LoadFile
    <3>2. CASE env = <<>>
      <4>1. env' = env
        BY <3>1, <3>2 DEF FirstOf
      <4>2. IsSeq(env) /\ Len(env) \in Nat
        BY <2>2 DEF SeqsInv
      <4> QED
        BY <4>1, <4>2
    <3>3. CASE env # <<>>
      <4>1. env' = <<Head(env)>> /\ Len(env) >= 1 /\ Head(env) \in S
        BY <2>2, <3>1, <3>3 DEF FirstOf
      <4>2. env' \in Seq(S)
        BY <4>1
      <4> QED
        BY <2>2, <4>1, <4>2 DEF IsSeq
    <3> QED
      BY <3>2, <3>3
  <2>4. IsSeq(lp_searchpath')
    <3>1. CASE env = <<>>
      BY <1>1, <3>1 DEF LoadFile, SeqsInv
    <3>2. CASE env # <<>>
      <4> DEFINE q == [i \in DOMAIN lp_searchpath |-> None]
      <4>1. lp_searchpath' = q \o env
        BY <1>1, <3>2 DEF LoadFile
      <4>2. q \in Seq({None})
        <5>1. PICK T : lp_searchpath \in Seq(T)
          BY DEF SeqsInv, IsSeq
        <5>2. DOMAIN lp_searchpath = 1..Len(lp_searchpath) /\ Len(lp_searchpath) \in Nat
          BY <5>1
        <5> QED
          BY <5>2
      <4>3. q \in Seq(S \cup {None}) /\ env \in Seq(S \cup {None})
        BY <2>2, <4>2
      <4> HIDE DEF q
      <4>4. q \o env \in Seq(S \cup {None})
        BY <4>3
      <4> QED
        BY <4>1, <4>4 DEF IsSeq
    <3> QED
      BY <3>1, <3>2
  <2>5. results' = results
    BY <1>1 DEF LoadFile
  <2>6. Len(env') <= Len(setup.path)
    <3>1. Len(setup.path) \in Nat /\ Len(env') \in Nat
      BY <1>setup, <2>3, SetupIs DEF IsSeq
    <3> QED
      BY <2>3, <3>1 DEF SeqsInv
  <2> QED
    BY <1>setup, <2>1, <2>3, <2>4, <2>5, <2>6 DEF SeqsInv
<1>2. CASE Item \/ Block \/ Instantiate
  <2>1. IsSeq(things')
    <3>1. PICK t : things' = Append(things, t)
      BY <1>2 DEF Item, Block, Instantiate
    <3> QED
      BY <3>1, PushOne DEF SeqsInv
  <2> QED
    BY <1>2, <1>setup, <2>1 DEF Item, Block, Instantiate, SeqsInv
<1>3. CASE Bad \/ NotFound \/ TakenForName \/ Eof
  <2>1. IsSeq(results')
    BY <1>3, <1>ret DEF Bad, NotFound, TakenForName, Eof
  <2> QED
    BY <1>3, <1>setup, <2>1 DEF Bad, NotFound, TakenForName, Eof, SeqsInv
<1>4. CASE \/ Refill \/ Refused \/ Source \/ Include \/ Overflow \/ EofOfIncluded
           \/ UNCHANGED lpvars
  BY <1>4, <1>setup DEF Refill, Refused, Source, Include, Overflow, EofOfIncluded, lpvars, SeqsInv
<1> QED
  BY <1>1, <1>2, <1>3, <1>4 DEF LpNext

LEMMA CountsInit == LpInit => CountsInv
<1> SUFFICES ASSUME LpInit PROVE CountsInv
  OBVIOUS
<1>1. setup.loads \in Seq(DOMAIN setup.files)
  BY SetupIs DEF LpInit
<1>2. Len(setup.loads) \in Nat
  BY <1>1
<1> QED
  BY <1>2 DEF LpInit, CountsInv

\* A return is of the load that is being read.
LEMMA ReturnAdds ==
    ASSUME SeqsInv, NEW how, NEW rest, Return(how, rest)
    PROVE  /\ Len(results) \in Nat /\ Len(results') = Len(results) + 1
           /\ DOMAIN results = 1..Len(results) /\ DOMAIN results' = 1..(Len(results) + 1)
           /\ \A i \in 1..Len(results) : results'[i] = results[i]
           /\ results'[Len(results) + 1] = [asked |-> setup.loads[n], how |-> how,
                                            things |-> things, rest |-> rest]
<1> DEFINE r == [asked |-> setup.loads[n], how |-> how, things |-> things, rest |-> rest]
<1>1. IsSeq(results) /\ results' = Append(results, r)
  BY DEF SeqsInv, Return
<1> HIDE DEF r
<1>2. /\ IsSeq(results') /\ Len(results') = Len(results) + 1 /\ Len(results) \in Nat
      /\ \A i \in 1..Len(results) : results'[i] = results[i]
      /\ results'[Len(results) + 1] = r
  BY <1>1, PushOne
<1>3. DOMAIN results = 1..Len(results) /\ DOMAIN results' = 1..Len(results')
  BY <1>1, <1>2 DEF IsSeq
<1> QED
  BY <1>2, <1>3 DEF r

LEMMA CountsStep == SeqsInv /\ CountsInv /\ [LpNext]_lpvars => CountsInv'
<1> SUFFICES ASSUME SeqsInv, CountsInv, [LpNext]_lpvars PROVE CountsInv'
  OBVIOUS
<1>setup. setup' = setup
  BY DEF LpNext, lpvars, LoadFile, Refill, Item, Block, Instantiate, Refused, Bad, Source,
         Include, NotFound, TakenForName, Overflow, EofOfIncluded, Eof
<1>nat. Len(setup.loads) \in Nat /\ Len(results) \in Nat
  <2>1. setup.loads \in Seq(DOMAIN setup.files) /\ IsSeq(results)
    BY SetupIs DEF SeqsInv
  <2> QED
    BY <2>1 DEF IsSeq
<1>ret. ASSUME NEW how, NEW rest, Return(how, rest), phase = "reading", n' = n,
               start' \in {"INITIAL", "src"}
        PROVE  CountsInv'
  <2>1. Len(results') = Len(results) + 1 /\ phase' = "idle"
    BY <1>ret, ReturnAdds DEF Return
  <2> QED
    BY <1>ret, <1>setup, <1>nat, <2>1 DEF CountsInv
<1>1. CASE LoadFile
  BY <1>1, <1>setup, <1>nat DEF LoadFile, CountsInv
<1>2. CASE Bad \/ NotFound \/ TakenForName \/ Eof
  BY <1>2, <1>ret DEF Bad, Met, NotFound, TakenForName, Eof, CountsInv
<1>3. CASE \/ Refill \/ Item \/ Block \/ Instantiate \/ Refused \/ Source \/ Include
           \/ Overflow \/ EofOfIncluded \/ UNCHANGED lpvars
  BY <1>3, <1>setup DEF Refill, Item, Block, Instantiate, Refused, Met, Source, Include,
                        Overflow, EofOfIncluded, lpvars, CountsInv
<1> QED
  BY <1>1, <1>2, <1>3 DEF LpNext

LEMMA BuffersInit == LpInit => BuffersInv
BY DEF LpInit, BuffersInv

LEMMA SetupStays == [LpNext]_lpvars => setup' = setup
BY DEF LpNext, lpvars, LoadFile, Refill, Item, Block, Instantiate, Refused, Bad, Source,
       Include, NotFound, TakenForName, Overflow, EofOfIncluded, Eof

LEMMA BuffersStep == DirsInv /\ SeqsInv /\ CountsInv /\ BuffersInv /\ [LpNext]_lpvars => BuffersInv'
<1> SUFFICES ASSUME DirsInv, SeqsInv, CountsInv, BuffersInv, [LpNext]_lpvars
             PROVE  BuffersInv'
  OBVIOUS
<1>setup. setup' = setup /\ setup \in Setups
  BY SetupStays DEF SeqsInv
<1>ok. ASSUME NEW b PROVE BufOK(b)' <=> BufOK(b')
  BY <1>setup DEF BufOK
<1>adv. ASSUME Left # <<>>, Advance PROVE buf' # None /\ BufOK(buf')
  <2>1. /\ BufOK([buf EXCEPT !.pos = @ + 1]) /\ [buf EXCEPT !.pos = @ + 1] # None
    BY <1>setup, <1>adv, TakesToken DEF BuffersInv
  <2> QED
    BY <1>adv, <2>1 DEF Advance
<1>push. ASSUME Left # <<>>, Pushed
         PROVE  \A i \in 1..Len(input_files') : BufOK(input_files'[i].b)
  <2> DEFINE f == [b |-> [buf EXCEPT !.pos = @ + 1], filename |-> lp_filename]
  <2>1. BufOK(f.b)
    BY <1>setup, <1>push, TakesToken DEF BuffersInv
  <2>2. input_files' = Append(input_files, f) /\ IsSeq(input_files)
    BY <1>push DEF Pushed, DirsInv
  <2> HIDE DEF f
  <2>3. /\ Len(input_files') = Len(input_files) + 1 /\ Len(input_files) \in Nat
        /\ \A i \in 1..Len(input_files) : input_files'[i] = input_files[i]
        /\ input_files'[Len(input_files) + 1] = f
    BY <2>2, PushOne
  <2>4. \A i \in 1..Len(input_files) : BufOK(input_files[i].b)
    BY DEF BuffersInv
  <2>5. ASSUME NEW i \in 1..Len(input_files') PROVE BufOK(input_files'[i].b)
    <3>1. CASE i = Len(input_files) + 1
      BY <2>1, <2>3, <3>1
    <3>2. CASE i \in 1..Len(input_files)
      BY <2>3, <2>4, <3>2
    <3> QED
      BY <2>3, <3>1, <3>2
  <2> QED
    BY <2>5
<1>parts. ASSUME buf' # None => BufOK(buf'),
                 \A i \in 1..Len(input_files') : BufOK(input_files'[i].b),
                 infile'.fresh => infile'.file \in DOMAIN setup.files
          PROVE  BuffersInv'
  BY <1>setup, <1>parts DEF BuffersInv, BufOK
<1>kept. /\ buf # None => BufOK(buf)
         /\ \A i \in 1..Len(input_files) : BufOK(input_files[i].b)
         /\ infile.fresh => infile.file \in DOMAIN setup.files
  BY DEF BuffersInv
<1>1. CASE LoadFile
  <2>1. setup.loads[n + 1] \in DOMAIN setup.files
    <3>1. setup.loads \in Seq(DOMAIN setup.files) /\ n + 1 \in 1..Len(setup.loads)
      BY <1>1, <1>setup, SetupIs DEF LoadFile, CountsInv
    <3> QED
      BY <3>1
  <2>2. buf' = buf /\ input_files' = <<>> /\ infile'.file = setup.loads[n + 1]
    BY <1>1 DEF LoadFile
  <2> QED
    BY <1>parts, <1>kept, <2>1, <2>2
<1>2. CASE Refill
  <2>1. infile.file \in DOMAIN setup.files
    BY <1>2 DEF Refill, BuffersInv
  <2>2. BufOK([file |-> infile.file, pos |-> 1])
    BY <1>setup, <2>1, FileStart
  <2>3. buf' = [file |-> infile.file, pos |-> 1] /\ input_files' = input_files
    BY <1>2 DEF Refill
  <2>4. infile'.file = infile.file \/ ~infile'.fresh
    <3>1. infile' = [infile EXCEPT !.fresh = FALSE]
      BY <1>2 DEF Refill
    <3> QED
      BY <3>1
  <2> QED
    BY <1>parts, <1>kept, <2>1, <2>2, <2>3, <2>4
<1>3. CASE Item \/ Block \/ Instantiate \/ Bad \/ Source
  <2>1. Left # <<>> /\ Advance /\ input_files' = input_files /\ infile' = infile
    BY <1>3 DEF Item, Block, Instantiate, Bad, Source, Met
  <2> QED
    BY <1>parts, <1>kept, <1>adv, <2>1
<1>4. CASE Include
  <2>1. PICK f : /\ f # None
                 /\ f = lp_search_path(NewCwd(lp_cwd, NextToken.p), lp_searchpath, NextToken.p)
                 /\ buf' = [file |-> f, pos |-> 1]
                 /\ infile' = [file |-> f, fresh |-> FALSE]
    BY <1>4 DEF Include
  <2>2. f \in DOMAIN setup.files
    BY <2>1, FoundIsThere DEF SeqsInv, Exists
  <2>3. BufOK([file |-> f, pos |-> 1])
    BY <1>setup, <2>2, FileStart
  <2>4. \A i \in 1..Len(input_files') : BufOK(input_files'[i].b)
    BY <1>4, <1>push DEF Include
  <2> QED
    BY <1>parts, <2>1, <2>3, <2>4
<1>5. CASE NotFound
  BY <1>5, <1>parts, <1>kept, <1>adv, <1>push DEF NotFound
<1>6. CASE TakenForName
  <2>1. Left # <<>> /\ Pushed /\ infile' = infile /\ (Advance \/ buf' = buf)
    BY <1>6 DEF TakenForName
  <2> QED
    BY <1>parts, <1>kept, <1>adv, <1>push, <2>1
<1>7. CASE EofOfIncluded
  <2>1. /\ input_files # <<>> /\ IsSeq(input_files)
        /\ buf' = Last(input_files).b /\ input_files' = Front(input_files)
        /\ infile' = [file |-> Last(input_files).b.file, fresh |-> FALSE]
    BY <1>7 DEF EofOfIncluded, DirsInv
  <2>2. /\ Len(input_files) \in Nat \ {0} /\ Len(input_files') = Len(input_files) - 1
        /\ \A i \in 1..(Len(input_files) - 1) : input_files'[i] = input_files[i]
        /\ Last(input_files) = input_files[Len(input_files)]
    BY <2>1, PopBoth
  <2>3. BufOK(buf')
    BY <1>kept, <2>1, <2>2
  <2>4. ASSUME NEW i \in 1..Len(input_files') PROVE BufOK(input_files'[i].b)
    <3>1. i \in 1..Len(input_files) /\ i \in 1..(Len(input_files) - 1)
      BY <2>2
    <3> QED
      BY <1>kept, <2>2, <3>1
  <2> QED
    BY <1>parts, <2>1, <2>3, <2>4
<1>8. CASE Overflow \/ Refused \/ Eof \/ UNCHANGED lpvars
  BY <1>8, <1>parts, <1>kept DEF Overflow, Refused, Eof, lpvars
<1> QED
  BY <1>1, <1>2, <1>3, <1>4, <1>5, <1>6, <1>7, <1>8 DEF LpNext

LEMMA DepthInit == LpInit => DepthInv
<1> SUFFICES ASSUME LpInit PROVE DepthInv
  OBVIOUS
<1>1. paths = <<>> /\ input_files = <<>> /\ Len(paths) = 0 /\ Len(input_files) = 0
  BY DEF LpInit
<1>2. MaxInputFiles \in Nat
  BY SetupsType
<1> QED
  BY <1>1, <1>2 DEF DepthInv, PathsLeak

LEMMA DepthStep == DirsInv /\ SeqsInv /\ DepthInv /\ [LpNext]_lpvars => DepthInv'
<1> SUFFICES ASSUME DirsInv, SeqsInv, DepthInv, [LpNext]_lpvars PROVE DepthInv'
  OBVIOUS
<1>seqs. /\ IsSeq(input_files) /\ IsSeq(paths) /\ Len(input_files) <= Len(paths)
         /\ Len(input_files) \in Nat /\ Len(paths) \in Nat
         /\ Len(paths) <= MaxInputFiles /\ MaxInputFiles \in Nat
  BY SetupsType DEF DirsInv, IsSeq, DepthInv
<1>lost. ASSUME NEW how, NEW rest, Return(how, rest), how # "ended"
         PROVE  ~AllEnded' /\ phase' = "idle"
  <2>1. /\ Len(results) + 1 \in DOMAIN results'
        /\ results'[Len(results) + 1].how = how
    <3> DEFINE r == [asked |-> setup.loads[n], how |-> how, things |-> things, rest |-> rest]
    <3>1. /\ Len(results) \in Nat /\ DOMAIN results' = 1..(Len(results) + 1)
          /\ results'[Len(results) + 1] = r
      BY <1>lost, ReturnAdds
    <3>2. r.how = how
      OBVIOUS
    <3> HIDE DEF r
    <3> QED
      BY <3>1, <3>2
  <2> QED
    BY <1>lost, <2>1 DEF AllEnded, Return
<1>push. ASSUME Pushed PROVE /\ Len(paths') = Len(paths) + 1
                             /\ Len(input_files') = Len(input_files) + 1
                             /\ Len(paths') <= MaxInputFiles
  <2>1. PICK f : input_files' = Append(input_files, f)
    BY <1>push DEF Pushed
  <2>2. paths' = Append(paths, lp_cwd) /\ Len(paths) < MaxInputFiles
    BY <1>push DEF Pushed
  <2> QED
    BY <1>seqs, <2>1, <2>2, PushOne
<1>parts. ASSUME Len(paths') <= MaxInputFiles,
                 AllEnded' => \/ phase' = "crash"
                              \/ Len(paths') = Len(input_files') /\ phase' # "idle"
                              \/ Len(paths') = Len(input_files') /\ input_files' = <<>>
          PROVE  DepthInv'
  <2>1. AllEnded' /\ phase' # "crash" => Len(paths') = Len(input_files')
    BY <1>parts
  <2>2. AllEnded' /\ phase' = "idle" => input_files' = <<>>
    BY <1>parts
  <2>3. AllEnded' <=> \A i \in DOMAIN results' : results'[i].how = "ended"
    BY DEF AllEnded
  <2> HIDE DEF AllEnded
  <2>4. PathsLeak'
    BY <2>1, <2>3 DEF PathsLeak
  <2> QED
    BY <1>parts, <2>2, <2>4 DEF DepthInv
<1>leak. AllEnded => /\ phase # "crash" => Len(paths) = Len(input_files)
                     /\ phase = "idle" => input_files = <<>>
  BY DEF AllEnded, DepthInv, PathsLeak
<1>1. CASE LoadFile
  <2>1. /\ input_files' = <<>> /\ paths' = paths /\ results' = results
        /\ phase = "idle" /\ phase' = "reading"
    BY <1>1 DEF LoadFile
  <2>2. AllEnded' => AllEnded
    BY <2>1 DEF AllEnded
  <2>3. Len(input_files') = 0
    BY <2>1
  <2>4. AllEnded' => Len(paths') = Len(input_files')
    <3>1. Len(<<>>) = 0
      OBVIOUS
    <3> QED
      BY <1>leak, <2>1, <2>2, <2>3, <3>1
  <2> QED
    BY <1>parts, <1>seqs, <2>1, <2>4
<1>2. CASE Refill \/ Item \/ Block \/ Instantiate \/ Refused \/ Source \/ Overflow
  <2>1. /\ input_files' = input_files /\ paths' = paths /\ results' = results
        /\ phase = "reading" /\ phase' # "idle"
    BY <1>2 DEF Refill, Item, Block, Instantiate, Refused, Source, Overflow, Met
  <2>2. AllEnded' => AllEnded
    BY <2>1 DEF AllEnded
  <2> QED
    BY <1>parts, <1>seqs, <1>leak, <2>1, <2>2
<1>3. CASE Bad
  <2>1. paths' = paths /\ ~AllEnded'
    BY <1>3, <1>lost DEF Bad
  <2> QED
    BY <1>parts, <1>seqs, <2>1
<1>4. CASE NotFound \/ TakenForName
  <2>1. Pushed /\ ~AllEnded'
    BY <1>4, <1>lost DEF NotFound, TakenForName
  <2> QED
    BY <1>parts, <1>push, <2>1
<1>5. CASE Include
  <2>1. Pushed /\ phase = "reading" /\ phase' = phase /\ results' = results
    BY <1>5 DEF Include
  <2>2. AllEnded' => AllEnded
    BY <2>1 DEF AllEnded
  <2> QED
    BY <1>parts, <1>push, <1>leak, <2>1, <2>2
<1>6. CASE EofOfIncluded
  <2>1. /\ input_files # <<>> /\ input_files' = Front(input_files)
        /\ paths' = Front(paths) /\ phase = "reading" /\ phase' = phase /\ results' = results
    BY <1>6 DEF EofOfIncluded
  <2>2. Len(input_files) \in Nat \ {0} /\ Len(input_files') = Len(input_files) - 1
    BY <1>seqs, <2>1, PopBoth
  <2>3. paths # <<>>
    BY <1>seqs, <2>2
  <2>4. Len(paths') = Len(paths) - 1
    BY <1>seqs, <2>1, <2>3, PopBoth
  <2>5. AllEnded' => AllEnded
    BY <2>1 DEF AllEnded
  <2> QED
    BY <1>parts, <1>seqs, <1>leak, <2>1, <2>2, <2>4, <2>5
<1>7. CASE Eof
  <2>1. /\ input_files' = <<>> /\ input_files' = input_files /\ paths' = paths
        /\ phase = "reading" /\ Return("ended", <<>>)
    BY <1>7 DEF Eof
  <2>2. /\ Len(results) \in Nat
        /\ DOMAIN results = 1..Len(results) /\ DOMAIN results' = 1..(Len(results) + 1)
        /\ \A i \in 1..Len(results) : results'[i] = results[i]
    BY <2>1, ReturnAdds
  <2>3. AllEnded' => AllEnded
    BY <2>2 DEF AllEnded
  <2> QED
    BY <1>parts, <1>seqs, <1>leak, <2>1, <2>3
<1>8. CASE UNCHANGED lpvars
  BY <1>8 DEF lpvars, DepthInv, PathsLeak, AllEnded
<1> QED
  BY <1>1, <1>2, <1>3, <1>4, <1>5, <1>6, <1>7, <1>8 DEF LpNext

LEMMA CarryInit == LpInit => CarryInv
<1> SUFFICES ASSUME LpInit PROVE CarryInv
  OBVIOUS
<1>1. results = <<>> /\ Len(results) = 0
  BY DEF LpInit
<1> QED
  BY <1>1 DEF CarryInv, LeftoverRead, NothingAfterLost

\* When everything has been read but the new buffer, what is left is its rest.
LEMMA LeftAfter ==
    ASSUME SeqsInv, BuffersInv, setup' = setup, Left # <<>>, Advance
    PROVE  Left' = Tail(Left)
<1>1. LET b == [buf EXCEPT !.pos = @ + 1] IN
      /\ b # None
      /\ SubSeq(setup.files[b.file], b.pos, Len(setup.files[b.file])) = Tail(Left)
  BY TakesToken DEF SeqsInv, BuffersInv
<1>2. /\ buf' # None
      /\ SubSeq(setup.files[buf'.file], buf'.pos, Len(setup.files[buf'.file])) = Tail(Left)
  BY <1>1 DEF Advance
<1>3. Left' = IF buf' = None THEN <<>>
              ELSE SubSeq(setup'.files[buf'.file], buf'.pos, Len(setup'.files[buf'.file]))
  BY DEF Left
<1> HIDE DEF Left
<1> QED
  BY <1>2, <1>3

\* Until the load returns, what the last one left is still to be read or has been.
LEMMA GoesOnKeeps ==
    ASSUME SeqsInv, BuffersInv, NEW r, Unread(r), GoesOn(r), results' = results, [LpNext]_lpvars
    PROVE  GoesOn(r)'
<1>setup. setup' = setup
  BY SetupStays
<1>same. Left' = Left \/ buf' # buf
  BY <1>setup DEF Left
<1>rest. r.rest # <<>> /\ r.rest[1].k = "item"
  BY DEF Unread
<1>seq. IsSeq(results)
  BY DEF SeqsInv
<1>ret. ASSUME NEW how, NEW rest, Return(how, rest) PROVE FALSE
  <2>1. Len(results') = Len(results) + 1 /\ Len(results) \in Nat
    BY <1>ret, ReturnAdds
  <2> QED
    BY <2>1
<1>1. CASE LoadFile
  <2>1. phase = "idle" /\ phase' = "reading" /\ start' = start /\ buf' = buf /\ things' = <<>>
    BY <1>1 DEF LoadFile
  <2>2. start = "INITIAL" /\ Left = r.rest
    BY <2>1 DEF GoesOn
  <2> HIDE DEF Left
  <2> QED
    BY <1>same, <2>1, <2>2 DEF GoesOn
<1>2. CASE Refill \/ EofOfIncluded
  <2>1. phase = "reading" /\ phase' = phase /\ Left = <<>> /\ things' = things
    BY <1>2 DEF Refill, EofOfIncluded
  <2>2. things # <<>> /\ things[1].x = r.rest[1].x
    BY <1>rest, <2>1 DEF GoesOn
  <2> QED
    BY <2>1, <2>2 DEF GoesOn
<1>3. CASE Item
  <2> DEFINE t == Thing(lp_filename, FALSE)
  <2>1. phase = "reading" /\ phase' = phase /\ Left # <<>> /\ things' = Append(things, t)
    BY <1>3 DEF Item, Met
  <2>2. NextToken = Left[1]
    BY <2>1, TakesToken DEF SeqsInv, BuffersInv
  <2>3. t.x = NextToken.x
    BY DEF Thing
  <2> HIDE DEF t
  <2>4. PICK S : things \in Seq(S)
    BY DEF SeqsInv, IsSeq
  <2>5. /\ Len(things') = Len(things) + 1 /\ Len(things) \in Nat
        /\ \A i \in 1..Len(things) : things'[i] = things[i]
        /\ things'[Len(things) + 1] = t
    BY <2>1, PushOne DEF SeqsInv
  <2>6. things' # <<>>
    BY <2>5
  <2>7. things'[1].x = r.rest[1].x
    <3>1. CASE things = <<>>
      <4>1. Len(things) = 0 /\ Left = r.rest
        BY <2>1, <3>1 DEF GoesOn
      <4> QED
        BY <2>2, <2>3, <2>5, <4>1
    <3>2. CASE things # <<>>
      <4>1. 1 \in 1..Len(things)
        BY <2>4, <3>2
      <4> QED
        BY <2>1, <2>5, <3>2, <4>1 DEF GoesOn
    <3> QED
      BY <3>1, <3>2
  <2> QED
    BY <2>1, <2>6, <2>7 DEF GoesOn
<1>8. CASE Block \/ Instantiate
  <2>1. /\ phase = "reading" /\ phase' = phase /\ Left # <<>> /\ NextToken.k # "item"
        /\ \E t : things' = Append(things, t)
    BY <1>8 DEF Block, Instantiate, Met
  <2>2. NextToken = Left[1]
    BY <2>1, TakesToken DEF SeqsInv, BuffersInv
  <2>3. things # <<>> /\ things[1].x = r.rest[1].x
    BY <1>rest, <2>1, <2>2 DEF GoesOn
  <2>4. IsSeq(things)
    BY DEF SeqsInv
  <2>5. things' # <<>> /\ things'[1] = things[1]
    <3>1. /\ Len(things') = Len(things) + 1 /\ Len(things) \in Nat
          /\ \A i \in 1..Len(things) : things'[i] = things[i]
      BY <2>1, <2>4, PushOne
    <3>2. 1 \in 1..Len(things)
      BY <2>3, <2>4, <3>1 DEF IsSeq
    <3> QED
      BY <3>1, <3>2
  <2> QED
    BY <2>1, <2>3, <2>5 DEF GoesOn
<1>4. CASE Source \/ Include
  <2>1. /\ phase = "reading" /\ phase' = phase /\ things' = things /\ Left # <<>>
        /\ NextToken.k = "source" \/ start = "src"
    BY <1>4 DEF Source, Include, Met
  <2>2. NextToken = Left[1]
    BY <2>1, TakesToken DEF SeqsInv, BuffersInv
  <2>3. things # <<>> /\ things[1].x = r.rest[1].x
    BY <1>rest, <2>1, <2>2 DEF GoesOn
  <2> QED
    BY <2>1, <2>3 DEF GoesOn
<1>5. CASE Overflow \/ Refused
  BY <1>5 DEF Overflow, Refused, GoesOn
<1>6. CASE Bad \/ NotFound \/ TakenForName \/ Eof
  BY <1>6, <1>ret DEF Bad, NotFound, TakenForName, Eof
<1>7. CASE UNCHANGED lpvars
  BY <1>7, <1>setup DEF lpvars, GoesOn, Left
<1> QED
  BY <1>1, <1>2, <1>3, <1>4, <1>5, <1>6, <1>7, <1>8 DEF LpNext

LEMMA WaitsOnKeeps ==
    ASSUME SeqsInv, CountsInv, BuffersInv, NEW r, Starved(r), WaitsOn(r), results' = results,
           [LpNext]_lpvars
    PROVE  WaitsOn(r)'
<1>setup. setup' = setup /\ setup \in Setups
  BY SetupStays DEF SeqsInv
<1>same. Left' = Left \/ buf' # buf
  BY <1>setup DEF Left
<1>rest. r.rest = <<>> \/ r.rest[1].k # "name"
  BY DEF Starved
<1>seq. IsSeq(results)
  BY DEF SeqsInv
<1>ret. ASSUME NEW how, NEW rest, Return(how, rest) PROVE FALSE
  <2>1. Len(results') = Len(results) + 1 /\ Len(results) \in Nat
    BY <1>ret, ReturnAdds
  <2> QED
    BY <2>1
<1>1. CASE LoadFile
  <2>1. /\ phase = "idle" /\ phase' = "reading" /\ start' = start /\ buf' = buf /\ things' = <<>>
        /\ n' = n + 1 /\ infile' = [file |-> setup.loads[n + 1], fresh |-> TRUE]
    BY <1>1 DEF LoadFile
  <2>2. start = "src" /\ Left = r.rest
    BY <2>1 DEF WaitsOn
  <2> HIDE DEF Left
  <2> QED
    BY <1>setup, <1>same, <1>rest, <2>1, <2>2 DEF WaitsOn
<1>2. CASE Refill
  <2>1. /\ phase = "reading" /\ phase' = phase /\ Left = <<>> /\ things' = things /\ n' = n
        /\ start' = start /\ buf' = [file |-> infile.file, pos |-> 1]
    BY <1>2 DEF Refill
  <2>2. SUFFICES ASSUME setup.files[setup.loads[n]] # <<>> PROVE WaitsOn(r)'
    BY <1>setup, <2>1 DEF WaitsOn
  <2>3. start = "src" /\ things = <<>> /\ infile.file = setup.loads[n]
    BY <2>1, <2>2 DEF WaitsOn
  <2>4. infile.file \in DOMAIN setup.files
    BY <1>2 DEF Refill, BuffersInv
  <2> DEFINE t == SubSeq(setup.files[infile.file], 1, Len(setup.files[infile.file]))
  <2>5. /\ BufOK([file |-> infile.file, pos |-> 1])
        /\ t # <<>> /\ t[1].k # "name"
    BY <1>setup, <2>2, <2>3, <2>4, FileStart
  <2>6. buf' # None /\ buf'.file = infile.file /\ buf'.pos = 1
    BY <1>setup, <2>1, <2>5, BufIsThere
  <2>7. Left' = t
    BY <1>setup, <2>6 DEF Left
  <2> HIDE DEF t, Left
  <2> QED
    BY <2>1, <2>3, <2>5, <2>7 DEF WaitsOn
<1>3. CASE Item \/ Block \/ Instantiate \/ Source
  <2>1. phase = "reading" /\ phase' = phase /\ start = "INITIAL" /\ n' = n
    BY <1>3 DEF Item, Block, Instantiate, Source, Met
  <2>2. setup.files[setup.loads[n]] = <<>>
    BY <2>1 DEF WaitsOn
  <2> QED
    BY <1>setup, <2>1, <2>2 DEF WaitsOn
<1>4. CASE Include
  <2>1. phase = "reading" /\ phase' = phase /\ n' = n /\ Left # <<>> /\ NextToken.k = "name"
    BY <1>4 DEF Include
  <2>2. NextToken = Left[1]
    BY <2>1, TakesToken DEF SeqsInv, BuffersInv
  <2>3. setup.files[setup.loads[n]] = <<>>
    BY <2>1, <2>2 DEF WaitsOn
  <2> QED
    BY <1>setup, <2>1, <2>3 DEF WaitsOn
<1>5. CASE EofOfIncluded
  <2>1. phase = "reading" /\ phase' = phase /\ n' = n /\ Left = <<>> /\ ~infile.fresh
    BY <1>5 DEF EofOfIncluded
  <2>2. setup.files[setup.loads[n]] = <<>>
    BY <2>1 DEF WaitsOn
  <2> QED
    BY <1>setup, <2>1, <2>2 DEF WaitsOn
<1>6. CASE Overflow \/ Refused
  BY <1>6 DEF Overflow, Refused, WaitsOn
<1>7. CASE Bad \/ NotFound \/ TakenForName \/ Eof
  BY <1>7, <1>ret DEF Bad, NotFound, TakenForName, Eof
<1>8. CASE UNCHANGED lpvars
  BY <1>8, <1>setup DEF lpvars, WaitsOn, Left
<1> QED
  BY <1>1, <1>2, <1>3, <1>4, <1>5, <1>6, <1>7, <1>8 DEF LpNext

\* A return says of the load before what it was left, and leaves its own rest.
LEMMA ReturnCarries ==
    ASSUME SeqsInv, CarryInv, setup' = setup, phase = "reading",
           NEW how, NEW rest, Return(how, rest),
           \A r : Unread(r) /\ GoesOn(r) => things # <<>>,
           \A r : Starved(r) /\ WaitsOn(r) /\ setup.files[setup.loads[n]] # <<>> =>
                     how = "lost" /\ things = <<>>,
           how = "bad" => start' = "INITIAL" /\ Left' = rest,
           how = "lost" => start' = "src" /\ Left' = rest
    PROVE  CarryInv'
<1> DEFINE N == Len(results)
           r == results[N]
           e == [asked |-> setup.loads[n], how |-> how, things |-> things, rest |-> rest]
<1>1. /\ N \in Nat /\ Len(results') = N + 1
      /\ \A i \in 1..N : results'[i] = results[i]
      /\ results'[N + 1] = e
  BY ReturnAdds
<1>2. /\ e.asked = setup.loads[n] /\ e.how = how /\ e.things = things /\ e.rest = rest
  OBVIOUS
<1> HIDE DEF e
<1>3. ASSUME N >= 1 PROVE results # <<>> /\ LeftFor(r) /\ N \in 1..N
  <2>1. results # <<>>
    BY <1>1, <1>3
  <2> QED
    BY <1>1, <1>3, <2>1 DEF CarryInv
<1>4. ASSUME NEW i \in 2..Len(results')
      PROVE  /\ i - 1 \in 1..N /\ results'[i - 1] = results[i - 1]
             /\ \/ i \in 2..N /\ results'[i] = results[i]
                \/ i - 1 = N /\ N >= 1 /\ results'[i] = e
  BY <1>1
<1>5. LeftoverRead'
  <2> SUFFICES ASSUME NEW i \in 2..Len(results'),
                      results'[i - 1].how = "bad", results'[i - 1].rest # <<>>,
                      results'[i - 1].rest[1].k = "item"
               PROVE  /\ results'[i].things # <<>>
                      /\ results'[i].things[1].x = results'[i - 1].rest[1].x
    BY DEF LeftoverRead
  <2>1. CASE i \in 2..N /\ results'[i] = results[i]
    BY <1>4, <2>1 DEF CarryInv, LeftoverRead
  <2>2. CASE i - 1 = N /\ N >= 1 /\ results'[i] = e
    <3>1. Unread(r) /\ results'[i - 1] = r
      BY <1>4, <2>2 DEF Unread
    <3>2. GoesOn(r)
      BY <1>3, <2>2, <3>1 DEF LeftFor
    <3>3. things # <<>>
      BY <3>1, <3>2
    <3>4. things[1].x = r.rest[1].x
      BY <3>2, <3>3 DEF GoesOn
    <3> QED
      BY <1>2, <2>2, <3>1, <3>3, <3>4
  <2> QED
    BY <1>4, <2>1, <2>2
<1>6. NothingAfterLost'
  <2> SUFFICES ASSUME NEW i \in 2..Len(results'),
                      results'[i - 1].how = "lost",
                      results'[i - 1].rest = <<>> \/ results'[i - 1].rest[1].k # "name",
                      setup.files[results'[i].asked] # <<>>
               PROVE  results'[i].how = "lost" /\ results'[i].things = <<>>
    BY DEF NothingAfterLost
  <2>1. CASE i \in 2..N /\ results'[i] = results[i]
    BY <1>4, <2>1 DEF CarryInv, NothingAfterLost
  <2>2. CASE i - 1 = N /\ N >= 1 /\ results'[i] = e
    <3>1. Starved(r) /\ results'[i - 1] = r
      BY <1>4, <2>2 DEF Starved
    <3>2. WaitsOn(r)
      BY <1>3, <2>2, <3>1 DEF LeftFor
    <3>3. setup.files[setup.loads[n]] # <<>>
      BY <1>2, <2>2
    <3> QED
      BY <1>2, <2>2, <3>1, <3>2, <3>3
  <2> QED
    BY <1>4, <2>1, <2>2
<1>7. LeftFor(results[Len(results)])'
  <2>1. results'[Len(results')] = e /\ phase' = "idle"
    BY <1>1 DEF Return
  <2>2. Unread(e) => how = "bad"
    BY <1>2 DEF Unread
  <2>3. Starved(e) => how = "lost"
    BY <1>2 DEF Starved
  <2> DEFINE q == results'[Len(results')]
  <2>4. /\ Unread(q) => start' = "INITIAL" /\ Left' = q.rest
        /\ Starved(q) => start' = "src" /\ Left' = q.rest
    BY <1>2, <2>1, <2>2, <2>3
  <2> HIDE DEF Left
  <2> QED
    BY <2>1, <2>4 DEF LeftFor, GoesOn, WaitsOn, Unread, Starved
<1> QED
  BY <1>5, <1>6, <1>7 DEF CarryInv

LEMMA CarryStep ==
    SeqsInv /\ CountsInv /\ BuffersInv /\ CarryInv /\ [LpNext]_lpvars => CarryInv'
<1> SUFFICES ASSUME SeqsInv, CountsInv, BuffersInv, CarryInv, [LpNext]_lpvars PROVE CarryInv'
  OBVIOUS
<1>setup. setup' = setup
  BY SetupStays
<1>next. ASSUME Left # <<>> PROVE NextToken = Left[1]
  BY <1>next, TakesToken DEF SeqsInv, BuffersInv
<1>same. ASSUME results' = results PROVE CarryInv'
  <2>1. LeftoverRead' /\ NothingAfterLost'
    BY <1>setup, <1>same DEF CarryInv, LeftoverRead, NothingAfterLost
  <2>2. ASSUME results # <<>> PROVE LeftFor(results[Len(results)])'
    <3> DEFINE r == results[Len(results)]
    <3>1. LeftFor(r)
      BY <2>2 DEF CarryInv
    <3>2. Unread(r) => GoesOn(r)'
      BY <1>same, <3>1, GoesOnKeeps DEF LeftFor
    <3>3. Starved(r) => WaitsOn(r)'
      BY <1>same, <3>1, WaitsOnKeeps DEF LeftFor
    <3> QED
      BY <1>same, <3>2, <3>3 DEF LeftFor, Unread, Starved
  <2> QED
    BY <1>same, <2>1, <2>2 DEF CarryInv
<1>1. CASE Bad
  <2>1. /\ phase = "reading" /\ start = "INITIAL" /\ Left # <<>> /\ NextToken.k = "bad"
        /\ Return("bad", Tail(Left)) /\ start' = start /\ Advance
    BY <1>1 DEF Bad, Met
  <2>2. Left' = Tail(Left)
    BY <1>setup, <2>1, LeftAfter
  <2>3. \A r : Unread(r) /\ GoesOn(r) => things # <<>>
    BY <1>next, <2>1 DEF Unread, GoesOn
  <2>4. \A r : ~(Starved(r) /\ WaitsOn(r) /\ setup.files[setup.loads[n]] # <<>>)
    BY <2>1 DEF WaitsOn
  <2> HIDE DEF Left
  <2> QED
    BY <1>setup, <2>1, <2>2, <2>3, <2>4, ReturnCarries
<1>2. CASE NotFound \/ TakenForName
  <2>1. /\ phase = "reading" /\ start = "src" /\ start' = start /\ Left # <<>>
        /\ \/ Advance /\ Return("lost", Tail(Left))
           \/ buf' = buf /\ Return("lost", Left)
        /\ NextToken.k = "name" \/ TakenForName
    BY <1>2 DEF NotFound, TakenForName
  <2>2. \A r : Unread(r) /\ GoesOn(r) => things # <<>>
    BY <2>1 DEF GoesOn
  <2>3. \A r : Starved(r) /\ WaitsOn(r) /\ setup.files[setup.loads[n]] # <<>> => things = <<>>
    BY <2>1 DEF WaitsOn
  <2>4. CASE Advance /\ Return("lost", Tail(Left))
    <3>1. Left' = Tail(Left)
      BY <1>setup, <2>1, <2>4, LeftAfter
    <3> HIDE DEF Left
    <3> QED
      BY <1>setup, <2>1, <2>2, <2>3, <2>4, <3>1, ReturnCarries
  <2>5. CASE buf' = buf /\ Return("lost", Left)
    <3>1. Left' = Left
      BY <1>setup, <2>5 DEF Left
    <3> HIDE DEF Left
    <3> QED
      BY <1>setup, <2>1, <2>2, <2>3, <2>5, <3>1, ReturnCarries
  <2> QED
    BY <2>1, <2>4, <2>5
<1>3. CASE Eof
  <2>1. phase = "reading" /\ Left = <<>> /\ ~infile.fresh /\ Return("ended", <<>>)
    BY <1>3 DEF Eof
  <2>2. \A r : Unread(r) /\ GoesOn(r) => things # <<>>
    BY <2>1 DEF Unread, GoesOn
  <2>3. \A r : ~(Starved(r) /\ WaitsOn(r) /\ setup.files[setup.loads[n]] # <<>>)
    BY <2>1 DEF WaitsOn
  <2> HIDE DEF Left
  <2> QED
    BY <1>setup, <2>1, <2>2, <2>3, ReturnCarries
<1>4. CASE \/ LoadFile \/ Refill \/ Item \/ Block \/ Instantiate \/ Refused \/ Source
           \/ Include \/ Overflow \/ EofOfIncluded \/ UNCHANGED lpvars
  BY <1>4, <1>same DEF LoadFile, Refill, Item, Block, Instantiate, Refused, Source, Include,
                       Overflow, EofOfIncluded, lpvars
<1> QED
  BY <1>1, <1>2, <1>3, <1>4 DEF LpNext

-----------------------------------------------------------------------------
\* Until an instantiation in the load takes a block from a file of another
\* directory, a name in a file is looked for relative to the directory of that
\* file, at any depth and after any loads, failed ones included
\* (libparam.lex:117-201, util.c:1299-1304).
THEOREM DirectoryOfFile == LpSpec => []CwdOfFile
<1>1. DirsInv => CwdOfFile
  BY DEF DirsInv
<1> QED
  BY <1>1, DirsInit, DirsStep, PTL DEF LpSpec

\* Until then the files being read and their directories stay in step, whatever
\* earlier loads left on the second stack (libparam.lex:139, util.c:1217).
THEOREM StacksInStep == LpSpec => []StacksMatch
<1>1. DirsInv => StacksMatch
  BY DEF DirsInv
<1> QED
  BY <1>1, DirsInit, DirsStep, PTL DEF LpSpec

\* All the scanner keeps stays in step, within a load and from one to the next:
\* directories as said above, neither stack nor buffer runs over, only a load that gave up leaves
\* directories behind, and what one load does not read the next one does, or
\* waits for a name that is not there (libparam.lex:117-201, util.c:1204-1284).
THEOREM ScannerStaysInStep == LpSpec => []ScannerInStep
<1>1. ScannerInv => ScannerInStep
  <2> SUFFICES ASSUME ScannerInv PROVE ScannerInStep
    OBVIOUS
  <2>1. buf # None => Exists(buf.file) /\ buf.pos \in 1..(Len(setup.files[buf.file]) + 1)
    BY DEF ScannerInv, BuffersInv, BufOK, Exists
  <2>2. LpTypeOK
    BY <2>1 DEF ScannerInv, SeqsInv, CountsInv, DirsInv, DepthInv, LpTypeOK
  <2> QED
    BY <2>2 DEF ScannerInv, DirsInv, DepthInv, CarryInv, ScannerInStep
<1>2. LpInit => ScannerInv
  BY DirsInit, SeqsInit, CountsInit, BuffersInit, DepthInit, CarryInit DEF ScannerInv
<1>3. ScannerInv /\ [LpNext]_lpvars => ScannerInv'
  BY DirsStep, SeqsStep, CountsStep, BuffersStep, DepthStep, CarryStep DEF ScannerInv
<1> QED
  BY <1>1, <1>2, <1>3, PTL DEF LpSpec
=============================================================================

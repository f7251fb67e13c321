--------------------------- MODULE SlipListProofs ---------------------------
(***************************************************************************)
(* Proofs about SlipList for every set of slip lists and of addresses: the *)
(* arrays are read inside their bounds, the bisection keeps the address    *)
(* bracketed, no assertion fails, and both searches answer correctly.      *)
(* Then that SlipList implements SlipOracle: running counts in an array,   *)
(* a bisection and a walk answer as the set of slipped addresses does.     *)
(* Last, that the searches of SlipSearch, which take one step, return what *)
(* these return loop by loop.                                              *)
(***************************************************************************)
EXTENDS SlipList, Sequences, FiniteSetTheorems, NaturalsInduction, WellFoundedInduction, TLAPS

\* The length of the list is only changed by the last step of the loader, so
\* the zero entry always finds room; nothing is asked before that; and a search
\* only goes on from an index inside the list.
CallInv ==
  /\ pc = "load" => slips_len = file.len /\ op = "none"
  /\ pc = "bins" => op \in Ops /\ (slips_len > 0 => low < slips_len)
  /\ pc \in Ops => pc = op
  /\ pc = "slipcount_rev" => i < slips_len

TypeInv == TypeOK /\ CallInv

\* The part of the array already filled mirrors the file with running totals.
LoadedPrefix ==
  InOrder(file) /\ pc = "load" =>
    /\ \A k \in 0 .. j - 1 : slips[k].off = file.off[k] /\ SlipLen(slips, k) = file.n[k]
    /\ tot = IF j = 0 THEN 0 ELSE slips[j - 1].count
    /\ \A a, b \in 0 .. j - 1 : a <= b => 0 <= slips[a].count /\ slips[a].count <= slips[b].count

\* The loaded array starts at 0, is in order, and its counts only grow.
Loaded ==
  InOrder(file) /\ pc # "load" =>
    /\ slips_len > 0
    /\ slips[0].off = 0
    /\ file.off[0] > 0 \/ file.n[0] = 0 => slips[0].count = 0
    /\ \A a, b \in 0 .. slips_len - 1 : a < b => slips[a].off + SlipLen(slips, a) <= slips[b].off
    /\ \A a, b \in 0 .. slips_len - 1 :
         a <= b => 0 <= slips[a].count /\ slips[a].count <= slips[b].count

\* The walk stands either at the entry the bisection found or just after an
\* entry that the shifted address has passed.
WalkInv ==
  InOrder(file) /\ pc = "slipcount" =>
    \/ i < slips_len /\ l2 = addr /\ slips[i].off <= addr
    \/ /\ i > 0
       /\ ct = slips[i - 1].count
       /\ l2 = addr + ct
       /\ slips[i - 1].off + SlipLen(slips, i - 1) <= l2

IInv ==
  /\ TypeInv
  /\ LoadedPrefix
  /\ Loaded
  /\ Bracketed
  /\ HighestEntry
  /\ WalkInv
  /\ LandsBetweenSlips
  /\ RevFlagsSlips
  /\ InOrder(file) => NeverAborts

-----------------------------------------------------------------------------
(* Type correctness *)

\* The midpoint of an interval with something strictly inside lies strictly
\* inside it.
LEMMA Midpoint ==
  ASSUME NEW a \in Nat, NEW b \in Nat, a <= b, b # a, b # a + 1
  PROVE  LET m == a + ((b - a) \div 2) IN m \in Nat /\ a < m /\ m < b
  OBVIOUS

LEMMA InitType == Init => TypeInv
  BY FilesAssumption DEF Init, TypeInv, TypeOK, CallInv, Zero, Ops

\* Every step keeps the variables in their types and the indices in bounds.
LEMMA NextType == TypeInv /\ [Next]_vars => TypeInv'
<1> SUFFICES ASSUME TypeInv, [Next]_vars PROVE TypeInv'
  OBVIOUS
<1> USE DEF TypeInv, TypeOK, CallInv, Ops
<1>0. /\ file.len \in Nat
      /\ file.off \in [0 .. file.len - 1 -> Nat]
      /\ file.n \in [0 .. file.len - 1 -> Int]
  BY FilesAssumption
<1>9. ASSUME UNCHANGED loadVars
      PROVE  /\ file' \in Files
             /\ slips' \in [0 .. file'.len -> [off : Nat, count : Int]]
             /\ slips_len' \in {file'.len, file'.len + 1}
             /\ tot' \in Int
             /\ j' \in 0 .. file'.len
             /\ slips_len' = slips_len /\ file' = file
  BY <1>9 DEF loadVars
<1>1. CASE LoadEntry
  <2>0. j \in 0 .. file.len - 1
    BY <1>0, <1>1 DEF LoadEntry
  <2>1. file.off[j] \in Nat /\ file.n[j] \in Int
    BY <1>0, <2>0
  <2>2. tot' \in Int /\ j' \in 0 .. file.len /\ UNCHANGED <<file, slips_len, pc, queryVars>>
    BY <1>0, <1>1, <2>1 DEF LoadEntry
  <2>3. slips' = [slips EXCEPT ![j] = [off |-> file.off[j], count |-> tot']]
    BY <1>1 DEF LoadEntry
  <2>4. [off |-> file.off[j], count |-> tot'] \in [off : Nat, count : Int]
    BY <2>1, <2>2
  <2>5. slips' \in [0 .. file.len -> [off : Nat, count : Int]]
    BY <2>3, <2>4
  <2> QED
    BY <1>0, <2>2, <2>5 DEF queryVars
<1>2. CASE AddZeroEntry
  <2>1. /\ slips' = [k \in 0 .. file.len |-> IF k = 0 THEN Zero ELSE slips[k - 1]]
        /\ pc = "load" /\ pc' = "idle" /\ slips_len' = slips_len + 1
        /\ UNCHANGED <<file, tot, j, queryVars>>
    BY <1>2 DEF AddZeroEntry
  <2>2. ASSUME NEW k \in 0 .. file.len
        PROVE  (IF k = 0 THEN Zero ELSE slips[k - 1]) \in [off : Nat, count : Int]
    <3>1. CASE k = 0
      BY <3>1 DEF Zero
    <3>2. CASE k # 0
      <4>1. k - 1 \in 0 .. file.len
        BY <1>0, <3>2
      <4> QED
        BY <3>2, <4>1
    <3> QED
      BY <3>1, <3>2
  <2>3. slips' \in [0 .. file.len -> [off : Nat, count : Int]]
    BY <2>1, <2>2
  <2>4. slips_len = file.len
    BY <2>1
  <2> QED
    BY <1>0, <2>1, <2>3, <2>4 DEF queryVars
<1>3. CASE NoZeroEntry
  BY <1>0, <1>3 DEF NoZeroEntry, loadVars, queryVars
<1>4. CASE Bisect
  <2> DEFINE mid == low + ((high - low) \div 2)
  <2>1. low \in Nat /\ high \in Nat /\ low <= high /\ high # low /\ high # low + 1
    BY <1>0, <1>4 DEF Bisect, Halve, Middle
  <2>2. mid \in Nat /\ low < mid /\ mid < high
    BY <2>1, Midpoint
  <2> HIDE DEF mid
  <2>3. \/ high' = mid /\ low' = low
        \/ low' = mid /\ high' = high
    BY <1>4 DEF Bisect, Halve, Middle, mid
  <2>4. UNCHANGED <<loadVars, pc, op, addr, i, ct, l2, ret>>
    BY <1>4 DEF Bisect, Halve, Middle
  <2> QED
    BY <1>0, <2>1, <2>2, <2>3, <2>4 DEF loadVars
<1>5. CASE BinsReturn
  <2>1. i' = low /\ op \in Ops /\ UNCHANGED <<loadVars, op, addr, low, high, ret>>
    BY <1>5 DEF BinsReturn
  <2>2. CASE low < slips_len
    <3>1. ct' = slips[low].count /\ l2' = addr /\ pc' = op
      BY <1>5, <2>2 DEF BinsReturn
    <3> QED
      BY <1>0, <2>1, <2>2, <3>1 DEF loadVars
  <2>3. CASE ~(low < slips_len)
    <3>1. ct' = ct /\ l2' = l2 /\ pc' = "aborted"
      BY <1>5, <2>3 DEF BinsReturn
    <3> QED
      BY <1>0, <2>1, <3>1 DEF loadVars
  <2> QED
    BY <2>2, <2>3
<1>6. CASE Walk
  <2>1. /\ pc = "slipcount" /\ pc' = pc /\ i < slips_len /\ i' = i + 1
        /\ ct' = slips[i].count /\ l2' = addr + ct'
        /\ UNCHANGED <<loadVars, op, addr, low, high, ret>>
    BY <1>6 DEF Walk, CanWalk
  <2>2. slips[i].count \in Int
    <3>1. i \in 0 .. file.len
      BY <1>0, <2>1
    <3>2. slips[i] \in [off : Nat, count : Int]
      BY <3>1
    <3> QED
      BY <3>2
  <2>3. ct' \in Int /\ l2' \in Int /\ i' \in 0 .. slips_len
    BY <1>0, <2>1, <2>2
  <2> QED
    BY <1>0, <1>9, <2>1, <2>3
<1>7. CASE WalkReturn
  BY <1>0, <1>7 DEF WalkReturn, FreeLocals, loadVars
<1>8. CASE RevReturn
  BY <1>0, <1>8 DEF RevReturn, FreeLocals, loadVars
<1>10. CASE \E o \in Ops, a \in Addrs : Ask(o, a)
  BY <1>0, <1>10, AddrsAssumption DEF Ask, loadVars
<1>11. CASE UNCHANGED vars
  BY <1>11 DEF vars, loadVars, queryVars
<1> QED
  BY <1>1, <1>2, <1>3, <1>4, <1>5, <1>6, <1>7, <1>8, <1>10, <1>11 DEF Next, Step

\* Every variable keeps its C type and every array index stays in bounds,
\* whatever the lists and the addresses.
THEOREM TypeCorrect == Spec => []TypeOK
<1>1. TypeInv => TypeOK
  BY DEF TypeInv
<1> QED
  BY InitType, NextType, <1>1, PTL DEF Spec

-----------------------------------------------------------------------------
(* The loaded list *)

\* Steps that leave the list alone once it is loaded keep what is known of it.
LEMMA ListUnchanged ==
  ASSUME Loaded, pc # "load", pc' # "load", UNCHANGED loadVars
  PROVE  LoadedPrefix' /\ Loaded'
  BY DEF LoadedPrefix, Loaded, loadVars, InOrder, SlipLen

LEMMA LoadEntryList ==
  ASSUME TypeInv, LoadedPrefix, LoadEntry
  PROVE  LoadedPrefix' /\ Loaded'
<1> SUFFICES ASSUME InOrder(file) PROVE LoadedPrefix' /\ Loaded'
  BY DEF LoadEntry, LoadedPrefix, Loaded, InOrder
<1>0. /\ file.len \in Nat
      /\ file.off \in [0 .. file.len - 1 -> Nat]
      /\ file.n \in [0 .. file.len - 1 -> Int]
      /\ slips \in [0 .. file.len -> [off : Nat, count : Int]]
      /\ tot \in Int
  BY FilesAssumption DEF TypeInv, TypeOK
<1>1. j \in 0 .. file.len - 1 /\ file.n[j] \in Nat /\ pc = "load" /\ pc' = "load"
  <2>1. j \in 0 .. file.len - 1 /\ pc = "load" /\ pc' = "load"
    BY <1>0 DEF LoadEntry, TypeInv, TypeOK
  <2>2. file.n[j] \in Int /\ file.n[j] >= 0
    BY <1>0, <2>1 DEF InOrder
  <2> QED
    BY <2>1, <2>2
<1>2. /\ slips'[j] = [off |-> file.off[j], count |-> tot + file.n[j]]
      /\ \A k \in 0 .. j - 1 : slips'[k] = slips[k]
      /\ j' = j + 1 /\ tot' = tot + file.n[j] /\ file' = file
  <2>1. /\ slips' = [slips EXCEPT ![j] = [off |-> file.off[j], count |-> tot']]
        /\ j' = j + 1 /\ tot' = tot + file.n[j] /\ file' = file
    BY DEF LoadEntry
  <2>2. DOMAIN slips = 0 .. file.len /\ j \in 0 .. file.len
    BY <1>0, <1>1
  <2>3. \A k \in 0 .. j - 1 : k \in 0 .. file.len /\ k # j
    BY <1>0, <1>1
  <2> QED
    BY <2>1, <2>2, <2>3
<1>3. /\ \A k \in 0 .. j - 1 : slips[k].off = file.off[k] /\ SlipLen(slips, k) = file.n[k]
      /\ tot = IF j = 0 THEN 0 ELSE slips[j - 1].count
      /\ \A a, b \in 0 .. j - 1 : a <= b => 0 <= slips[a].count /\ slips[a].count <= slips[b].count
  BY <1>1 DEF LoadedPrefix
<1>4. \A k \in 0 .. j : slips'[k].off = file.off[k] /\ SlipLen(slips', k) = file.n[k]
  <2>1. ASSUME NEW k \in {j}
        PROVE  slips'[k].off = file.off[k] /\ SlipLen(slips', k) = file.n[k]
    <3>1. CASE k = 0
      BY <1>0, <1>1, <1>2, <1>3, <3>1 DEF SlipLen
    <3>2. CASE k # 0
      <4>1. slips'[k - 1] = slips[k - 1] /\ tot = slips[k - 1].count
        BY <1>1, <1>2, <1>3, <3>2
      <4>2. SlipLen(slips', k) = slips'[k].count - slips'[k - 1].count
        BY <3>2 DEF SlipLen
      <4>3. slips[k - 1].count \in Int
        <5>1. k - 1 \in 0 .. file.len
          BY <1>0, <1>1, <3>2
        <5>2. slips[k - 1] \in [off : Nat, count : Int]
          BY <1>0, <5>1
        <5> QED
          BY <5>2
      <4>4. k = j /\ slips'[k].off = file.off[k] /\ slips'[k].count = tot + file.n[k]
        BY <1>2
      <4>5. file.n[k] \in Int
        BY <1>1, <4>4
      <4>6. SlipLen(slips', k) = (tot + file.n[k]) - tot
        BY <4>1, <4>2, <4>4
      <4>7. tot \in Int
        BY <1>0
      <4> QED
        BY <4>4, <4>5, <4>6, <4>7
    <3> QED
      BY <3>1, <3>2
  <2>2. ASSUME NEW k \in 0 .. j - 1
        PROVE  slips'[k].off = file.off[k] /\ SlipLen(slips', k) = file.n[k]
    <3>1. slips'[k] = slips[k] /\ (k # 0 => slips'[k - 1] = slips[k - 1])
      BY <1>1, <1>2
    <3> QED
      BY <1>3, <3>1 DEF SlipLen
  <2> QED
    BY <1>1, <2>1, <2>2
<1>5. tot' = slips'[j].count
  BY <1>2
<1>6. \A a, b \in 0 .. j :
        a <= b => 0 <= slips'[a].count /\ slips'[a].count <= slips'[b].count
  <2>1. \A k \in 0 .. j - 1 : slips[k].count \in Int
    BY <1>0, <1>1
  <2>2. tot >= 0 /\ \A k \in 0 .. j - 1 : slips[k].count <= tot
    BY <1>0, <1>1, <1>3, <2>1
  <2>3. slips'[j].count = tot + file.n[j] /\ tot + file.n[j] >= tot /\ tot + file.n[j] \in Nat
    BY <1>0, <1>1, <1>2, <2>2
  <2> SUFFICES ASSUME NEW a \in 0 .. j, NEW b \in 0 .. j, a <= b
               PROVE  0 <= slips'[a].count /\ slips'[a].count <= slips'[b].count
    OBVIOUS
  <2>4. CASE b = j
    <3>1. CASE a = j
      BY <1>0, <2>2, <2>3, <2>4, <3>1
    <3>2. CASE a # j
      <4>1. a \in 0 .. j - 1 /\ slips'[a] = slips[a]
        BY <1>1, <1>2, <3>2
      <4>2. 0 <= slips[a].count /\ slips[a].count <= tot /\ slips[a].count \in Int
        BY <1>3, <2>1, <2>2, <4>1
      <4> QED
        BY <1>0, <2>3, <2>4, <4>1, <4>2
    <3> QED
      BY <3>1, <3>2
  <2>5. CASE b # j
    <3>1. a \in 0 .. j - 1 /\ b \in 0 .. j - 1
      BY <1>1, <2>5
    <3> QED
      BY <1>2, <1>3, <3>1
  <2> QED
    BY <2>4, <2>5
<1> QED
  BY <1>0, <1>1, <1>2, <1>4, <1>5, <1>6 DEF LoadedPrefix, Loaded, InOrder

\* The finished array keeps the file's order, with or without the zero entry.
LEMMA ListFinished ==
  ASSUME TypeInv, LoadedPrefix, AddZeroEntry \/ NoZeroEntry
  PROVE  LoadedPrefix' /\ Loaded'
<1> SUFFICES ASSUME InOrder(file) PROVE LoadedPrefix' /\ Loaded'
  BY DEF AddZeroEntry, NoZeroEntry, LoadedPrefix, Loaded, InOrder, loadVars
<1>0. /\ file.len \in Nat /\ file.len > 0
      /\ file.off \in [0 .. file.len - 1 -> Nat]
      /\ file.n \in [0 .. file.len - 1 -> Nat]
      /\ slips \in [0 .. file.len -> [off : Nat, count : Int]]
  BY FilesAssumption DEF TypeInv, TypeOK, InOrder
<1>1. j = file.len /\ pc = "load" /\ pc' = "idle" /\ file' = file /\ slips_len = file.len
  BY DEF AddZeroEntry, NoZeroEntry, TypeInv, CallInv, loadVars
<1>2. /\ \A k \in 0 .. file.len - 1 : slips[k].off = file.off[k] /\ SlipLen(slips, k) = file.n[k]
      /\ \A a, b \in 0 .. file.len - 1 :
           a <= b => 0 <= slips[a].count /\ slips[a].count <= slips[b].count
  BY <1>1 DEF LoadedPrefix
<1>3. \A a, b \in 0 .. file.len - 1 : a < b => slips[a].off + SlipLen(slips, a) <= slips[b].off
  BY <1>2 DEF InOrder
<1>4. slips[0].count = file.n[0]
  BY <1>0, <1>2 DEF SlipLen
<1>5. CASE AddZeroEntry
  <2>1. /\ slips_len' = file.len + 1
        /\ slips'[0] = Zero
        /\ \A k \in 1 .. file.len : slips'[k] = slips[k - 1]
    BY <1>0, <1>1, <1>5 DEF AddZeroEntry
  <2>2. SlipLen(slips', 0) = 0
    BY <2>1 DEF SlipLen, Zero
  <2>3. \A k \in 1 .. file.len : SlipLen(slips', k) = SlipLen(slips, k - 1)
    BY <1>0, <2>1 DEF SlipLen, Zero
  <2>4. \A a, b \in 0 .. file.len : a < b => slips'[a].off + SlipLen(slips', a) <= slips'[b].off
    <3> SUFFICES ASSUME NEW a \in 0 .. file.len, NEW b \in 0 .. file.len, a < b
                 PROVE  slips'[a].off + SlipLen(slips', a) <= slips'[b].off
      OBVIOUS
    <3>1. slips'[b] = slips[b - 1] /\ b - 1 \in 0 .. file.len - 1
      BY <1>0, <2>1
    <3>2. CASE a = 0
      <4>1. b - 1 \in 0 .. file.len
        BY <1>0, <3>1
      <4>2. slips[b - 1] \in [off : Nat, count : Int]
        BY <1>0, <4>1
      <4>3. slips'[a].off + SlipLen(slips', a) = 0
        BY <2>1, <2>2, <3>2 DEF Zero
      <4> QED
        BY <3>1, <4>2, <4>3
    <3>3. CASE a # 0
      <4>1. a - 1 \in 0 .. file.len - 1 /\ a - 1 < b - 1 /\ slips'[a] = slips[a - 1]
        BY <1>0, <2>1, <3>3
      <4> QED
        BY <1>0, <1>3, <2>3, <3>1, <3>3, <4>1
    <3> QED
      BY <3>2, <3>3
  <2>5. \A a, b \in 0 .. file.len :
          a <= b => 0 <= slips'[a].count /\ slips'[a].count <= slips'[b].count
    <3> SUFFICES ASSUME NEW a \in 0 .. file.len, NEW b \in 0 .. file.len, a <= b
                 PROVE  0 <= slips'[a].count /\ slips'[a].count <= slips'[b].count
      OBVIOUS
    <3>1. CASE b = 0
      BY <1>0, <2>1, <3>1 DEF Zero
    <3>2. CASE b # 0
      <4>0. b - 1 \in 0 .. file.len - 1 /\ slips'[b] = slips[b - 1]
        BY <1>0, <2>1, <3>2
      <4>1. 0 <= slips'[b].count
        BY <1>0, <1>2, <4>0
      <4>2. CASE a = 0
        BY <2>1, <4>1, <4>2 DEF Zero
      <4>3. CASE a # 0
        <5>1. a - 1 \in 0 .. file.len - 1 /\ a - 1 <= b - 1 /\ slips'[a] = slips[a - 1]
          BY <1>0, <2>1, <4>3
        <5> QED
          BY <1>2, <4>0, <5>1
      <4> QED
        BY <4>2, <4>3
    <3> QED
      BY <3>1, <3>2
  <2> QED
    BY <1>0, <1>1, <2>1, <2>4, <2>5 DEF LoadedPrefix, Loaded, Zero
<1>6. CASE NoZeroEntry
  <2>1. slips' = slips /\ slips_len' = slips_len /\ slips[0].off = 0
    BY <1>0, <1>6 DEF NoZeroEntry, loadVars
  <2>3. file.off[0] = 0
    BY <1>0, <1>2, <2>1
  <2> QED
    BY <1>0, <1>1, <1>2, <1>3, <1>4, <2>1, <2>3 DEF LoadedPrefix, Loaded
<1> QED
  BY <1>5, <1>6

LEMMA NextLoaded ==
  ASSUME TypeInv, LoadedPrefix, Loaded, [Next]_vars
  PROVE  LoadedPrefix' /\ Loaded'
<1>1. CASE LoadEntry
  BY <1>1, LoadEntryList
<1>2. CASE AddZeroEntry \/ NoZeroEntry
  BY <1>2, ListFinished
<1>3. CASE Bisect \/ BinsReturn \/ Walk \/ WalkReturn \/ RevReturn
  <2>1. UNCHANGED loadVars /\ pc # "load" /\ pc' # "load"
    BY <1>3 DEF Bisect, Halve, Middle, BinsReturn, Walk, WalkReturn, RevReturn, TypeInv, CallInv, Ops
  <2> QED
    BY <2>1, ListUnchanged
<1>4. CASE \E o \in Ops, a \in Addrs : Ask(o, a)
  <2>1. UNCHANGED loadVars /\ pc # "load" /\ pc' # "load"
    BY <1>4 DEF Ask
  <2> QED
    BY <2>1, ListUnchanged
<1>5. CASE UNCHANGED vars
  BY <1>5 DEF vars, loadVars, LoadedPrefix, Loaded, InOrder, SlipLen
<1> QED
  BY <1>1, <1>2, <1>3, <1>4, <1>5 DEF Next, Step

-----------------------------------------------------------------------------
(* The searches *)

\* A step that changes neither the list nor the call it answers keeps the
\* answer right.
LEMMA NextSearch ==
  ASSUME IInv, InOrder(file), pc # "load", UNCHANGED loadVars, TypeInv', [Next]_vars
  PROVE  /\ Bracketed' /\ HighestEntry' /\ WalkInv'
         /\ LandsBetweenSlips' /\ RevFlagsSlips'
         /\ NeverAborts'
<1>0. /\ slips_len \in Nat /\ slips_len > 0
      /\ \A k \in 0 .. slips_len - 1 : slips[k].off \in Nat /\ slips[k].count \in Int
      /\ slips_len' = slips_len /\ slips' = slips /\ file' = file
      /\ addr \in Nat /\ low \in Nat /\ high \in Nat /\ i \in Nat /\ ct \in Int /\ l2 \in Int
      /\ low <= high /\ high <= slips_len
  <2>1. /\ file.len \in Nat
        /\ slips \in [0 .. file.len -> [off : Nat, count : Int]]
        /\ slips_len \in {file.len, file.len + 1}
        /\ addr \in Nat /\ ct \in Int /\ l2 \in Int
        /\ low \in 0 .. slips_len /\ high \in low .. slips_len /\ i \in 0 .. slips_len
    BY FilesAssumption DEF IInv, TypeInv, TypeOK
  <2>2. slips_len > 0
    BY DEF IInv, Loaded
  <2>3. \A k \in 0 .. slips_len - 1 : slips[k].off \in Nat /\ slips[k].count \in Int
    BY <2>1
  <2> QED
    BY <2>1, <2>2, <2>3 DEF loadVars
<1>1. /\ slips[0].off = 0
      /\ file.off[0] > 0 \/ file.n[0] = 0 => slips[0].count = 0
      /\ \A a, b \in 0 .. slips_len - 1 : a < b => slips[a].off + SlipLen(slips, a) <= slips[b].off
      /\ \A a, b \in 0 .. slips_len - 1 :
           a <= b => 0 <= slips[a].count /\ slips[a].count <= slips[b].count
  <2>1. Loaded
    BY DEF IInv
  <2> QED
    BY <2>1 DEF Loaded
<1>3. \A k \in 0 .. slips_len - 1 : SlipLen(slips, k) \in Nat /\ SlipLen(slips, k) <= slips[k].count
  BY <1>0, <1>1 DEF SlipLen
\* Entries are in order of their offsets.
<1>4. \A a, b \in 0 .. slips_len - 1 : a <= b => slips[a].off <= slips[b].off
  BY <1>0, <1>1, <1>3
<1>5. CASE Bisect
  <2> DEFINE mid == low + ((high - low) \div 2)
  <2>1. high # low /\ high # low + 1 /\ pc = "bins" /\ pc' = "bins" /\ addr' = addr
    BY <1>5 DEF Bisect, Halve, Middle
  <2>2. mid \in Nat /\ low < mid /\ mid < high
    BY <1>0, <2>1, Midpoint
  <2>3. \/ ~(slips[mid].off <= addr) /\ high' = mid /\ low' = low
        \/ slips[mid].off <= addr /\ low' = mid /\ high' = high
    BY <1>5 DEF Bisect, Halve, Middle
  <2> HIDE DEF mid
  <2>4. /\ \A k \in 0 .. low : slips[k].off <= addr
        /\ \A k \in high .. slips_len - 1 : slips[k].off > addr
    BY <2>1 DEF IInv, Bracketed
  <2>5. (\A k \in 0 .. low : slips[k].off <= addr)'
    BY <1>0, <1>4, <2>1, <2>2, <2>3, <2>4
  <2>6. (\A k \in high .. slips_len - 1 : slips[k].off > addr)'
    BY <1>0, <1>4, <2>1, <2>2, <2>3, <2>4
  <2> QED
    BY <2>1, <2>5, <2>6 DEF Bracketed, HighestEntry, WalkInv, LandsBetweenSlips, RevFlagsSlips, NeverAborts
<1>6. CASE BinsReturn
  <2>1. /\ pc = "bins" /\ (high = low \/ high = low + 1) /\ i' = low /\ addr' = addr
        /\ \A k \in 0 .. low : slips[k].off <= addr
        /\ \A k \in high .. slips_len - 1 : slips[k].off > addr
    <3>1. pc = "bins" /\ high \in {low, low + 1} /\ i' = low /\ addr' = addr
      BY <1>6 DEF BinsReturn
    <3>2. Bracketed
      BY DEF IInv
    <3> QED
      BY <3>1, <3>2 DEF Bracketed
  <2>2. low < slips_len
    BY <1>0, <2>1 DEF IInv, TypeInv, CallInv
  <2>3. ct' = slips[low].count /\ l2' = addr /\ pc' = op /\ op \in Ops
    <3>1. CallInv
      BY DEF IInv, TypeInv
    <3> QED
      BY <1>6, <2>2, <3>1 DEF BinsReturn, CallInv
  <2>4. \A k \in low + 1 .. slips_len - 1 : slips[k].off > addr
    BY <1>0, <2>1
  <2>5. HighestEntry' /\ WalkInv'
    BY <1>0, <2>1, <2>2, <2>3, <2>4 DEF HighestEntry, WalkInv
  <2> QED
    BY <2>3, <2>5 DEF Ops, Bracketed, LandsBetweenSlips, RevFlagsSlips, NeverAborts
<1>7. CASE Walk
  <2>1. /\ pc = "slipcount" /\ pc' = "slipcount" /\ i < slips_len /\ slips[i].off <= l2
        /\ ct' = slips[i].count /\ l2' = addr + slips[i].count /\ i' = i + 1 /\ addr' = addr
    BY <1>7 DEF Walk, CanWalk
  <2>2. slips[i].off + SlipLen(slips, i) <= addr + slips[i].count
    <3>1. CASE l2 = addr
      BY <1>0, <1>3, <2>1, <3>1
    <3>2. CASE i > 0 /\ ct = slips[i - 1].count /\ l2 = addr + ct
      <4>1. SlipLen(slips, i) = slips[i].count - slips[i - 1].count /\ slips[i - 1].count \in Int
        BY <1>0, <2>1, <3>2 DEF SlipLen
      <4> QED
        BY <1>0, <2>1, <3>2, <4>1
    <3> QED
      BY <2>1, <3>1, <3>2 DEF IInv, WalkInv
  <2>3. i' > 0 /\ i' - 1 = i
    BY <1>0, <2>1
  <2>4. WalkInv'
    BY <1>0, <2>1, <2>2, <2>3 DEF WalkInv
  <2> QED
    BY <2>1, <2>4 DEF Bracketed, HighestEntry, LandsBetweenSlips, RevFlagsSlips, NeverAborts
<1>8. CASE WalkReturn
  <2>1. /\ pc = "slipcount" /\ pc' = "idle" /\ ret' = ct /\ addr' = addr /\ op' = op
        /\ ~(i < slips_len /\ slips[i].off <= l2)
    BY <1>8 DEF WalkReturn, CanWalk
  <2>2. /\ i > 0 /\ ct = slips[i - 1].count /\ l2 = addr + ct
        /\ slips[i - 1].off + SlipLen(slips, i - 1) <= l2
    BY <1>0, <2>1 DEF IInv, WalkInv
  <2>3. i - 1 \in 0 .. slips_len - 1
    BY <1>0, <2>2 DEF IInv, TypeInv, TypeOK
  <2>4. i - 1 + 1 < slips_len => addr + ct < slips[i - 1 + 1].off
    BY <1>0, <2>1, <2>2
  <2>5. Between(addr + ct, i - 1)
    BY <2>2, <2>4 DEF Between
  <2>6. LandsBetweenSlips'
    BY <1>0, <2>1, <2>2, <2>3, <2>5 DEF LandsBetweenSlips, ShiftsPast, Between
  <2>7. RevFlagsSlips'
    <3>1. CallInv
      BY DEF IInv, TypeInv
    <3>2. op # "slipcount_rev"
      BY <2>1, <3>1 DEF CallInv, Ops
    <3> QED
      BY <2>1, <3>2 DEF RevFlagsSlips
  <2> QED
    BY <2>1, <2>6, <2>7 DEF Bracketed, HighestEntry, WalkInv, NeverAborts
<1>9. CASE RevReturn
  <2>1. /\ pc = "slipcount_rev" /\ pc' = "idle" /\ addr' = addr /\ op' = op
        /\ ret' = IF CoincidesWithSlip THEN -1 ELSE slips[i].count
    BY <1>9 DEF RevReturn
  <2>2. /\ i \in 0 .. slips_len - 1
        /\ slips[i].off <= addr
        /\ \A k \in i + 1 .. slips_len - 1 : slips[k].off > addr
    <3>1. i < slips_len
      BY <2>1 DEF IInv, TypeInv, CallInv
    <3>2. HighestEntry
      BY DEF IInv
    <3> QED
      BY <1>0, <2>1, <3>1, <3>2 DEF HighestEntry
  <2>3. LandsBetweenSlips'
    <3>1. CallInv
      BY DEF IInv, TypeInv
    <3>2. op # "slipcount"
      BY <2>1, <3>1 DEF CallInv, Ops
    <3> QED
      BY <2>1, <3>2 DEF LandsBetweenSlips
  <2>4. ASSUME file.off[0] > 0 \/ file.n[0] = 0
        PROVE  \/ \E k \in 0 .. slips_len - 1 : ret' = slips[k].count /\ Between(addr, k)
               \/ /\ ret' = -1
                  /\ \E k \in 0 .. slips_len - 1 :
                       slips[k].off <= addr /\ addr < slips[k].off + SlipLen(slips, k)
    <3>1. CASE CoincidesWithSlip
      <4>1. addr < slips[i].off + SlipLen(slips, i)
        BY <1>0, <3>1 DEF CoincidesWithSlip, SlipLen
      <4> QED
        BY <2>1, <2>2, <3>1, <4>1
    <3>2. CASE ~CoincidesWithSlip
      <4>1. slips[i].off + SlipLen(slips, i) <= addr
        <5>1. CASE i = 0
          BY <1>0, <1>1, <2>2, <2>4, <5>1 DEF SlipLen
        <5>2. CASE i # 0
          <6>1. /\ SlipLen(slips, i) = slips[i].count - slips[i - 1].count
                /\ slips[i - 1].count \in Int /\ i > 0
            BY <1>0, <2>2, <5>2 DEF SlipLen
          <6> QED
            BY <1>0, <2>2, <3>2, <6>1 DEF CoincidesWithSlip
        <5> QED
          BY <5>1, <5>2
      <4>2. Between(addr, i)
        BY <1>0, <2>2, <4>1 DEF Between
      <4> QED
        BY <2>1, <2>2, <3>2, <4>2
    <3> QED
      BY <3>1, <3>2
  <2>5. RevFlagsSlips'
    BY <1>0, <2>1, <2>4 DEF RevFlagsSlips, TakesBack, Between
  <2> QED
    BY <2>1, <2>3, <2>5 DEF Bracketed, HighestEntry, WalkInv, NeverAborts
<1>10. CASE \E o \in Ops, a \in Addrs : Ask(o, a)
  <2>1. pc' = "bins" /\ low' = 0 /\ high' = slips_len /\ addr' \in Nat
    BY <1>10, AddrsAssumption DEF Ask
  <2>2. Bracketed'
    BY <1>0, <1>1, <2>1 DEF Bracketed
  <2> QED
    BY <2>1, <2>2 DEF HighestEntry, WalkInv, LandsBetweenSlips, RevFlagsSlips, NeverAborts
<1>11. CASE UNCHANGED vars
  <2>1. UNCHANGED vars
    BY <1>11 DEF vars
  <2> QED
    BY <2>1 DEF IInv, vars, loadVars, queryVars, Bracketed, HighestEntry, WalkInv,
                LandsBetweenSlips, RevFlagsSlips, NeverAborts, ShiftsPast, TakesBack, Between
<1>12. ~(LoadEntry \/ AddZeroEntry \/ NoZeroEntry)
  BY DEF LoadEntry, AddZeroEntry, NoZeroEntry
<1> QED
  BY <1>5, <1>6, <1>7, <1>8, <1>9, <1>10, <1>11, <1>12 DEF Next, Step

\* While the list is being loaded nothing has been asked.
LEMMA LoadingSearch ==
  ASSUME TypeInv, TypeInv', pc = "load", [Next]_vars
  PROVE  /\ Bracketed' /\ HighestEntry' /\ WalkInv'
         /\ LandsBetweenSlips' /\ RevFlagsSlips'
         /\ NeverAborts'
<1>1. pc' \in {"load", "idle"} /\ op' = "none"
  BY DEF TypeInv, CallInv, Next, Step, LoadEntry, AddZeroEntry, NoZeroEntry, Bisect, Halve, Middle, BinsReturn,
         Walk, WalkReturn, RevReturn, Ask, vars, loadVars, queryVars, Ops
<1> QED
  BY <1>1 DEF Bracketed, HighestEntry, WalkInv, LandsBetweenSlips, RevFlagsSlips, NeverAborts

-----------------------------------------------------------------------------
(* The inductive invariant *)

LEMMA InitInv == Init => IInv
<1> SUFFICES ASSUME Init PROVE IInv
  OBVIOUS
<1>1. TypeInv
  BY InitType
<1>2. LoadedPrefix
  BY FilesAssumption DEF Init, LoadedPrefix
<1> QED
  BY <1>1, <1>2 DEF Init, IInv, Loaded, Bracketed, HighestEntry, WalkInv, LandsBetweenSlips,
                    RevFlagsSlips, NeverAborts

LEMMA NextInv == IInv /\ [Next]_vars => IInv'
<1> SUFFICES ASSUME IInv, [Next]_vars PROVE IInv'
  OBVIOUS
<1>1. TypeInv /\ LoadedPrefix /\ Loaded
  BY DEF IInv
<1>2. TypeInv'
  BY <1>1, NextType
<1>3. LoadedPrefix' /\ Loaded'
  BY <1>1, NextLoaded
<1>4. file' = file
  BY DEF Next, Step, LoadEntry, AddZeroEntry, NoZeroEntry, Bisect, Halve, Middle, BinsReturn,
         Walk, WalkReturn, RevReturn, Ask, vars, loadVars
<1>5. CASE pc = "load"
  BY <1>1, <1>2, <1>3, <1>5, LoadingSearch DEF IInv
<1>6. CASE pc # "load" /\ InOrder(file)
  <2>1. UNCHANGED loadVars
    BY <1>6 DEF Next, Step, LoadEntry, AddZeroEntry, NoZeroEntry, Bisect, Halve, Middle, BinsReturn,
         Walk, WalkReturn, RevReturn, Ask, vars
  <2> QED
    BY <1>2, <1>3, <1>6, <2>1, NextSearch DEF IInv
<1>7. CASE ~InOrder(file)
  BY <1>2, <1>3, <1>4, <1>7 DEF IInv, InOrder, Bracketed, HighestEntry, WalkInv, LandsBetweenSlips,
                               RevFlagsSlips
<1> QED
  BY <1>5, <1>6, <1>7

LEMMA Invariance == Spec => []IInv
  BY InitInv, NextInv, PTL DEF Spec

\* slipcount_bins keeps the address bracketed between its bounds.
THEOREM BisectionBrackets == Spec => []Bracketed
<1>1. IInv => Bracketed
  BY DEF IInv
<1> QED
  BY Invariance, <1>1, PTL

\* slipcount sends every LBN to a layout address that no slip covers.
THEOREM SlipcountLands == Spec => []LandsBetweenSlips
<1>1. IInv => LandsBetweenSlips
  BY DEF IInv
<1> QED
  BY Invariance, <1>1, PTL

\* slipcount_rev tells slipped addresses from usable ones.
THEOREM SlipcountRevFlags == Spec => []RevFlagsSlips
<1>1. IInv => RevFlagsSlips
  BY DEF IInv
<1> QED
  BY Invariance, <1>1, PTL

\* With lists in order no assertion of the searches ever fails.
THEOREM NoAbort ==
  ASSUME \A f \in Files : InOrder(f)
  PROVE  Spec => []NeverAborts
<1>1. IInv => NeverAborts
  BY DEF IInv, TypeInv, TypeOK
<1> QED
  BY Invariance, <1>1, PTL

\* The searches read inside the slip array and fail no assertion, for lists in
\* order of any length.
THEOREM SearchesStayInside ==
  ASSUME \A f \in Files : InOrder(f)
  PROVE  Spec => []StaysInside
<1>1. IInv => StaysInside
  BY DEF IInv, TypeInv, TypeOK, StaysInside
<1> QED
  BY Invariance, <1>1, PTL

\* Both searches answer as the list says, for lists and addresses of any size.
THEOREM SearchesAnswerRight == Spec => []AnswersRight
<1>1. IInv => AnswersRight
  BY DEF IInv, AnswersRight
<1> QED
  BY Invariance, <1>1, PTL

\* In a loaded list, an address that slipcount leads to lies after the entries that
\* slipcount counted, and slipcount_rev counts the same ones.
LEMMA CountsInvert ==
  ASSUME IInv, InOrder(file), pc # "load",
         NEW a \in Nat, NEW c \in Int, NEW r \in Int,
         ShiftsPast(a, c), TakesBack(a + c, r)
  PROVE  r = c
<1>2. /\ file.len \in Nat
      /\ slips_len \in {file.len, file.len + 1}
      /\ slips \in [0 .. file.len -> [off : Nat, count : Int]]
  BY FilesAssumption DEF IInv, TypeInv, TypeOK
<1>0. slips_len \in Nat
  BY <1>2
<1>1. \A e \in 0 .. slips_len - 1 : slips[e].off \in Nat /\ slips[e].count \in Int
  <2> SUFFICES ASSUME NEW e \in 0 .. slips_len - 1
               PROVE  slips[e] \in [off : Nat, count : Int]
    OBVIOUS
  <2>1. e \in 0 .. file.len
    BY <1>2
  <2> QED
    BY <1>2, <2>1
<1>3. /\ \A d, e \in 0 .. slips_len - 1 : d < e => slips[d].off + SlipLen(slips, d) <= slips[e].off
      /\ \A d, e \in 0 .. slips_len - 1 :
           d <= e => 0 <= slips[d].count /\ slips[d].count <= slips[e].count
  BY DEF IInv, Loaded
<1>4. \A e \in 0 .. slips_len - 1 : SlipLen(slips, e) \in Nat
  BY <1>0, <1>1, <1>3 DEF SlipLen
<1>5. PICK k \in 0 .. slips_len - 1 : c = slips[k].count /\ Between(a + c, k)
  BY DEF ShiftsPast
\* An entry that starts at or before the address does not come after one that the
\* address lies between.
<1>6. ASSUME NEW d \in 0 .. slips_len - 1, NEW e \in 0 .. slips_len - 1,
             Between(a + c, d), slips[e].off <= a + c
      PROVE  e <= d
  <2> SUFFICES ASSUME e > d PROVE FALSE
    BY <1>0
  <2>1. d + 1 \in 0 .. slips_len - 1 /\ a + c < slips[d + 1].off
    BY <1>0, <1>6 DEF Between
  <2>2. slips[d + 1].off <= slips[e].off
    BY <1>0, <1>1, <1>3, <1>4, <2>1
  <2> QED
    BY <1>1, <1>6, <2>1, <2>2
<1>7. ASSUME NEW d \in 0 .. slips_len - 1, Between(a + c, d) PROVE slips[d].off <= a + c
  BY <1>1, <1>4, <1>7 DEF Between
<1>8. CASE \E m \in 0 .. slips_len - 1 : r = slips[m].count /\ Between(a + c, m)
  <2>1. PICK m \in 0 .. slips_len - 1 : r = slips[m].count /\ Between(a + c, m)
    BY <1>8
  <2>2. m <= k /\ k <= m
    BY <1>5, <1>6, <1>7, <2>1
  <2> QED
    BY <1>0, <1>5, <2>1, <2>2
<1>9. CASE \E m \in 0 .. slips_len - 1 :
             slips[m].off <= a + c /\ a + c < slips[m].off + SlipLen(slips, m)
  <2>1. PICK m \in 0 .. slips_len - 1 :
          slips[m].off <= a + c /\ a + c < slips[m].off + SlipLen(slips, m)
    BY <1>9
  <2>2. m <= k
    BY <1>5, <1>6, <2>1
  <2>3. slips[k].off + SlipLen(slips, k) <= a + c
    BY <1>5 DEF Between
  <2>4. slips[m].off + SlipLen(slips, m) <= slips[k].off + SlipLen(slips, k)
    BY <1>0, <1>1, <1>3, <1>4, <2>2
  <2> QED
    BY <1>1, <1>4, <2>1, <2>3, <2>4
<1> QED
  BY <1>8, <1>9 DEF TakesBack

\* The two searches invert one another: what slipcount_rev takes off the layout
\* address that slipcount leads to is what slipcount added.
THEOREM SearchesInvert ==
  Spec => [](InOrder(file) /\ pc # "load" =>
               \A a \in Nat, c, r \in Int : ShiftsPast(a, c) /\ TakesBack(a + c, r) => r = c)
<1> DEFINE Invert ==
      InOrder(file) /\ pc # "load" =>
        \A a \in Nat, c, r \in Int : ShiftsPast(a, c) /\ TakesBack(a + c, r) => r = c
<1>1. IInv => Invert
  BY CountsInvert
<1> QED
  BY Invariance, <1>1, PTL

-----------------------------------------------------------------------------
(* The list that SlipOracle keeps *)

Slipped == Oracle!Slipped

Below(p) == { s \in Slipped : s < p }

\* The slipped addresses below p are counted by c.
Counts(p, c) == IsFiniteSet(Below(p)) /\ Cardinality(Below(p)) = c

\* Where entry k of the file ends, and entry k of the list.
FileEnd(k) == file.off[k] + file.n[k]
ListEnd(k) == slips[k].off + SlipLen(slips, k)

\* The count of an entry is the number of slipped addresses up to its end, and an
\* address is slipped if some entry skips it.
CountInv ==
  InOrder(file) =>
    /\ pc = "load" => \A k \in 0 .. j - 1 : Counts(FileEnd(k), slips[k].count)
    /\ pc # "load" =>
         /\ IsFiniteSet(Slipped)
         /\ \A k \in 0 .. slips_len - 1 : Counts(ListEnd(k), slips[k].count)
         /\ \A s \in Nat : s \in Slipped <=> \E k \in 0 .. slips_len - 1 : slips[k].off <= s /\ s < ListEnd(k)

-----------------------------------------------------------------------------
(* Slipped addresses *)

\* SlipOracle counts with an instance of its own of FiniteSets.
LEMMA SameCount == \A S : Oracle!Cardinality(S) = Cardinality(S)
  BY DEF Oracle!Cardinality, Cardinality

LEMMA SlippedBelowIs == \A p : Oracle!SlippedBelow(p) = Cardinality(Below(p))
  BY SameCount DEF Oracle!SlippedBelow, Below, Slipped

LEMMA FileFacts ==
  ASSUME file \in Files, InOrder(file)
  PROVE  /\ file.len \in Nat \ {0}
         /\ \A k \in 0 .. file.len - 1 : file.off[k] \in Nat /\ file.n[k] \in Nat /\ FileEnd(k) \in Nat
         /\ \A a, b \in 0 .. file.len - 1 : a < b => FileEnd(a) <= file.off[b]
<1>1. /\ file.len \in Nat
      /\ file.off \in [0 .. file.len - 1 -> Nat]
      /\ file.n \in [0 .. file.len - 1 -> Int]
  BY FilesAssumption
<1>2. \A k \in 0 .. file.len - 1 : file.off[k] \in Nat /\ file.n[k] \in Nat
  BY <1>1 DEF InOrder
<1> QED
  BY <1>1, <1>2 DEF InOrder, FileEnd

LEMMA SlippedOf ==
  ASSUME file \in Files, InOrder(file), NEW s
  PROVE  s \in Slipped <=> s \in Nat /\ \E k \in 0 .. file.len - 1 : file.off[k] <= s /\ s < FileEnd(k)
<1>1. s \in Slipped <=> \E k \in 0 .. file.len - 1 : s \in file.off[k] .. file.off[k] + file.n[k] - 1
  BY DEF Slipped, Oracle!Slipped
<1>2. ASSUME NEW k \in 0 .. file.len - 1
      PROVE  s \in file.off[k] .. file.off[k] + file.n[k] - 1 <=> s \in Nat /\ file.off[k] <= s /\ s < FileEnd(k)
  BY FileFacts DEF FileEnd
<1> QED
  BY <1>1, <1>2

\* An entry adds its own addresses to those of the entries before.
LEMMA EntryAdds ==
  ASSUME file \in Files, InOrder(file), NEW k \in 0 .. file.len - 1,
         NEW c \in Nat, k = 0 => c = 0, k > 0 => Counts(FileEnd(k - 1), c)
  PROVE  Counts(FileEnd(k), c + file.n[k])
<1> DEFINE before == IF k = 0 THEN {} ELSE Below(FileEnd(k - 1))
           own    == file.off[k] .. FileEnd(k) - 1
<1>1. IsFiniteSet(before) /\ Cardinality(before) = c
  BY FS_EmptySet DEF Counts
<1>2. IsFiniteSet(own) /\ Cardinality(own) = file.n[k]
  <2>1. file.off[k] \in Nat /\ file.n[k] \in Nat /\ FileEnd(k) = file.off[k] + file.n[k]
    BY FileFacts DEF FileEnd
  <2> DEFINE lo == file.off[k]
             hi == FileEnd(k) - 1
  <2>2. lo \in Int /\ hi \in Int
    BY <2>1
  <2> HIDE DEF lo, hi
  <2>3. IsFiniteSet(lo .. hi) /\ Cardinality(lo .. hi) = IF lo > hi THEN 0 ELSE hi - lo + 1
    BY <2>2, FS_Interval
  <2>4. Cardinality(lo .. hi) = file.n[k]
    BY <2>1, <2>3 DEF lo, hi
  <2> QED
    BY <2>3, <2>4 DEF lo, hi
<1>3. before \cap own = {}
  <2> SUFFICES ASSUME NEW s \in before, s \in own
               PROVE  FALSE
    OBVIOUS
  <2>1. k > 0 /\ s < FileEnd(k - 1) /\ s \in Nat
    BY SlippedOf DEF Below
  <2>2. FileEnd(k - 1) <= file.off[k] /\ FileEnd(k - 1) \in Nat /\ file.off[k] \in Nat
    BY <2>1, FileFacts
  <2> QED
    BY <2>1, <2>2, FileFacts
<1>4. Below(FileEnd(k)) = before \cup own
  <2>1. ASSUME NEW s \in Below(FileEnd(k)) PROVE s \in before \cup own
    <3>1. PICK m \in 0 .. file.len - 1 : s \in Nat /\ file.off[m] <= s /\ s < FileEnd(m)
      BY SlippedOf, <2>1 DEF Below
    <3>2. s \in Slipped /\ s < FileEnd(k)
      BY <2>1 DEF Below
    <3>3. CASE m = k
      BY <3>1, <3>3, FileFacts
    <3>4. CASE m > k
      BY <3>1, <3>2, <3>4, FileFacts
    <3>5. CASE m < k
      <4>1. k - 1 \in 0 .. file.len - 1 /\ k > 0
        BY <3>5, FileFacts
      <4>2. FileEnd(m) <= FileEnd(k - 1)
        <5>1. CASE m = k - 1
          BY <5>1, FileFacts, <4>1
        <5>2. CASE m # k - 1
          <6>1. FileEnd(m) <= file.off[k - 1]
            BY <5>2, <3>5, <4>1, FileFacts
          <6>2. file.off[k - 1] <= FileEnd(k - 1)
            BY <4>1, FileFacts DEF FileEnd
          <6> QED
            BY <6>1, <6>2, <4>1, FileFacts
        <5> QED
          BY <5>1, <5>2
      <4>3. s < FileEnd(k - 1)
        BY <3>1, <4>1, <4>2, FileFacts
      <4> QED
        BY <3>2, <4>1, <4>3 DEF Below
    <3> QED
      BY <3>3, <3>4, <3>5, FileFacts
  <2>2. ASSUME NEW s \in own PROVE s \in Below(FileEnd(k))
    <3>1. s \in Nat /\ file.off[k] <= s /\ s < FileEnd(k)
      BY <2>2, FileFacts
    <3> QED
      BY <3>1, SlippedOf DEF Below
  <2>3. ASSUME NEW s \in before PROVE s \in Below(FileEnd(k))
    <3>1. k > 0 /\ s \in Slipped /\ s < FileEnd(k - 1) /\ s \in Nat
      BY <2>3, SlippedOf DEF Below
    <3>2. FileEnd(k - 1) <= FileEnd(k)
      BY <3>1, FileFacts DEF FileEnd
    <3> QED
      BY <3>1, <3>2, FileFacts DEF Below
  <2> QED
    BY <2>1, <2>2, <2>3
<1> HIDE DEF before, own
<1>5. /\ IsFiniteSet(before \cup own)
      /\ Cardinality(before \cup own) = Cardinality(before) + Cardinality(own) - Cardinality(before \cap own)
  BY <1>1, <1>2, FS_Union
<1>6. Cardinality(before \cap own) = 0
  BY <1>3, FS_EmptySet
<1>7. file.n[k] \in Nat
  BY FileFacts
<1> QED
  BY <1>1, <1>2, <1>4, <1>5, <1>6, <1>7 DEF Counts

-----------------------------------------------------------------------------
(* The counts of the list *)

\* The entries of the array, once more as numbers.
LEMMA ListFacts ==
  ASSUME IInv, InOrder(file)
  PROVE  /\ file \in Files /\ slips_len \in Nat
         /\ j \in 0 .. file.len
         /\ \A k \in 0 .. file.len : slips[k].off \in Nat /\ slips[k].count \in Int
         /\ pc # "load" =>
              /\ slips_len > 0 /\ slips[0].off = 0
              /\ \A k \in 0 .. slips_len - 1 :
                   /\ slips[k].off \in Nat /\ slips[k].count \in Nat
                   /\ SlipLen(slips, k) \in Nat /\ ListEnd(k) \in Nat /\ slips[k].off <= ListEnd(k)
              /\ \A a, b \in 0 .. slips_len - 1 : a < b => ListEnd(a) <= slips[b].off
<1>1. /\ file \in Files /\ file.len \in Nat
      /\ slips_len \in {file.len, file.len + 1}
      /\ slips \in [0 .. file.len -> [off : Nat, count : Int]]
      /\ j \in 0 .. file.len
  BY FilesAssumption DEF IInv, TypeInv, TypeOK
<1>2. \A k \in 0 .. file.len : slips[k].off \in Nat /\ slips[k].count \in Int
  BY <1>1
<1>3. ASSUME pc # "load"
      PROVE  /\ slips_len > 0 /\ slips[0].off = 0
             /\ \A k \in 0 .. slips_len - 1 :
                  /\ slips[k].off \in Nat /\ slips[k].count \in Nat
                  /\ SlipLen(slips, k) \in Nat /\ ListEnd(k) \in Nat /\ slips[k].off <= ListEnd(k)
             /\ \A a, b \in 0 .. slips_len - 1 : a < b => ListEnd(a) <= slips[b].off
  <2>1. /\ slips_len > 0 /\ slips[0].off = 0
        /\ \A a, b \in 0 .. slips_len - 1 : a < b => slips[a].off + SlipLen(slips, a) <= slips[b].off
        /\ \A a, b \in 0 .. slips_len - 1 :
             a <= b => 0 <= slips[a].count /\ slips[a].count <= slips[b].count
    BY <1>3 DEF IInv, Loaded
  <2>2. \A k \in 0 .. slips_len - 1 : slips[k].off \in Nat /\ slips[k].count \in Nat
    BY <1>1, <1>2, <2>1
  <2>3. \A k \in 0 .. slips_len - 1 : SlipLen(slips, k) \in Nat
    BY <1>1, <2>1, <2>2 DEF SlipLen
  <2> QED
    BY <2>1, <2>2, <2>3 DEF ListEnd
<1> QED
  BY <1>1, <1>2, <1>3

\* Between two entries nothing is slipped, and as much below as the first counts.
LEMMA BetweenCounts ==
  ASSUME IInv, CountInv, InOrder(file), pc # "load",
         NEW k \in 0 .. slips_len - 1, NEW p \in Int, Between(p, k)
  PROVE  p \in Nat /\ p \notin Slipped /\ Counts(p, slips[k].count)
<1>1. /\ ListEnd(k) <= p
      /\ k + 1 < slips_len => p < slips[k + 1].off
  BY DEF Between, ListEnd
<1>2. p \in Nat
  BY <1>1, ListFacts
<1>3. ASSUME NEW s \in Nat, s \in Slipped, s <= p
      PROVE  s < ListEnd(k)
  <2>1. PICK m \in 0 .. slips_len - 1 : slips[m].off <= s /\ s < ListEnd(m)
    BY <1>3 DEF CountInv
  <2>2. CASE m > k
    <3>1. k + 1 \in 0 .. slips_len - 1 /\ p < slips[k + 1].off
      BY <1>1, <2>2, ListFacts
    <3>2. slips[k + 1].off <= slips[m].off
      <4>1. CASE m = k + 1
        BY <4>1, <3>1, ListFacts
      <4>2. CASE m # k + 1
        BY <2>2, <3>1, <4>2, ListFacts
      <4> QED
        BY <4>1, <4>2
    <3> QED
      BY <1>2, <1>3, <2>1, <3>1, <3>2, ListFacts
  <2>3. CASE m = k
    BY <2>1, <2>3
  <2>4. CASE m < k
    <3>1. ListEnd(m) <= slips[k].off /\ slips[k].off <= ListEnd(k)
      BY <2>4, ListFacts
    <3> QED
      BY <2>1, <3>1, ListFacts
  <2> QED
    BY <2>2, <2>3, <2>4, ListFacts
<1>4. p \notin Slipped
  BY <1>1, <1>2, <1>3, ListFacts
<1>5. Below(p) = Below(ListEnd(k))
  <2>1. \A s \in Slipped : s \in Nat
    BY SlippedOf, ListFacts
  <2> QED
    BY <1>1, <1>2, <1>3, <2>1, ListFacts DEF Below
<1>6. Counts(ListEnd(k), slips[k].count)
  BY DEF CountInv
<1> QED
  BY <1>2, <1>4, <1>5, <1>6 DEF Counts

\* Only one address is moved to by as much as is slipped below it.
LEMMA ShiftUnique ==
  ASSUME IInv, InOrder(file), pc # "load", NEW a \in Nat, NEW c \in Nat, NEW d \in Nat, c < d,
         a + c \notin Slipped, Counts(a + c, c), IsFiniteSet(Slipped)
  PROVE  Cardinality(Below(a + d)) # d
<1> DEFINE lo == a + c + 1
           hi == a + d - 1
           rest == lo .. hi
<1>1. lo \in Int /\ hi \in Int
  OBVIOUS
<1>2. Below(a + d) \subseteq Below(a + c) \cup rest
  <2> SUFFICES ASSUME NEW s \in Below(a + d), ~(s < a + c)
               PROVE  s \in rest
    BY DEF Below
  <2>1. s \in Slipped /\ s \in Nat /\ s < a + d
    BY SlippedOf, ListFacts DEF Below
  <2>2. s # a + c
    BY <2>1
  <2> QED
    BY <2>1, <2>2
<1>3. IsFiniteSet(rest) /\ Cardinality(rest) = d - c - 1
  <2> HIDE DEF lo, hi
  <2>1. IsFiniteSet(rest) /\ Cardinality(rest) = IF lo > hi THEN 0 ELSE hi - lo + 1
    BY <1>1, FS_Interval
  <2> HIDE DEF rest
  <2>2. Cardinality(rest) = d - c - 1
    BY <2>1 DEF lo, hi
  <2> QED
    BY <2>1, <2>2
<1>4. IsFiniteSet(Below(a + c)) /\ Cardinality(Below(a + c)) = c
  BY DEF Counts
<1> HIDE DEF rest
<1>5. /\ IsFiniteSet(Below(a + c) \cup rest)
      /\ Cardinality(Below(a + c) \cup rest) = Cardinality(Below(a + c)) + Cardinality(rest) - Cardinality(Below(a + c) \cap rest)
  BY <1>3, <1>4, FS_Union
<1>6. Cardinality(Below(a + c) \cap rest) \in Nat
  <2>1. IsFiniteSet(Below(a + c) \cap rest)
    BY <1>4, FS_Intersection
  <2> QED
    BY <2>1, FS_CardinalityType
<1>7. /\ IsFiniteSet(Below(a + d))
      /\ Cardinality(Below(a + d)) <= Cardinality(Below(a + c) \cup rest)
  BY <1>2, <1>5, FS_Subset
<1>8. Cardinality(Below(a + d)) \in Nat
  BY <1>7, FS_CardinalityType
<1> QED
  BY <1>3, <1>4, <1>5, <1>6, <1>7, <1>8

\* What slipcount returns is the shift of the oracle.
LEMMA ShiftIs ==
  ASSUME IInv, CountInv, InOrder(file), pc # "load", NEW a \in Nat, NEW c \in Int, ShiftsPast(a, c)
  PROVE  Oracle!Answer("slipcount", a) = c
<1>1. PICK k \in 0 .. slips_len - 1 : c = slips[k].count /\ Between(a + c, k)
  BY DEF ShiftsPast
<1>2. c \in Nat
  BY <1>1, ListFacts
<1>3. a + c \notin Slipped /\ Counts(a + c, c)
  BY <1>1, <1>2, BetweenCounts
<1>4. IsFiniteSet(Slipped) /\ Cardinality(Slipped) \in Nat
  BY FS_CardinalityType DEF CountInv
<1>5. c \in 0 .. Cardinality(Slipped)
  <2>1. Below(a + c) \in SUBSET Slipped /\ Cardinality(Below(a + c)) = c
    BY <1>3 DEF Below, Counts
  <2>2. Cardinality(Below(a + c)) <= Cardinality(Slipped)
    BY <1>4, <2>1, FS_Subset
  <2> QED
    BY <1>2, <1>4, <2>1, <2>2
<1>6. ASSUME NEW d \in 0 .. Cardinality(Slipped), a + d \notin Slipped, Oracle!SlippedBelow(a + d) = d
      PROVE  d = c
  <2>1. d \in Nat /\ Cardinality(Below(a + d)) = d
    BY <1>4, <1>6, SlippedBelowIs
  <2>2. IsFiniteSet(Below(a + d))
    <3>1. Below(a + d) \in SUBSET Slipped
      BY DEF Below
    <3> QED
      BY <1>4, <3>1, FS_Subset
  <2>3. ~(c < d)
    BY <1>2, <1>3, <1>4, <2>1, ShiftUnique
  <2>4. ~(d < c)
    <3>1. Counts(a + d, d)
      BY <2>1, <2>2 DEF Counts
    <3>2. Cardinality(Below(a + c)) = c
      BY <1>3 DEF Counts
    <3> QED
      BY <1>2, <1>4, <1>6, <2>1, <3>1, <3>2, ShiftUnique DEF Slipped
  <2> QED
    BY <1>2, <2>1, <2>3, <2>4
<1>7. a + c \notin Slipped /\ Oracle!SlippedBelow(a + c) = c
  BY <1>3, SlippedBelowIs DEF Counts
<1>8. Oracle!Shift(a) = c
  BY <1>5, <1>6, <1>7, SameCount DEF Oracle!Shift, Slipped
<1> QED
  BY <1>8 DEF Oracle!Answer

\* What slipcount_rev returns is the answer of the oracle.
LEMMA TakesBackIs ==
  ASSUME IInv, CountInv, InOrder(file), pc # "load", NEW p \in Nat, NEW r \in Int, TakesBack(p, r)
  PROVE  Oracle!Answer("slipcount_rev", p) = r
<1>1. CASE \E k \in 0 .. slips_len - 1 : r = slips[k].count /\ Between(p, k)
  <2>1. p \notin Slipped /\ Counts(p, r)
    BY <1>1, BetweenCounts
  <2>2. Oracle!SlippedBelow(p) = r
    BY <2>1, SlippedBelowIs DEF Counts
  <2> QED
    BY <2>1, <2>2 DEF Oracle!Answer, Slipped
<1>2. CASE r = -1 /\ \E k \in 0 .. slips_len - 1 : slips[k].off <= p /\ p < slips[k].off + SlipLen(slips, k)
  <2>1. p \in Slipped
    BY <1>2 DEF CountInv, ListEnd
  <2> QED
    BY <1>2, <2>1 DEF Oracle!Answer, Slipped
<1> QED
  BY <1>1, <1>2 DEF TakesBack

-----------------------------------------------------------------------------
(* The invariant *)

LEMMA LoadEntryCounts ==
  ASSUME IInv, CountInv, LoadEntry, InOrder(file)
  PROVE  CountInv'
<1>1. /\ pc = "load" /\ pc' = "load" /\ file' = file /\ j' = j + 1
      /\ j \in 0 .. file.len - 1 /\ file \in Files /\ tot \in Int
  <2>1. j \in 0 .. file.len - 1 /\ tot \in Int
    BY ListFacts, FileFacts DEF LoadEntry, IInv, TypeInv, TypeOK
  <2> QED
    BY <2>1, ListFacts DEF LoadEntry
<1>2. /\ slips'[j] = [off |-> file.off[j], count |-> tot + file.n[j]]
      /\ \A k \in 0 .. j - 1 : slips'[k] = slips[k]
  <2>1. slips' = [slips EXCEPT ![j] = [off |-> file.off[j], count |-> tot']] /\ tot' = tot + file.n[j]
    BY DEF LoadEntry
  <2>2. DOMAIN slips = 0 .. file.len /\ file.len \in Nat
    BY FilesAssumption DEF IInv, TypeInv, TypeOK
  <2> QED
    BY <1>1, <2>1, <2>2
<1>3. /\ tot = IF j = 0 THEN 0 ELSE slips[j - 1].count
      /\ \A a, b \in 0 .. j - 1 : a <= b => 0 <= slips[a].count /\ slips[a].count <= slips[b].count
  BY <1>1 DEF IInv, LoadedPrefix
<1>4. \A k \in 0 .. j - 1 : Counts(FileEnd(k), slips[k].count)
  BY <1>1 DEF CountInv
<1>5. tot \in Nat
  <2>1. j > 0 => j - 1 \in 0 .. j - 1
    BY <1>1, FileFacts
  <2> QED
    BY <1>1, <1>3, <2>1
<1>6. Counts(FileEnd(j), tot + file.n[j])
  <2>1. j > 0 => Counts(FileEnd(j - 1), tot)
    BY <1>1, <1>3, <1>4, FileFacts
  <2>2. j = 0 => tot = 0
    BY <1>3
  <2> QED
    BY <1>1, <1>5, <2>1, <2>2, EntryAdds
<1>7. \A k \in 0 .. j : Counts(FileEnd(k), slips'[k].count)
  <2> SUFFICES ASSUME NEW k \in 0 .. j PROVE Counts(FileEnd(k), slips'[k].count)
    OBVIOUS
  <2>1. CASE k = j
    BY <1>2, <1>6, <2>1
  <2>2. CASE k # j
    <3>1. k \in 0 .. j - 1
      BY <1>1, <2>2
    <3> QED
      BY <1>2, <1>4, <3>1
  <2> QED
    BY <2>1, <2>2
<1>8. \A p, c : Counts(p, c)' <=> Counts(p, c)
  BY <1>1 DEF Counts, Below, Slipped, Oracle!Slipped
<1>9. \A k : FileEnd(k)' = FileEnd(k)
  BY <1>1 DEF FileEnd
<1>10. (\A k \in 0 .. j - 1 : Counts(FileEnd(k), slips[k].count))'
  <2> SUFFICES ASSUME NEW k \in 0 .. j PROVE Counts(FileEnd(k), slips'[k].count)
    BY <1>1 DEF Counts, Below, Slipped, Oracle!Slipped, FileEnd
  <2> QED
    BY <1>7
<1> QED
  BY <1>1, <1>10 DEF CountInv

\* With or without the zero entry, the finished array has the file's entries.
LEMMA ListFinishedCounts ==
  ASSUME IInv, CountInv, IInv', AddZeroEntry \/ NoZeroEntry, InOrder(file)
  PROVE  CountInv'
<1>1. /\ pc = "load" /\ pc' = "idle" /\ file' = file /\ j = file.len /\ slips_len = file.len
      /\ file \in Files
  BY ListFacts DEF AddZeroEntry, NoZeroEntry, IInv, TypeInv, CallInv, loadVars
<1>2. \A k \in 0 .. file.len - 1 :
        /\ slips[k].off = file.off[k] /\ SlipLen(slips, k) = file.n[k]
        /\ ListEnd(k) = FileEnd(k) /\ Counts(FileEnd(k), slips[k].count)
        /\ slips[k].count \in Int
  <2>1. \A k \in 0 .. file.len - 1 : slips[k].off = file.off[k] /\ SlipLen(slips, k) = file.n[k]
    BY <1>1 DEF IInv, LoadedPrefix
  <2>2. \A k \in 0 .. file.len - 1 : Counts(FileEnd(k), slips[k].count)
    BY <1>1 DEF CountInv
  <2> QED
    BY <1>1, <2>1, <2>2, ListFacts, FileFacts DEF ListEnd, FileEnd
<1>3. PICK z \in {0, 1} :
        /\ slips_len' = file.len + z
        /\ \A k \in 0 .. file.len - 1 : slips'[k + z] = slips[k]
        /\ \A k \in 0 .. file.len - 1 : k > 0 => slips'[k + z - 1] = slips[k - 1]
        /\ z = 1 => slips'[0] = Zero
  <2>1. CASE AddZeroEntry
    <3>1. /\ slips_len' = file.len + 1
          /\ slips' = [k \in 0 .. file.len |-> IF k = 0 THEN Zero ELSE slips[k - 1]]
      BY <1>1, <2>1 DEF AddZeroEntry
    <3>2. \A k \in 0 .. file.len - 1 : slips'[k + 1] = slips[k]
      BY <1>1, <3>1, FileFacts
    <3>3. \A k \in 0 .. file.len - 1 : k > 0 => slips'[k + 1 - 1] = slips[k - 1]
      BY <1>1, <3>1, FileFacts
    <3>4. slips'[0] = Zero
      BY <1>1, <3>1, FileFacts
    <3> QED
      BY <3>1, <3>2, <3>3, <3>4
  <2>2. CASE NoZeroEntry
    <3>1. slips_len' = file.len + 0 /\ slips' = slips
      BY <1>1, <2>2, FileFacts DEF NoZeroEntry, loadVars
    <3>2. \A k \in 0 .. file.len - 1 : k + 0 = k /\ k + 0 - 1 = k - 1
      BY <1>1, FileFacts
    <3> QED
      BY <3>1, <3>2
  <2> QED
    BY <2>1, <2>2
<1>4. \A k \in 0 .. file.len - 1 :
        SlipLen(slips', k + z) = SlipLen(slips, k)
  <2> SUFFICES ASSUME NEW k \in 0 .. file.len - 1
               PROVE  SlipLen(slips', k + z) = SlipLen(slips, k)
    OBVIOUS
  <2>1. CASE k = 0 /\ z = 0
    BY <1>3, <2>1 DEF SlipLen
  <2>2. CASE k = 0 /\ z = 1
    BY <1>2, <1>3, <2>2 DEF SlipLen, Zero
  <2>3. CASE k # 0
    <3>1. k > 0 /\ k + z # 0
      BY <1>1, <2>3, FileFacts
    <3> QED
      BY <1>3, <2>3, <3>1 DEF SlipLen
  <2> QED
    BY <2>1, <2>2, <2>3
<1>5. \A k \in 0 .. file.len - 1 :
        slips'[k + z].off = file.off[k] /\ ListEnd(k + z)' = FileEnd(k)
  BY <1>2, <1>3, <1>4 DEF ListEnd, FileEnd
<1>6. z = 1 => slips'[0].off = 0 /\ slips'[0].count = 0 /\ ListEnd(0)' = 0
  BY <1>3 DEF ListEnd, SlipLen, Zero
<1>7. \A p, c : Counts(p, c)' <=> Counts(p, c)
  BY <1>1 DEF Counts, Below, Slipped, Oracle!Slipped
<1>8. Slipped' = Slipped
  BY <1>1 DEF Slipped, Oracle!Slipped
<1>9. \A k \in 0 .. slips_len' - 1 : (z = 1 /\ k = 0) \/ (k - z \in 0 .. file.len - 1 /\ (k - z) + z = k)
  BY <1>1, <1>3, FileFacts
<1>10. IsFiniteSet(Slipped)
  <2>1. file.len - 1 \in 0 .. file.len - 1
    BY <1>1, FileFacts
  <2>2. Slipped = Below(FileEnd(file.len - 1))
    <3> SUFFICES ASSUME NEW s \in Slipped PROVE s < FileEnd(file.len - 1)
      BY DEF Below
    <3>1. PICK k \in 0 .. file.len - 1 : s \in Nat /\ file.off[k] <= s /\ s < FileEnd(k)
      BY <1>1, SlippedOf
    <3>2. FileEnd(k) <= FileEnd(file.len - 1)
      <4>1. CASE k = file.len - 1
        BY <1>1, <2>1, <4>1, FileFacts
      <4>2. CASE k # file.len - 1
        <5>1. FileEnd(k) <= file.off[file.len - 1]
          BY <1>1, <2>1, <4>2, FileFacts
        <5>2. file.off[file.len - 1] <= FileEnd(file.len - 1)
          BY <1>1, <2>1, FileFacts DEF FileEnd
        <5> QED
          BY <1>1, <2>1, <5>1, <5>2, FileFacts
      <4> QED
        BY <4>1, <4>2
    <3> QED
      BY <1>1, <2>1, <3>1, <3>2, FileFacts
  <2> QED
    BY <1>2, <2>1, <2>2 DEF Counts
<1>11. ASSUME NEW k \in 0 .. slips_len' - 1
       PROVE  (Counts(ListEnd(k), slips[k].count))'
  <2>1. CASE z = 1 /\ k = 0
    <3>1. Below(0) = {}
      BY <1>1, SlippedOf DEF Below
    <3>2. Counts(0, 0)
      BY <3>1, FS_EmptySet DEF Counts
    <3> QED
      BY <1>6, <2>1, <3>2, <1>1 DEF Counts, Below, Slipped, Oracle!Slipped
  <2>2. CASE k - z \in 0 .. file.len - 1 /\ (k - z) + z = k
    <3>1. Counts(FileEnd(k - z), slips[k - z].count)
      BY <1>2, <2>2
    <3>2. ListEnd(k)' = FileEnd(k - z) /\ slips'[k] = slips[k - z]
      BY <1>3, <1>5, <2>2
    <3> QED
      BY <3>1, <3>2, <1>1 DEF Counts, Below, Slipped, Oracle!Slipped
  <2> QED
    BY <1>9, <2>1, <2>2
<1>12. ASSUME NEW s \in Nat
       PROVE  s \in Slipped <=> \E k \in 0 .. slips_len' - 1 : slips'[k].off <= s /\ s < ListEnd(k)'
  <2>1. ASSUME NEW k \in 0 .. file.len - 1, file.off[k] <= s, s < FileEnd(k)
        PROVE  k + z \in 0 .. slips_len' - 1 /\ slips'[k + z].off <= s /\ s < ListEnd(k + z)'
    BY <1>1, <1>3, <1>5, <2>1, FileFacts
  <2>2. ASSUME NEW k \in 0 .. slips_len' - 1, slips'[k].off <= s, s < ListEnd(k)'
        PROVE  \E m \in 0 .. file.len - 1 : file.off[m] <= s /\ s < FileEnd(m)
    <3>1. ~(z = 1 /\ k = 0)
      BY <1>6, <2>2
    <3>2. k - z \in 0 .. file.len - 1 /\ (k - z) + z = k
      BY <1>9, <3>1
    <3> QED
      BY <1>5, <2>2, <3>2
  <2>3. s \in Slipped <=> \E m \in 0 .. file.len - 1 : file.off[m] <= s /\ s < FileEnd(m)
    BY <1>1, SlippedOf
  <2> QED
    BY <2>1, <2>2, <2>3
<1> QED
  BY <1>1, <1>8, <1>10, <1>11, <1>12 DEF CountInv

LEMMA NextCounts == IInv /\ CountInv /\ IInv' /\ [Next]_vars => CountInv'
<1> SUFFICES ASSUME IInv, CountInv, IInv', [Next]_vars, InOrder(file)'
             PROVE  CountInv'
  BY DEF CountInv
<1>1. file' = file
  BY DEF Next, Step, LoadEntry, AddZeroEntry, NoZeroEntry, Bisect, Halve, Middle, BinsReturn,
         Walk, WalkReturn, RevReturn, Ask, vars, loadVars
<1>2. InOrder(file)
  BY <1>1 DEF InOrder
<1>3. CASE LoadEntry
  BY <1>2, <1>3, LoadEntryCounts
<1>4. CASE AddZeroEntry \/ NoZeroEntry
  BY <1>2, <1>4, ListFinishedCounts
<1>5. ASSUME UNCHANGED loadVars, pc' = "load" <=> pc = "load"
      PROVE  CountInv'
  <2>1. file' = file /\ slips' = slips /\ slips_len' = slips_len /\ j' = j
    BY <1>5 DEF loadVars
  <2>2. Slipped' = Slipped
    BY <2>1 DEF Slipped, Oracle!Slipped
  <2>3. (pc = "load" => \A k \in 0 .. j - 1 : Counts(FileEnd(k), slips[k].count))'
    BY <1>2, <1>5, <2>1, <2>2 DEF CountInv, Counts, Below, FileEnd
  <2>4. (pc # "load" => IsFiniteSet(Slipped) /\ \A k \in 0 .. slips_len - 1 : Counts(ListEnd(k), slips[k].count))'
    BY <1>2, <1>5, <2>1, <2>2 DEF CountInv, Counts, Below, ListEnd, SlipLen
  <2>5. (pc # "load" =>
          \A s \in Nat : s \in Slipped <=> \E k \in 0 .. slips_len - 1 : slips[k].off <= s /\ s < ListEnd(k))'
    BY <1>2, <1>5, <2>1, <2>2 DEF CountInv, ListEnd, SlipLen
  <2> QED
    BY <2>3, <2>4, <2>5 DEF CountInv
<1>6. CASE ~LoadEntry /\ ~AddZeroEntry /\ ~NoZeroEntry
  <2>1. CallInv
    BY DEF IInv, TypeInv
  <2>2. UNCHANGED loadVars /\ (pc' = "load" <=> pc = "load")
    BY <1>6, <2>1 DEF Next, Step, Bisect, Halve, Middle, BinsReturn, Walk, WalkReturn, RevReturn, Ask, vars,
                      CallInv, Ops
  <2> QED
    BY <1>5, <2>2
<1> QED
  BY <1>3, <1>4, <1>6

-----------------------------------------------------------------------------
(* The refinement *)

LEMMA CountInvariance == Spec => [](IInv /\ CountInv)
<1>1. Init => CountInv
  BY FilesAssumption DEF Init, CountInv
<1>2. IInv /\ CountInv /\ IInv' /\ [Next]_vars => CountInv'
  BY NextCounts
<1> QED
  BY <1>1, <1>2, Invariance, PTL DEF Spec

\* Lists in order that leave sector 0 usable.
Usable(f) == InOrder(f) /\ (f.off[0] > 0 \/ f.n[0] = 0)

Serving == IF pc \in {"bins"} \cup Ops THEN <<op, addr>> ELSE <<>>

LEMMA InitRefines == Init => Oracle!Init
  BY DEF Init, Oracle!Init, Ops

\* Loading and the steps of a search are stutters; a return answers.
LEMMA NextRefines ==
  ASSUME IInv, CountInv, IInv', Usable(file), [Next]_vars
  PROVE  [Oracle!Next]_(Oracle!oracleVars)
<1> USE DEF Ops
<1>1. InOrder(file) /\ CallInv /\ TypeOK /\ pc # "aborted"
  BY DEF IInv, TypeInv, Usable, NeverAborts
<1>2. ASSUME file' = file, ret' = ret, Serving' = Serving
      PROVE  [Oracle!Next]_(Oracle!oracleVars)
  BY <1>2 DEF Oracle!oracleVars, Serving
<1>3. CASE LoadEntry \/ AddZeroEntry \/ NoZeroEntry
  BY <1>2, <1>3 DEF LoadEntry, AddZeroEntry, NoZeroEntry, loadVars, queryVars, Serving
<1>4. CASE Bisect
  BY <1>2, <1>4 DEF Bisect, Halve, loadVars, Serving
<1>5. CASE Walk
  BY <1>2, <1>5 DEF Walk, loadVars, Serving
<1>6. CASE BinsReturn
  <2>1. pc' # "aborted"
    <3>1. NeverAborts'
      BY <1>1, <1>6 DEF IInv, InOrder, BinsReturn, loadVars
    <3> QED
      BY <3>1 DEF NeverAborts
  <2>2. pc = "bins" /\ pc' = op /\ op \in Ops
    BY <1>1, <1>6, <2>1 DEF BinsReturn, CallInv
  <2> QED
    BY <1>2, <1>6, <2>2 DEF BinsReturn, loadVars, Serving
<1>7. ASSUME NEW o \in Ops, NEW a \in Addrs, Ask(o, a)
      PROVE  [Oracle!Next]_(Oracle!oracleVars)
  <2>1. Serving = <<>> /\ Serving' = <<o, a>> /\ file' = file /\ ret' = ret
    BY <1>7 DEF Ask, loadVars, Serving
  <2>2. Oracle!Call(o, a)
    BY <2>1 DEF Oracle!Call, Serving
  <2> QED
    BY <2>2 DEF Oracle!Next
<1>8. ASSUME NEW o \in Ops, pc = o, pc' = "idle", file' = file, ret' = Oracle!Answer(op, addr)
      PROVE  [Oracle!Next]_(Oracle!oracleVars)
  <2>1. op = o /\ Serving = <<op, addr>> /\ Serving' = <<>>
    BY <1>1, <1>8 DEF CallInv, Serving
  <2>2. Serving # <<>> /\ Serving[1] = op /\ Serving[2] = addr
    BY <2>1
  <2>3. Oracle!Return
    BY <1>8, <2>1, <2>2 DEF Oracle!Return, Serving
  <2> QED
    BY <2>3 DEF Oracle!Next
<1>9. CASE WalkReturn
  <2>1. /\ pc = "slipcount" /\ pc' = "idle" /\ op = "slipcount" /\ op' = op /\ addr' = addr
        /\ file' = file /\ slips' = slips /\ slips_len' = slips_len
    BY <1>1, <1>9 DEF WalkReturn, loadVars, CallInv
  <2>2. LandsBetweenSlips' /\ addr \in Nat /\ ret' \in Int
    BY <2>1, <1>1 DEF IInv, TypeInv, TypeOK
  <2>3. ShiftsPast(addr, ret')
    BY <1>1, <2>1, <2>2 DEF LandsBetweenSlips, ShiftsPast, Between, SlipLen, InOrder
  <2>4. Oracle!Answer("slipcount", addr) = ret'
    BY <1>1, <2>1, <2>2, <2>3, ShiftIs
  <2> QED
    BY <1>8, <2>1, <2>4
<1>10. CASE RevReturn
  <2>1. /\ pc = "slipcount_rev" /\ pc' = "idle" /\ op = "slipcount_rev" /\ op' = op /\ addr' = addr
        /\ file' = file /\ slips' = slips /\ slips_len' = slips_len
    BY <1>1, <1>10 DEF RevReturn, loadVars, CallInv
  <2>2. RevFlagsSlips' /\ addr \in Nat /\ ret' \in Int
    BY <2>1, <1>1 DEF IInv, TypeInv, TypeOK
  <2>3. TakesBack(addr, ret')
    BY <1>1, <2>1, <2>2 DEF RevFlagsSlips, TakesBack, Between, SlipLen, InOrder, Usable
  <2>4. Oracle!Answer("slipcount_rev", addr) = ret'
    BY <1>1, <2>1, <2>2, <2>3, TakesBackIs
  <2> QED
    BY <1>8, <2>1, <2>4
<1>11. CASE UNCHANGED vars
  BY <1>2, <1>11 DEF vars, loadVars, queryVars, Serving
<1> QED
  BY <1>3, <1>4, <1>5, <1>6, <1>7, <1>9, <1>10, <1>11 DEF Next, Step

\* For slip lists of any length that are in order and leave sector 0 usable, array and
\* searches do what the set of slipped addresses does; that calls are answered at all
\* is left to EveryCallReturns (layout_g4.c:80-182, layout_g4_load.c:417-444).
THEOREM SearchesRefineOracle ==
  ASSUME \A f \in Files : Usable(f)
  PROVE  Spec => Oracle!Init /\ [][Oracle!Next]_(Oracle!oracleVars)
<1>1. IInv /\ CountInv /\ (IInv /\ CountInv)' /\ [Next]_vars => [Oracle!Next]_(Oracle!oracleVars)
  <2>1. IInv => Usable(file)
    BY DEF IInv, TypeInv, TypeOK
  <2> QED
    BY <2>1, NextRefines
<1> QED
  BY <1>1, InitRefines, CountInvariance, PTL DEF Spec

-----------------------------------------------------------------------------
(* The searches in one step *)

\* Of some numbers one is the least.
LEMMA LeastOf ==
  ASSUME NEW T, T \subseteq Nat, T # {}
  PROVE  \E m \in T : \A k \in T : m <= k
<1> DEFINE R == OpToRel(<, Nat)
<1>1. IsWellFoundedOn(R, Nat)
  BY NatLessThanWellFounded, Zenon
<1>2. ASSUME NEW a \in Nat, NEW b \in Nat, a < b PROVE <<a, b>> \in R
  BY <1>2, Zenon DEF OpToRel
<1> HIDE DEF R
<1>3. PICK m \in T : \A k \in T : ~(<<k, m>> \in R)
  BY <1>1, WFMin, Zenon
<1>4. ASSUME NEW k \in T PROVE m <= k
  <2>1. m \in Nat /\ k \in Nat
    OBVIOUS
  <2>2. ~(k < m)
    BY <1>2, <1>3, <2>1
  <2> QED
    BY <2>1, <2>2
<1> QED
  BY <1>3, <1>4

\* The bounds that slipcount_bins may be given for n entries, and those at most w apart.
Intervals(n) == { q \in (0 .. n) \X (0 .. n) : q[1] <= q[2] }
Within(n, w) == { p \in Intervals(n) : p[2] - p[1] <= w }

MidOf(p) == p[1] + ((p[2] - p[1]) \div 2)

\* One level of slipcount_bins, with f for what the next one returns.
Level(s, a, f, p) ==
  IF p[2] \in {p[1], p[1] + 1} THEN p[1]
  ELSE IF s[MidOf(p) + 1].off > a THEN f[<<p[1], MidOf(p)>>] ELSE f[<<MidOf(p), p[2]>>]

\* The next level's bounds are closer together.
LEMMA LevelNarrows ==
  ASSUME NEW n \in Nat, NEW w \in Nat, NEW p \in Within(n, w), p[2] \notin {p[1], p[1] + 1}
  PROVE  /\ w > 0
         /\ <<p[1], MidOf(p)>> \in Within(n, w - 1)
         /\ <<MidOf(p), p[2]>> \in Within(n, w - 1)
<1> DEFINE m == MidOf(p)
<1>1. p[1] \in 0 .. n /\ p[2] \in 0 .. n /\ p[1] <= p[2] /\ p[2] - p[1] <= w
  BY DEF Within, Intervals
<1>2. m \in Nat /\ p[1] < m /\ m < p[2]
  <2>1. p[1] \in Nat /\ p[2] \in Nat /\ p[1] <= p[2] /\ p[2] # p[1] /\ p[2] # p[1] + 1
    BY <1>1
  <2> HIDE DEF m
  <2>2. m = p[1] + ((p[2] - p[1]) \div 2)
    BY DEF m, MidOf
  <2> QED
    BY <2>1, <2>2, Midpoint
<1> HIDE DEF m
<1>3. w > 0 /\ m \in 0 .. n /\ m - p[1] <= w - 1 /\ p[2] - m <= w - 1
  BY <1>1, <1>2
<1>4. <<p[1], m>> \in Within(n, w - 1) /\ <<m, p[2]>> \in Within(n, w - 1)
  BY <1>1, <1>2, <1>3 DEF Within, Intervals
<1> QED
  BY <1>3, <1>4 DEF m

\* slipcount_bins returns from bounds any distance apart.
LEMMA LevelsEnd ==
  ASSUME NEW s, NEW a, NEW n \in Nat, NEW w \in Nat
  PROVE  \E f : f = [p \in Within(n, w) |-> Level(s, a, f, p)]
<1> DEFINE Ends(v) == \E f : f = [p \in Within(n, v) |-> Level(s, a, f, p)]
           T == { v \in Nat : ~Ends(v) }
<1>1. Ends(0)
  <2> DEFINE f == [p \in Within(n, 0) |-> p[1]]
  <2>1. \A p \in Within(n, 0) : Level(s, a, f, p) = p[1]
    <3> SUFFICES ASSUME NEW p \in Within(n, 0) PROVE p[2] \in {p[1], p[1] + 1}
      BY DEF Level
    <3>1. p[1] \in Nat /\ p[2] \in Nat /\ p[1] <= p[2] /\ p[2] - p[1] <= 0
      BY DEF Within, Intervals
    <3> QED
      BY <3>1
  <2>2. f = [p \in Within(n, 0) |-> Level(s, a, f, p)]
    BY <2>1
  <2> QED
    BY <2>2
<1>2. ASSUME NEW v \in Nat, Ends(v) PROVE Ends(v + 1)
  <2>1. PICK f : f = [p \in Within(n, v) |-> Level(s, a, f, p)]
    BY <1>2
  <2> DEFINE g == [p \in Within(n, v + 1) |-> Level(s, a, f, p)]
  <2>2. \A p \in Within(n, v) : p \in Within(n, v + 1) /\ g[p] = f[p]
    <3> SUFFICES ASSUME NEW p \in Within(n, v) PROVE p \in Within(n, v + 1) /\ g[p] = f[p]
      OBVIOUS
    <3>1. p \in Within(n, v + 1)
      BY DEF Within, Intervals
    <3>2. f[p] = Level(s, a, f, p)
      BY <2>1
    <3> QED
      BY <3>1, <3>2
  <2> HIDE DEF g
  <2>3. \A p \in Within(n, v + 1) : Level(s, a, g, p) = Level(s, a, f, p)
    <3> SUFFICES ASSUME NEW p \in Within(n, v + 1) PROVE Level(s, a, g, p) = Level(s, a, f, p)
      OBVIOUS
    <3>1. CASE p[2] \in {p[1], p[1] + 1}
      BY <3>1 DEF Level
    <3>2. CASE p[2] \notin {p[1], p[1] + 1}
      <4>1. <<p[1], MidOf(p)>> \in Within(n, v) /\ <<MidOf(p), p[2]>> \in Within(n, v)
        <5>1. v + 1 \in Nat /\ (v + 1) - 1 = v
          OBVIOUS
        <5> QED
          BY <3>2, <5>1, LevelNarrows
      <4> QED
        BY <2>2, <4>1 DEF Level
    <3> QED
      BY <3>1, <3>2
  <2>4. g = [p \in Within(n, v + 1) |-> Level(s, a, g, p)]
    BY <2>3 DEF g
  <2> QED
    BY <2>4
<1> HIDE DEF Ends
<1>3. T = {}
  <2> SUFFICES ASSUME T # {} PROVE FALSE
    OBVIOUS
  <2>1. PICK m \in T : \A k \in T : m <= k
    BY LeastOf
  <2>2. m \in Nat /\ m # 0
    BY <1>1
  <2>3. m - 1 \in Nat /\ m - 1 \notin T /\ (m - 1) + 1 = m
    BY <2>1, <2>2
  <2>4. Ends(m)
    BY <1>2, <2>3
  <2> QED
    BY <2>4
<1>4. Ends(w)
  BY <1>3
<1> QED
  BY <1>4 DEF Ends

\* slipcount_bins of bounds is one level of it.
LEMMA BinsLevel ==
  ASSUME NEW s, NEW a, Len(s) \in Nat, NEW p \in Intervals(Len(s))
  PROVE  Search!Bins(s, a)[p] = Level(s, a, Search!Bins(s, a), p)
<1> DEFINE n == Len(s)
<1>1. Intervals(n) = Within(n, n)
  BY DEF Intervals, Within
<1>2. \E f : f = [q \in Intervals(n) |-> Level(s, a, f, q)]
  <2>1. \E f : f = [q \in Within(n, n) |-> Level(s, a, f, q)]
    BY LevelsEnd
  <2> QED
    BY <1>1, <2>1
<1>3. Search!Bins(s, a) = CHOOSE f : f = [q \in Intervals(n) |-> Level(s, a, f, q)]
  BY DEF Search!Bins, Intervals, Level, MidOf
<1> DEFINE b == Search!Bins(s, a)
<1>4. b = [q \in Intervals(n) |-> Level(s, a, b, q)]
  BY <1>2, <1>3
<1> HIDE DEF b
<1>5. b[p] = Level(s, a, b, p)
  BY <1>4
<1> QED
  BY <1>5 DEF b

\* The entry a search starts at, the address moved by the entry before k, and whether
\* entry k lies beyond it: what slipcount reads, in positions of Listed.
First == Search!BinsOf(Listed, addr)
MovedTo(k) == IF k = First THEN addr ELSE addr + Listed[k - 1].count
Beyond(k) == k > Len(Listed) \/ Listed[k].off > MovedTo(k)

\* A search stands where the one-step reading leads to the same answer: the bounds
\* left to bisect end where the whole list does, and the walk has passed no entry
\* that the reading would have stopped at.
SearchInv ==
  /\ pc = "bins" =>
       Search!Bins(Listed, addr)[<<low, high>>] = Search!Bins(Listed, addr)[<<0, slips_len>>]
  /\ pc = "slipcount_rev" => i + 1 = First
  /\ pc = "slipcount" =>
       /\ First \in 1 .. i + 1
       /\ ct = Search!CountWalked(Listed, First, i + 1)
       /\ l2 = MovedTo(i + 1)
       /\ \A k \in First .. i : ~Beyond(k)
  /\ SearchAgrees

\* Where the indices may stand, and what is read there.
LEMMA IndexFacts ==
  ASSUME TypeInv
  PROVE  /\ slips_len \in Nat
         /\ low \in Nat /\ high \in Nat /\ low <= high /\ high <= slips_len
         /\ i \in Nat /\ i <= slips_len
         /\ addr \in Nat /\ l2 \in Int
         /\ \A k \in 0 .. slips_len - 1 : slips[k] \in [off : Nat, count : Int]
<1>1. file.len \in Nat
  BY FilesAssumption DEF TypeInv, TypeOK
<1>2. slips_len \in Nat /\ slips_len - 1 <= file.len
  BY <1>1 DEF TypeInv, TypeOK
<1>3. \A k \in 0 .. slips_len - 1 : slips[k] \in [off : Nat, count : Int]
  BY <1>1, <1>2 DEF TypeInv, TypeOK
<1>4. low \in Nat /\ high \in Nat /\ low <= high /\ high <= slips_len
  BY <1>2 DEF TypeInv, TypeOK
<1>5. i \in Nat /\ i <= slips_len /\ addr \in Nat /\ l2 \in Int
  BY <1>2 DEF TypeInv, TypeOK
<1> QED
  BY <1>2, <1>3, <1>4, <1>5

LEMMA ListedFacts ==
  ASSUME TypeInv
  PROVE  /\ slips_len \in Nat
         /\ Len(Listed) = slips_len
         /\ \A k \in 1 .. slips_len : Listed[k] = slips[k - 1]
<1>1. slips_len \in Nat
  BY IndexFacts
<1> DEFINE S == { slips[k - 1] : k \in 1 .. slips_len }
<1>2. Listed \in Seq(S) /\ DOMAIN Listed = 1 .. slips_len
  <2>1. \A k \in 1 .. slips_len : slips[k - 1] \in S
    OBVIOUS
  <2> HIDE DEF S
  <2> QED
    BY <1>1, <2>1 DEF Listed
<1> HIDE DEF S
<1>3. Len(Listed) = slips_len
  BY <1>1, <1>2
<1> QED
  BY <1>1, <1>3 DEF Listed

\* The walk of slipcount stops where the one-step reading says.
LEMMA StopsHere ==
  ASSUME TypeInv, NEW k \in First .. Len(Listed) + 1, First \in Nat, Beyond(k),
         \A m \in First .. k - 1 : ~Beyond(m)
  PROVE  Search!StopsAt(Listed, addr, First) = k
<1> DEFINE Is(n) == Beyond(n) /\ \A m \in First .. n - 1 : ~Beyond(m)
<1>1. Search!StopsAt(Listed, addr, First) = CHOOSE n \in First .. Len(Listed) + 1 : Is(n)
  BY DEF Search!StopsAt, Beyond, MovedTo
<1>2. Len(Listed) \in Nat
  BY ListedFacts
<1>3. ASSUME NEW n \in First .. Len(Listed) + 1, Is(n)
      PROVE  n = k
  <2>1. ~(k \in First .. n - 1) /\ ~(n \in First .. k - 1)
    BY <1>3
  <2>2. k \in Nat /\ n \in Nat /\ First <= k /\ First <= n
    BY <1>2
  <2> HIDE DEF Is
  <2> QED
    BY <2>1, <2>2
<1>4. Is(k)
  OBVIOUS
<1> HIDE DEF Is
<1>5. \E n \in First .. Len(Listed) + 1 : Is(n)
  BY <1>4
<1> QED
  BY <1>1, <1>3, <1>5

LEMMA NextSearches ==
  ASSUME TypeInv, TypeInv', SearchInv, [Next]_vars
  PROVE  SearchInv'
<1> USE DEF Ops
<1>0. /\ slips_len \in Nat /\ Len(Listed) = slips_len
      /\ \A k \in 1 .. slips_len : Listed[k] = slips[k - 1]
  BY ListedFacts
<1>1. CASE LoadEntry \/ AddZeroEntry \/ NoZeroEntry
  <2>1. pc' \in {"load", "idle"} /\ op' = "none"
    BY <1>1 DEF TypeInv, CallInv, LoadEntry, AddZeroEntry, NoZeroEntry, loadVars, queryVars
  <2> QED
    BY <2>1 DEF SearchInv, SearchAgrees
<1>2. ASSUME UNCHANGED <<slips, slips_len, addr>>
      PROVE  /\ Listed' = Listed /\ First' = First
             /\ \A k : MovedTo(k)' = MovedTo(k) /\ Beyond(k)' = Beyond(k)
  <2>1. Listed' = Listed
    BY <1>2 DEF Listed
  <2> QED
    BY <1>2, <2>1 DEF First, MovedTo, Beyond
<1>3. ASSUME NEW o \in Ops, NEW a \in Addrs, Ask(o, a)
      PROVE  SearchInv'
  <2>1. pc' = "bins" /\ low' = 0 /\ high' = slips_len /\ slips_len' = slips_len
    BY <1>3 DEF Ask, loadVars
  <2> QED
    BY <2>1 DEF SearchInv, SearchAgrees
<1>4. CASE Bisect
  <2>1. /\ pc = "bins" /\ pc' = "bins" /\ high \notin {low, low + 1} /\ slips_len' = slips_len
        /\ UNCHANGED <<slips, slips_len, addr>>
        /\ IF slips[Middle].off <= addr THEN low' = Middle /\ high' = high
           ELSE high' = Middle /\ low' = low
    BY <1>4 DEF Bisect, Halve, loadVars
  <2> DEFINE b == Search!Bins(Listed, addr)
  <2>2. <<low, high>> \in Intervals(slips_len) /\ low \in Nat /\ high \in Nat /\ high <= slips_len
    BY IndexFacts DEF Intervals
  <2>3. b[<<low, high>>] = Level(Listed, addr, b, <<low, high>>)
    BY <1>0, <2>2, BinsLevel
  <2>4. MidOf(<<low, high>>) = Middle
    BY DEF MidOf, Middle
  <2>5. Middle \in Nat /\ low < Middle /\ Middle < high
    <3>1. low <= high /\ high # low /\ high # low + 1
      BY <2>1, <2>2 DEF Intervals
    <3>2. low + ((high - low) \div 2) \in Nat /\ low < low + ((high - low) \div 2)
          /\ low + ((high - low) \div 2) < high
      BY <2>2, <3>1, Midpoint
    <3> QED
      BY <3>2 DEF Middle
  <2>6. Listed[Middle + 1] = slips[Middle] /\ slips[Middle].off \in Nat
    <3>1. Middle + 1 \in 1 .. slips_len /\ (Middle + 1) - 1 = Middle
      BY <1>0, <2>2, <2>5
    <3>2. Middle \in 0 .. slips_len - 1
      BY <1>0, <2>2, <2>5
    <3>3. slips[Middle] \in [off : Nat, count : Int]
      BY <3>2, IndexFacts
    <3> QED
      BY <1>0, <3>1, <3>3
  <2>7. addr \in Nat
    BY DEF TypeInv, TypeOK
  <2>8. b[<<low, high>>] = IF slips[Middle].off > addr THEN b[<<low, Middle>>] ELSE b[<<Middle, high>>]
    BY <2>1, <2>3, <2>4, <2>6 DEF Level
  <2>9. b[<<low', high'>>] = b[<<low, high>>]
    <3>1. CASE slips[Middle].off <= addr
      BY <2>1, <2>6, <2>7, <2>8, <3>1
    <3>2. CASE ~(slips[Middle].off <= addr)
      BY <2>1, <2>6, <2>7, <2>8, <3>2
    <3> QED
      BY <3>1, <3>2
  <2>10. b[<<low, high>>] = b[<<0, slips_len>>]
    BY <2>1 DEF SearchInv
  <2> QED
    BY <1>2, <2>1, <2>9, <2>10 DEF SearchInv, SearchAgrees
<1>5. CASE BinsReturn
  <2>1. /\ pc = "bins" /\ high \in {low, low + 1} /\ i' = low /\ pc' \in {op, "aborted"}
        /\ op \in Ops
        /\ UNCHANGED <<slips, slips_len, addr>>
        /\ pc' # "aborted" => low < slips_len /\ ct' = slips[low].count /\ l2' = addr
    BY <1>5 DEF BinsReturn, loadVars, TypeInv, CallInv
  <2> DEFINE b == Search!Bins(Listed, addr)
  <2>2. <<low, high>> \in Intervals(slips_len) /\ low \in Nat
    BY IndexFacts DEF Intervals
  <2>3. b[<<low, high>>] = Level(Listed, addr, b, <<low, high>>)
    BY <1>0, <2>2, BinsLevel
  <2>4. b[<<0, slips_len>>] = low
    BY <2>1, <2>3 DEF Level, SearchInv
  <2>5. First = low + 1
    BY <1>0, <2>4 DEF First, Search!BinsOf
  <2>6. First' = low' + 1 /\ low' = low
    BY <1>2, <1>5, <2>1, <2>5 DEF BinsReturn
  <2>7. CASE pc' = "slipcount"
    <3>1. Listed[low + 1] = slips[low]
      <4>1. low + 1 \in 1 .. slips_len /\ (low + 1) - 1 = low
        BY <1>0, <2>1, <2>2, <2>7
      <4> QED
        BY <1>0, <4>1
    <3>2. First \in 1 .. i' + 1 /\ i' + 1 = First
      BY <2>1, <2>2, <2>5
    <3>3. ct' = Search!CountWalked(Listed, First, i' + 1)
      BY <2>1, <2>5, <2>7, <3>1, <3>2 DEF Search!CountWalked
    <3>4. l2' = MovedTo(i' + 1)
      BY <2>1, <2>7, <3>2 DEF MovedTo
    <3>5. First .. i' = {}
      BY <2>1, <2>2, <2>5
    <3> QED
      BY <1>2, <2>1, <2>7, <3>2, <3>3, <3>4, <3>5 DEF SearchInv, SearchAgrees
  <2>8. CASE pc' # "slipcount"
    BY <1>2, <2>1, <2>5, <2>8 DEF SearchInv, SearchAgrees
  <2> QED
    BY <2>7, <2>8
<1>6. CASE Walk
  <2>1. /\ pc = "slipcount" /\ pc' = "slipcount" /\ i < slips_len /\ slips[i].off <= l2
        /\ ct' = slips[i].count /\ l2' = addr + slips[i].count /\ i' = i + 1
        /\ UNCHANGED <<slips, slips_len, addr>>
    BY <1>6 DEF Walk, CanWalk, loadVars
  <2>2. i \in Nat /\ l2 \in Int /\ slips[i].off \in Nat
    <3>1. i \in 0 .. slips_len - 1
      BY <2>1, IndexFacts
    <3>2. slips[i] \in [off : Nat, count : Int]
      BY <3>1, IndexFacts
    <3> QED
      BY <3>2, IndexFacts
  <2>3. Listed[i + 1] = slips[i]
    <3>1. i + 1 \in 1 .. slips_len /\ (i + 1) - 1 = i
      BY <1>0, <2>1, <2>2
    <3> QED
      BY <1>0, <3>1
  <2>4. /\ First \in 1 .. i + 1 /\ l2 = MovedTo(i + 1)
        /\ \A k \in First .. i : ~Beyond(k)
    BY <2>1 DEF SearchInv
  <2>5. ~Beyond(i + 1)
    BY <1>0, <2>1, <2>2, <2>3, <2>4 DEF Beyond
  <2>6. /\ First \in 1 .. i' + 1 /\ i' + 1 # First /\ (i' + 1) - 1 = i + 1
    BY <2>1, <2>2, <2>4
  <2>7. ct' = Search!CountWalked(Listed, First, i' + 1) /\ l2' = MovedTo(i' + 1)
    BY <2>1, <2>3, <2>6 DEF Search!CountWalked, MovedTo
  <2>8. \A k \in First .. i' : ~Beyond(k)
    <3> SUFFICES ASSUME NEW k \in First .. i' PROVE ~Beyond(k)
      OBVIOUS
    <3>1. CASE k = i + 1
      BY <2>5, <3>1
    <3>2. CASE k # i + 1
      <4>1. k \in First .. i
        BY <2>1, <2>2, <2>4, <3>2
      <4> QED
        BY <2>4, <4>1
    <3> QED
      BY <3>1, <3>2
  <2> QED
    BY <1>2, <2>1, <2>6, <2>7, <2>8 DEF SearchInv, SearchAgrees
<1>7. CASE WalkReturn
  <2>1. /\ pc = "slipcount" /\ pc' = "idle" /\ ret' = ct /\ op' = op /\ op = "slipcount"
        /\ UNCHANGED <<slips, slips_len, addr>>
        /\ ~(i < slips_len /\ slips[i].off <= l2)
    BY <1>7 DEF WalkReturn, CanWalk, loadVars, TypeInv, CallInv
  <2>2. i \in Nat /\ l2 \in Int /\ i <= slips_len
    BY IndexFacts
  <2>3. /\ First \in 1 .. i + 1 /\ l2 = MovedTo(i + 1)
        /\ ct = Search!CountWalked(Listed, First, i + 1)
        /\ \A k \in First .. i : ~Beyond(k)
    BY <2>1 DEF SearchInv
  <2>4. Beyond(i + 1)
    <3>1. CASE i >= slips_len
      BY <1>0, <2>2, <3>1 DEF Beyond
    <3>2. CASE i < slips_len
      <4>1. i + 1 \in 1 .. slips_len /\ (i + 1) - 1 = i
        BY <1>0, <2>2, <3>2
      <4>2. i \in 0 .. slips_len - 1
        BY <1>0, <2>2, <3>2
      <4>3. slips[i] \in [off : Nat, count : Int]
        BY <4>2, IndexFacts
      <4>4. Listed[i + 1].off > MovedTo(i + 1)
        BY <1>0, <2>1, <2>2, <2>3, <3>2, <4>1, <4>3
      <4> QED
        BY <4>4 DEF Beyond
    <3> QED
      BY <1>0, <2>2, <3>1, <3>2
  <2>5. Search!StopsAt(Listed, addr, First) = i + 1
    <3>1. First \in Nat /\ i + 1 \in First .. Len(Listed) + 1 /\ (i + 1) - 1 = i
      BY <1>0, <2>2, <2>3
    <3> QED
      BY <2>3, <2>4, <3>1, StopsHere
  <2>6. Search!slipcount(Listed, addr) = ct
    BY <2>3, <2>5 DEF Search!slipcount, Search!WalkFrom, First
  <2> QED
    BY <1>2, <2>1, <2>6 DEF SearchInv, SearchAgrees
<1>8. CASE RevReturn
  <2>1. /\ pc = "slipcount_rev" /\ pc' = "idle" /\ op' = op /\ op = "slipcount_rev"
        /\ ret' = IF CoincidesWithSlip THEN -1 ELSE slips[i].count
        /\ UNCHANGED <<slips, slips_len, addr>>
        /\ i < slips_len /\ i \in Nat
    BY <1>0, <1>8 DEF RevReturn, loadVars, TypeInv, CallInv, TypeOK
  <2>2. First = i + 1
    BY <2>1 DEF SearchInv
  <2>3. Listed[i + 1] = slips[i] /\ (i > 0 => Listed[(i + 1) - 1] = slips[i - 1])
    <3>1. i + 1 \in 1 .. slips_len /\ (i + 1) - 1 = i /\ (i > 0 => i \in 1 .. slips_len)
      BY <1>0, <2>1
    <3> QED
      BY <1>0, <3>1
  <2>4. i > 0 <=> i + 1 > 1
    BY <2>1
  <2>5. Search!slipcount_rev(Listed, addr) = ret'
    <3>1. Search!slipcount_rev(Listed, addr) = Search!CountOrSlipped(Listed, addr, i + 1)
      BY <2>2 DEF Search!slipcount_rev, First
    <3> QED
      BY <2>1, <2>3, <2>4, <3>1 DEF Search!CountOrSlipped, CoincidesWithSlip
  <2> QED
    BY <1>2, <2>1, <2>5 DEF SearchInv, SearchAgrees
<1>9. CASE UNCHANGED vars
  <2>1. UNCHANGED <<slips, slips_len, addr, pc, op, low, high, i, ct, l2, ret>>
    BY <1>9 DEF vars, loadVars, queryVars
  <2> QED
    BY <1>2, <2>1 DEF SearchInv, SearchAgrees
<1> QED
  BY <1>1, <1>3, <1>4, <1>5, <1>6, <1>7, <1>8, <1>9 DEF Next, Step

\* For lists of any length, in order or not, the one-step reading of slipcount and
\* slipcount_rev returns what their loops return (layout_g4.c:107-182).
THEOREM SearchesAgree == Spec => []SearchAgrees
<1>1. Init => TypeInv /\ SearchInv
  BY InitType DEF Init, SearchInv, SearchAgrees, Ops
<1>2. (TypeInv /\ SearchInv) /\ [Next]_vars => (TypeInv /\ SearchInv)'
  BY NextType, NextSearches
<1>3. SearchInv => SearchAgrees
  BY DEF SearchInv
<1> QED
  BY <1>1, <1>2, <1>3, PTL DEF Spec
=============================================================================

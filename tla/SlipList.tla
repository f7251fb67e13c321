------------------------------ MODULE SlipList ------------------------------
(***************************************************************************)
(* The slip list of a G4 layout: how g4_load_slips builds it from the      *)
(* Slips parameter, and how slipcount and slipcount_rev search it.         *)
(*                                                                         *)
(* A disk's addressing has two spaces.  Logical block numbers count the    *)
(* usable sectors; the layout tree counts every sector.  A slip (off, n)   *)
(* says that the n layout addresses from off are skipped.  slipcount gives *)
(* what to add to an LBN to reach its layout address; slipcount_rev gives  *)
(* what to subtract from a layout address to get back, or -1 when the      *)
(* address is itself a slipped sector.                                     *)
(*                                                                         *)
(* Arrays keep the C indices, from 0.  One action is one loop iteration or *)
(* one level of a recursion.                                               *)
(***************************************************************************)
EXTENDS Integers

CONSTANTS Files,   \* the Slips lists a layout file may hold
          Addrs    \* the addresses slipcount and slipcount_rev are asked about

ASSUME FilesAssumption ==
  \A f \in Files : /\ f.len \in Nat
                   /\ f.off \in [0 .. f.len - 1 -> Nat]
                   /\ f.n   \in [0 .. f.len - 1 -> Int]

ASSUME AddrsAssumption == Addrs \subseteq Nat

VARIABLES file,      \* the Slips list being loaded
          slips,     \* l->slips: the array, one element longer than the list
          slips_len, \* l->slips_len
          tot, j,    \* g4_load_slips: running total and loop index
          pc,        \* where the caller is; it never leaves "aborted"
          op, addr,  \* the call being served and its address argument
          low, high, \* slipcount_bins
          i, ct, l2, \* slipcount
          ret        \* the last value returned

loadVars  == <<file, slips, slips_len, tot, j>>
queryVars == <<op, addr, low, high, i, ct, l2, ret>>
vars      == <<loadVars, pc, queryVars>>

Ops  == {"slipcount", "slipcount_rev"}
Zero == [off |-> 0, count |-> 0]

Init ==
  /\ file \in Files
  /\ slips = [k \in 0 .. file.len |-> Zero]      \* calloc of len + 1 entries
  /\ slips_len = file.len
  /\ tot = 0
  /\ j = 0
  /\ pc = "load"
  /\ op = "none"
  /\ addr = 0
  /\ low = 0
  /\ high = 0
  /\ i = 0
  /\ ct = 0
  /\ l2 = 0
  /\ ret = 0

-----------------------------------------------------------------------------
(* g4_load_slips *)

\* Faulty variant: the count is the entry's own.
LoadEntryNotCumulative ==
  /\ pc = "load"
  /\ j < file.len
  /\ tot' = tot + file.n[j]
  /\ slips' = [slips EXCEPT ![j] = [off |-> file.off[j], count |-> file.n[j]]]
  /\ j' = j + 1
  /\ UNCHANGED <<file, slips_len, pc, queryVars>>

\* One iteration of the loading loop: counts become cumulative.
LoadEntry ==
  /\ pc = "load"
  /\ j < file.len
  /\ tot' = tot + file.n[j]
  /\ slips' = [slips EXCEPT ![j] = [off |-> file.off[j], count |-> tot']]
  /\ j' = j + 1
  /\ UNCHANGED <<file, slips_len, pc, queryVars>>

\* After the loop: the list gets a leading (0, 0) unless it starts at 0.  With
\* an empty list slips[0] is the spare element, whose off is 0.
AddZeroEntry ==
  /\ pc = "load"
  /\ j = file.len
  /\ slips[0].off > 0
  /\ slips' = [k \in 0 .. file.len |-> IF k = 0 THEN Zero ELSE slips[k - 1]]
  /\ slips_len' = slips_len + 1
  /\ pc' = "idle"
  /\ UNCHANGED <<file, tot, j, queryVars>>

NoZeroEntry ==
  /\ pc = "load"
  /\ j = file.len
  /\ slips[0].off <= 0
  /\ pc' = "idle"
  /\ UNCHANGED <<loadVars, queryVars>>

-----------------------------------------------------------------------------
(* slipcount and slipcount_rev *)

\* The searches' local variables go out of scope with the call.
FreeLocals ==
  /\ low' = 0
  /\ high' = 0
  /\ i' = 0
  /\ ct' = 0
  /\ l2' = 0

Ask(o, a) ==
  /\ pc = "idle"
  /\ op' = o
  /\ addr' = a
  /\ low' = 0
  /\ high' = slips_len
  /\ pc' = "bins"
  /\ UNCHANGED <<loadVars, i, ct, l2, ret>>

\* slipcount_bins, the recursive case, for a midpoint.
Halve(mid, right, next) ==
  /\ pc = "bins"
  /\ high \notin {low, low + 1}
  /\ IF right THEN low' = next /\ high' = high ELSE high' = mid /\ low' = low
  /\ UNCHANGED <<loadVars, pc, op, addr, i, ct, l2, ret>>

Middle == low + ((high - low) \div 2)

\* Faulty variants: the entry at the midpoint is dropped, and the midpoint is
\* taken from 0.
BisectPast     == Halve(Middle, slips[Middle].off <= addr, Middle + 1)
BisectFromZero == LET mid == (high - low) \div 2 IN Halve(mid, slips[mid].off <= addr, mid)

Bisect == Halve(Middle, slips[Middle].off <= addr, Middle)

\* slipcount_bins returns low; its caller asserts that low is an index.
BinsReturn ==
  /\ pc = "bins"
  /\ high \in {low, low + 1}
  /\ i' = low
  /\ IF low < slips_len
     THEN /\ ct' = slips[low].count
          /\ l2' = addr
          /\ pc' = op
     ELSE /\ pc' = "aborted"
          /\ UNCHANGED <<ct, l2>>
  /\ UNCHANGED <<loadVars, op, addr, low, high, ret>>

CanWalk == i < slips_len /\ slips[i].off <= l2

\* Faulty variant: the address is not moved.
WalkUnmoved ==
  /\ pc = "slipcount"
  /\ CanWalk
  /\ ct' = slips[i].count
  /\ l2' = addr
  /\ i' = i + 1
  /\ UNCHANGED <<loadVars, pc, op, addr, low, high, ret>>

Walk ==
  /\ pc = "slipcount"
  /\ CanWalk
  /\ ct' = slips[i].count
  /\ l2' = addr + ct'
  /\ i' = i + 1
  /\ UNCHANGED <<loadVars, pc, op, addr, low, high, ret>>

WalkReturn ==
  /\ pc = "slipcount"
  /\ ~CanWalk
  /\ ret' = ct
  /\ pc' = "idle"
  /\ FreeLocals
  /\ UNCHANGED <<loadVars, op, addr>>

\* Faulty variant: the running total is taken for the slip's length.
CoincidesByTotal == slips[i].off <= addr /\ i > 0 /\ addr < slips[i].off + slips[i].count

\* addr lies in the slip at index i, which is never looked for at index 0.
CoincidesWithSlip ==
  /\ slips[i].off <= addr
  /\ i > 0
  /\ addr < slips[i].off + (slips[i].count - slips[i - 1].count)

RevReturn ==
  /\ pc = "slipcount_rev"
  /\ ret' = IF CoincidesWithSlip THEN -1 ELSE slips[i].count
  /\ pc' = "idle"
  /\ FreeLocals
  /\ UNCHANGED <<loadVars, op, addr>>

Step == \/ LoadEntry \/ AddZeroEntry \/ NoZeroEntry
        \/ Bisect \/ BinsReturn \/ Walk \/ WalkReturn \/ RevReturn

Next == Step \/ \E o \in Ops, a \in Addrs : Ask(o, a)

Spec == Init /\ [][Next]_vars

\* A call that has started runs on; nobody has to make one.
FairSpec == Spec /\ WF_vars(Step)

-----------------------------------------------------------------------------
(* Properties *)

\* A list in layout order whose slips do not overlap, as the layout tools write
\* them.  (0, 0), which several shipped layouts hold, is allowed.
InOrder(f) ==
  /\ f.len > 0
  /\ \A k \in 0 .. f.len - 1 : f.n[k] >= 0
  /\ \A a, b \in 0 .. f.len - 1 : a < b => f.off[a] + f.n[a] <= f.off[b]

\* The number of sectors that entry k of a loaded list s skips.
SlipLen(s, k) == s[k].count - (IF k = 0 THEN 0 ELSE s[k - 1].count)

\* Layout address p is usable and comes after entry k of the list and before
\* entry k + 1.
Between(p, k) ==
  /\ slips[k].off + SlipLen(slips, k) <= p
  /\ k + 1 < slips_len => p < slips[k + 1].off

\* Every variable has the type its declaration in layout_g4.c gives it, and
\* every index used to read slips[] is inside the allocated array.
TypeOK ==
  /\ file \in Files
  /\ slips \in [0 .. file.len -> [off : Nat, count : Int]]
  /\ slips_len \in {file.len, file.len + 1}
  /\ tot \in Int
  /\ j \in 0 .. file.len
  /\ pc \in {"load", "idle", "bins", "aborted"} \cup Ops
  /\ op \in {"none"} \cup Ops
  /\ addr \in Nat
  /\ low \in 0 .. slips_len
  /\ high \in low .. slips_len
  /\ i \in 0 .. slips_len
  /\ ct \in Int
  /\ l2 \in Int
  /\ ret \in Int

\* slipcount_bins keeps the address bracketed: everything before low starts at
\* or below it and everything from high on starts above it, which is what makes
\* the early exits of the recursion safe.
Bracketed ==
  InOrder(file) /\ pc = "bins" =>
    /\ \A k \in 0 .. low : slips[k].off <= addr
    /\ \A k \in high .. slips_len - 1 : slips[k].off > addr

\* The comment above slipcount_bins asks whether it "returns the highest entry
\* in the slip list <= lbn": it does.
HighestEntry ==
  InOrder(file) /\ pc = "slipcount_rev" =>
    /\ slips[i].off <= addr
    /\ \A k \in i + 1 .. slips_len - 1 : slips[k].off > addr

\* c takes LBN a past the slips before it and no further.
ShiftsPast(a, c) ==
  \E k \in 0 .. slips_len - 1 : c = slips[k].count /\ Between(a + c, k)

\* r is -1 on a slipped address p, and the count of the slips before it elsewhere.
TakesBack(p, r) ==
  \/ \E k \in 0 .. slips_len - 1 : r = slips[k].count /\ Between(p, k)
  \/ /\ r = -1
     /\ \E k \in 0 .. slips_len - 1 :
          slips[k].off <= p /\ p < slips[k].off + SlipLen(slips, k)

\* slipcount never lands on a slipped sector: adding what it returns to an LBN
\* gives a layout address past the slips it counted and before the next one.
LandsBetweenSlips ==
  InOrder(file) /\ pc = "idle" /\ op = "slipcount" => ShiftsPast(addr, ret)

\* slipcount_rev answers -1 exactly on slipped sectors and otherwise the count
\* of the slips before the address, provided the first sector is not slipped.
RevFlagsSlips ==
  InOrder(file) /\ (file.off[0] > 0 \/ file.n[0] = 0)
  /\ pc = "idle" /\ op = "slipcount_rev" => TakesBack(addr, ret)

\* The assertion i < l->slips_len of slipcount and slipcount_rev
\* (layout_g4.c:143 and 166).
NeverAborts == pc # "aborted"

\* slipcount_bins, slipcount and slipcount_rev read the slip array inside its
\* bounds, whatever they are asked, and the assertion on the index found holds.
StaysInside == TypeOK /\ NeverAborts

\* Both searches answer as the list says: slipcount moves every LBN past the slips
\* before it and no further, slipcount_rev flags exactly the slipped addresses.
AnswersRight == LandsBetweenSlips /\ RevFlagsSlips

\* The one-step reading of the searches, on which G4Map is built, returns what the
\* searches return, whether or not the list is in order.
Search == INSTANCE SlipSearch
Listed == [k \in 1 .. slips_len |-> slips[k - 1]]

SearchAgrees ==
  pc = "idle" /\ op \in Ops =>
    ret = IF op = "slipcount" THEN Search!slipcount(Listed, addr)
          ELSE Search!slipcount_rev(Listed, addr)

\* What the list is for: calls about a set of skipped addresses, one at a time.
Oracle == INSTANCE SlipOracle
            WITH call <- IF pc \in {"bins"} \cup Ops THEN <<op, addr>> ELSE <<>>,
                 ans <- ret

\* The searches implement the abstract slip list.
ImplementsOracle == Oracle!Spec

\* Every call returns: the bisection and the walk end.
EveryCallReturns == [](pc \in {"bins"} \cup Ops => <>(pc = "idle"))
=============================================================================

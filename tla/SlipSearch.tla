----------------------------- MODULE SlipSearch -----------------------------
(***************************************************************************)
(* What the searches of a loaded slip list return, in one step: slipcount  *)
(* and slipcount_rev of a G4 layout as operators.  SlipList has the same   *)
(* searches one iteration at a time; its property SearchAgrees says that   *)
(* the two agree.  Here the list s is a sequence, so C index k is          *)
(* s[k + 1].                                                               *)
(***************************************************************************)
EXTENDS Integers, Sequences

\* slipcount_bins(l, a, low, high) for every pair it may be called with.
Bins(s, a) ==
  LET bins[p \in { q \in (0 .. Len(s)) \X (0 .. Len(s)) : q[1] <= q[2] }] ==
        LET low  == p[1]
            high == p[2]
            mid  == low + ((high - low) \div 2)
        IN  IF high \in {low, low + 1} THEN low
            ELSE IF s[mid + 1].off > a THEN bins[<<low, mid>>] ELSE bins[<<mid, high>>]
  IN  bins

\* slipcount_bins(l, a, 0, l->slips_len), as a position of s.
BinsOf(s, a) == Bins(s, a)[<<0, Len(s)>>] + 1

\* The walk starts at the entry slipcount_bins finds and stops at the first
\* entry beyond the address moved by the count of the entry before.
StopsAt(s, a, first) ==
  LET l2(i)     == IF i = first THEN a ELSE a + s[i - 1].count
      Beyond(i) == i > Len(s) \/ s[i].off > l2(i)
  IN  CHOOSE i \in first .. Len(s) + 1 : Beyond(i) /\ \A k \in first .. i - 1 : ~Beyond(k)

CountWalked(s, first, stop) ==
  IF stop = first THEN s[first].count ELSE s[stop - 1].count

WalkFrom(s, a, first) == CountWalked(s, first, StopsAt(s, a, first))

slipcount(s, a) == WalkFrom(s, a, BinsOf(s, a))

CountOrSlipped(s, a, i) ==
  IF /\ s[i].off <= a
     /\ i > 1
     /\ a < s[i].off + (s[i].count - s[i - 1].count)
  THEN -1
  ELSE s[i].count

slipcount_rev(s, a) == CountOrSlipped(s, a, BinsOf(s, a))
=============================================================================

------------------------------ MODULE G1Disks -------------------------------
(***************************************************************************)
(* Small G1 disks for model checking, and where their LBNs should be.      *)
(*                                                                         *)
(* Two heads and four cylinders.  Band 0 has cylinders 0 and 1 with three  *)
(* sectors per track, band 1 has cylinder 3 with two; cylinder 2 belongs   *)
(* to no band, as between the zones of the shipped disks.  With a circle   *)
(* of 26, tracks of band 0 have an angle of 2 left after their last sector *)
(* and skews of whole sectors, and tracks of band 1 have none left and a   *)
(* skew of a part of a sector.                                             *)
(***************************************************************************)
EXTENDS G1Map
LOCAL INSTANCE FiniteSets
LOCAL INSTANCE SequencesExt

Band(low, high, spt) ==
  [low |-> low, high |-> high, spt |-> spt, dead |-> 0, spares |-> 0,
   slips |-> <<>>, defects |-> <<>>, remaps |-> <<>>,
   angle |-> 0, trackskew |-> Circle \div spt, cylskew |-> 2 * (Circle \div spt),
   blks |-> 0, first |-> 0]

Disk(scheme, mapping, range, band) ==
  [heads |-> 2, cyls |-> 4, scheme |-> scheme, mapping |-> mapping, range |-> range,
   bands |-> <<band, [Band(3, 3, 2) EXCEPT !.trackskew = 5]>>]

Spared(scheme) ==
  CASE scheme \in {NO_SPARING, SECTATEND_SPARING} -> 0
    [] scheme \in {TRACK_SPARING, SECTPERCYL_SPARING, SECTPERRANGE_SPARING,
                   SECTSPERZONE_SPARING, SECTSPERZONE_SPARING_SLIPTOEND} -> 2
    [] OTHER -> 1

\* Band 0 of a disk: its slips, and its defects with their spares.
First(scheme, dead, slips, pairs) ==
  [Band(0, 1, 3) EXCEPT !.spares = Spared(scheme), !.dead = dead, !.slips = slips,
                        !.defects = [i \in DOMAIN pairs |-> pairs[i][1]],
                        !.remaps = [i \in DOMAIN pairs |-> pairs[i][2]]]

Mapped(scheme, range, dead, slips, pairs) ==
  { Disk(scheme, mapping, range, First(scheme, dead, slips, pairs)) : mapping \in {0, 1} }

Made(scheme, ranges, deads, lists, replaced) ==
  UNION { Mapped(scheme, range, dead, slips, pairs) :
          range \in ranges, dead \in deads, slips \in lists, pairs \in replaced }

\* Nothing replaced, or sector (or track) x replaced by spare y.
NoneOr(x, y) == { <<>>, <<<<x, y>>>> }

\* A slip in the middle of a track, two across the end of a track, and two across
\* the end of a cylinder.
SomeSlips == { <<>>, <<1>>, <<2, 3>>, <<5, 6>> }

\* Disks whose tables the code reads as they are meant.  Slips under
\* SECTPERTRACK_SPARING are the first sectors of cylinders or spares.
MeantDisks ==
  Made(TRACK_SPARING, {1}, {0, 2}, { <<>>, <<1>> }, NoneOr(1, 3))
    \cup Made(TRACK_SPARING, {1}, {0, 2}, { <<0, 1>>, <<0, 2>> }, {<<>>})
    \cup Made(SECTPERCYL_SPARING, {1}, {0, 2}, {<<>>}, NoneOr(2, 4))
    \cup Made(SECTPERTRACK_SPARING, {1}, {0, 2}, { <<>>, <<5, 6>> }, NoneOr(4, 2))
    \cup Made(SECTPERTRACK_SPARING, {1}, {0}, {<<0>>}, {<<>>})
    \cup Made(SECTPERCYL_SPARING_SLIPTOEND, {1}, {0, 2}, { <<>>, <<1>>, <<2, 3>> }, {<<>>})
    \cup Made(SECTPERCYL_SPARING_SLIPTOEND, {1}, {0, 2}, { <<>>, <<1>> }, {<<<<4, 5>>>>})
    \cup Made(SECTATEND_SPARING, {1}, {0, 2}, SomeSlips, {<<>>})
    \cup Made(SECTPERRANGE_SPARING, {1, 2}, {0, 2}, SomeSlips, {<<>>})
    \cup Made(SECTPERRANGE_SPARING, {2}, {0, 2}, { <<>>, <<1>> }, {<<<<4, 11>>>>})
    \cup Made(SECTSPERZONE_SPARING, {1}, {0}, SomeSlips, {<<>>})
    \cup Made(SECTSPERZONE_SPARING, {1}, {0}, { <<>>, <<1>> }, {<<<<4, 11>>>>})
    \cup Made(SECTSPERZONE_SPARING_SLIPTOEND, {1}, {0}, SomeSlips, NoneOr(4, 11))

\* Disks that cannot be loaded: no scheme, and too few spare tracks.
RefusedDisks ==
  Made(NO_SPARING, {1}, {0}, {<<>>}, {<<>>})
    \cup Made(TRACK_SPARING, {1}, {0}, {<<0, 1>>}, {<<<<2, 3>>>>})

\* Two slips on a track with one spare: what lies past its end fails an assertion.
OverfullDisks == Made(SECTPERTRACK_SPARING, {1}, {0}, {<<0, 1>>}, {<<>>})

\* Spares in front, which ltop does not look at.
FrontDisks ==
  Made(SECTPERCYL_SPARING_ATFRONT, {1}, {0}, {<<>>}, {<<>>})
    \cup Made(SECTPERCYL_SPARING_ATFRONT_SLIPTOEND, {1}, {0}, {<<>>, <<1>>}, {<<>>})

\* A slip under SECTPERCYL_SPARING, as in the shipped model of the ST41601N.
SlippedCylinder == Mapped(SECTPERCYL_SPARING, 1, 0, <<1>>, <<>>)

-----------------------------------------------------------------------------
(* What a model file means, by the manual's words for each scheme, without  *)
(* the code's arithmetic: regions with spares at one end, defects slipped   *)
(* past or replaced, LBNs numbering what is left.                           *)

Numbers(d, b) == 0 .. Cylinders(b) * OnCylinder(d, b) - 1
Slips(b) == { b.slips[i] : i \in DOMAIN b.slips }

\* The sectors that share spares, and all of them.
RegionSize(d, b) ==
  CASE d.scheme = SECTPERTRACK_SPARING -> b.spt
    [] PerCylinder(d) -> OnCylinder(d, b)
    [] d.scheme = SECTPERRANGE_SPARING -> OnRange(d, b)
    [] OTHER -> Cylinders(b) * OnCylinder(d, b)

RegionOf(d, b, n) ==
  { m \in Numbers(d, b) : m \div RegionSize(d, b) = n \div RegionSize(d, b) }

\* A region cut short by the end of the band has no spares.
SparesIn(d, b, n) ==
  IF Cardinality(RegionOf(d, b, n)) < RegionSize(d, b) \/ d.scheme = SECTATEND_SPARING
  THEN 0 ELSE b.spares

IsSlipped(d, b, n) ==
  IF d.scheme = TRACK_SPARING THEN n \div b.spt \in Slips(b) ELSE n \in Slips(b)

\* How many sectors that hold data come before n in its region.
Before(d, b, n) == Cardinality({ m \in RegionOf(d, b, n) : m < n /\ ~IsSlipped(d, b, m) })

\* The schemes that make up for slips at the end, leaving the spares to defects.
ToEnd(d) ==
  d.scheme \in {SECTPERCYL_SPARING_SLIPTOEND, SECTATEND_SPARING, SECTSPERZONE_SPARING_SLIPTOEND}

\* Slips move LBNs into the spares of the region, or, in to-end schemes, on over
\* the spares of the region, which stay free for defects.
HoldsData(d, b, n) ==
  LET room == Cardinality(RegionOf(d, b, n))
                - (IF d.scheme = TRACK_SPARING THEN b.spt * b.spares ELSE SparesIn(d, b, n))
      off  == n % RegionSize(d, b)
  IN  /\ ~IsSlipped(d, b, n)
      /\ IF ToEnd(d) THEN off < room ELSE Before(d, b, n) < room

\* The numbers that hold LBNs, in their order; the first ones are the dead space.
DataNumbers(d, b) == { n \in Numbers(d, b) : HoldsData(d, b, n) }

\* The number of each of the band's LBNs, from 0.
HomeNumbers(d, b) ==
  LET data == DataNumbers(d, b)
      live == { n \in data : Cardinality({ m \in data : m < n }) >= b.dead }
      rank == [n \in live |-> Cardinality({ m \in live : m < n })]
  IN  [k \in 0 .. Cardinality(live) - 1 |-> CHOOSE n \in live : rank[n] = k]

Replaced(d, b, n) ==
  LET unit == IF d.scheme = TRACK_SPARING THEN b.spt ELSE 1
      here == { i \in DOMAIN b.defects : b.defects[i] = n \div unit }
  IN  IF here = {} THEN n ELSE b.remaps[CHOOSE i \in here : TRUE] * unit + (n % unit)

\* Which sector of which track has number n, heads turned as the mapping says.
SectorNumbered(d, b, n) ==
  CHOOSE p \in [cyl : b.low .. b.high, head : 0 .. d.heads - 1, sector : 0 .. b.spt - 1] :
    /\ n = ((p.cyl - b.low) * d.heads
              + (IF d.mapping = LAYOUT_CYLSWITCHONSURF1 /\ (p.cyl - b.low) % 2 = 1
                 THEN d.heads - 1 - p.head ELSE p.head)) * b.spt + p.sector
=============================================================================

------------------------------- MODULE G1Map --------------------------------
(***************************************************************************)
(* The address maps of a G1 layout, as operators of a loaded disk d and    *)
(* one of its bands b:                                                     *)
(*                                                                         *)
(*   d.heads, d.cyls       dm_surfaces and dm_cyls                         *)
(*   d.scheme, d.mapping, d.range   sparescheme, mapping and rangesize     *)
(*   d.bands               the bands, in the order of the file             *)
(*   b.low, b.high, b.spt  startcyl, endcyl and blkspertrack               *)
(*   b.dead, b.spares      deadspace and sparecnt                          *)
(*   b.slips, b.defects, b.remaps   slip, defect and remap                 *)
(*   b.angle, b.trackskew, b.cylskew                                       *)
(*   b.blks, b.first       blksinband and the band's entry of band_blknos  *)
(*                                                                         *)
(* The sectors of a band are numbered from its first cylinder on, spares   *)
(* and slips included.  Slips, defects and remaps are such numbers, or     *)
(* numbers of tracks under TRACK_SPARING.                                  *)
(***************************************************************************)
EXTENDS DmLayout, Sequences
LOCAL INSTANCE FiniteSets
LOCAL INSTANCE FiniteSetsExt
LOCAL INSTANCE SequencesExt
LOCAL INSTANCE TLC

NO_SPARING                           == 0
TRACK_SPARING                        == 1
SECTPERCYL_SPARING                   == 2
SECTPERTRACK_SPARING                 == 3
SECTPERCYL_SPARING_SLIPTOEND         == 4
SECTPERCYL_SPARING_ATFRONT           == 5
SECTPERCYL_SPARING_ATFRONT_SLIPTOEND == 6
SECTATEND_SPARING                    == 7
SECTPERRANGE_SPARING                 == 8
SECTSPERZONE_SPARING                 == 9
SECTSPERZONE_SPARING_SLIPTOEND       == 10

LAYOUT_CYLSWITCHONSURF1 == 1
LAYOUT_CYLSWITCHONSURF2 == 2

isspareatfront(d) ==
  d.scheme \in {SECTPERCYL_SPARING_ATFRONT, SECTPERCYL_SPARING_ATFRONT_SLIPTOEND}
issliptoend(d) ==
  d.scheme \in {SECTPERCYL_SPARING_SLIPTOEND, SECTPERCYL_SPARING_ATFRONT_SLIPTOEND,
                SECTATEND_SPARING}
issectpercyl(d) ==
  d.scheme \in {SECTPERCYL_SPARING, SECTPERCYL_SPARING_SLIPTOEND,
                SECTPERCYL_SPARING_ATFRONT, SECTPERCYL_SPARING_ATFRONT_SLIPTOEND}

\* The interface the loader chooses: every to-end scheme of cylinders shares one.
PerCylinder(d) == issectpercyl(d) \/ d.scheme = SECTATEND_SPARING
PerZone(d) == d.scheme \in {SECTSPERZONE_SPARING, SECTSPERZONE_SPARING_SLIPTOEND}

Greater(a, b) == IF a > b THEN a ELSE b

-----------------------------------------------------------------------------
(* Loading *)

Cylinders(b) == b.high - b.low + 1
OnCylinder(d, b) == b.spt * d.heads

\* The sectors a band gives up; to-end schemes give up their slips as well.
SparesOf(d, b) ==
  CASE d.scheme = TRACK_SPARING        -> b.spares * b.spt
    [] d.scheme = SECTPERTRACK_SPARING -> b.spares * Cylinders(b) * d.heads
    [] d.scheme = SECTATEND_SPARING    -> Len(b.slips)
    [] d.scheme = SECTSPERZONE_SPARING -> b.spares
    [] d.scheme = SECTSPERZONE_SPARING_SLIPTOEND -> b.spares + Len(b.slips)
    [] issectpercyl(d) ->
         b.spares * Cylinders(b) + (IF issliptoend(d) THEN Len(b.slips) ELSE 0)
    [] d.scheme = SECTPERRANGE_SPARING -> b.spares * (Cylinders(b) \div d.range)

blksinband(d, b) == Cylinders(b) * OnCylinder(d, b) - b.dead - SparesOf(d, b)

\* The assertions on a band: spare tracks for every slip and defect, and a scheme
\* whose sectors can be counted, which NO_SPARING is not.
Countable(d, b) ==
  /\ d.scheme = TRACK_SPARING => Len(b.slips) + Len(b.defects) <= b.spares
  /\ d.scheme # NO_SPARING

-----------------------------------------------------------------------------
(* Bands and surfaces *)

sectors(d) == LET b == d.bands[Len(d.bands)] IN b.first + b.blks

LbnExists(d, l) == 0 <= l /\ l < sectors(d)

\* find_band_lbn, for an LBN the disk has: the first band that ends after it.
find_band_lbn(d, l) ==
  d.bands[Min({ n \in DOMAIN d.bands : l < d.bands[n].first + d.bands[n].blks })]

\* Between the bands there may be cylinders that no band has.
Holds(b, p) == b.low <= p.cyl /\ p.cyl <= b.high
InSomeBand(d, p) == \E n \in DOMAIN d.bands : Holds(d.bands[n], p)

find_band_pbn(d, p) == d.bands[Min({ n \in DOMAIN d.bands : Holds(d.bands[n], p) })]

\* Serpentine mappings turn the heads around on every second cylinder.
Turned(d, b, cyl) ==
  \/ d.mapping = LAYOUT_CYLSWITCHONSURF1 /\ (cyl - b.low) % 2 = 1
  \/ d.mapping = LAYOUT_CYLSWITCHONSURF2 /\ cyl % 2 = 1

surfno_on_cyl(d, b, cyl, head) ==
  IF Turned(d, b, cyl) THEN d.heads - head - 1 ELSE head

TrackNumber(d, b, p) == (p.cyl - b.low) * d.heads + surfno_on_cyl(d, b, p.cyl, p.head)
FirstNumber(d, b, p) == TrackNumber(d, b, p) * b.spt
Number(d, b, p) == FirstNumber(d, b, p) + p.sector

\* The sector with a number: the inverse of Number.
PlaceAt(d, b, at) ==
  LET cyl == b.low + at \div OnCylinder(d, b)
  IN  [cyl    |-> cyl,
       head   |-> surfno_on_cyl(d, b, cyl, (at % OnCylinder(d, b)) \div b.spt),
       sector |-> at % b.spt]

-----------------------------------------------------------------------------
(* From sectors to LBNs: first the defects, then the slips, both from the   *)
(* last in the list to the first, then the spares.  A search is            *)
(* [at, moved, less]: the number reached, or DM_REMAPPED or DM_SLIPPED,     *)
(* whether the sector stands in for a defect, and the LBNs to take off for  *)
(* slips that are made up for at the end.                                   *)

At(at, moved) == [at |-> at, moved |-> moved, less |-> 0]

Hits(b, x) == { i \in DOMAIN b.defects : x \in {b.defects[i], b.remaps[i]} }
DefectAt(b, x, i) ==
  IF b.defects[i] = x THEN At(DM_REMAPPED, FALSE) ELSE At(b.defects[i], TRUE)

Undefected(b, x) == IF Hits(b, x) = {} THEN At(x, FALSE) ELSE DefectAt(b, x, Max(Hits(b, x)))

\* Past slip s: near says whether s is made up for next to the sector, or in a search,
\* which slips are.
PastSlip(s, a, near, toEnd) ==
  IF a.at < s THEN a
  ELSE IF a.at = s THEN [a EXCEPT !.at = DM_SLIPPED]
  ELSE IF near THEN [a EXCEPT !.at = @ - 1]
  ELSE IF toEnd THEN [a EXCEPT !.less = @ + 1] ELSE a

Unslipped(b, x, near, toEnd) ==
  FoldRight(LAMBDA s, a : PastSlip(s, a, s \in near, toEnd), b.slips, Undefected(b, x))

\* What ptol returns and stores through remapsector: a spare, a sector not
\* mapped, or LBN l of the band.
PtolOf(b, a, spare, l) ==
  [lbn   |-> IF a.at < 0 THEN a.at
             ELSE IF spare THEN DM_SLIPPED
             ELSE Greater(DM_SLIPPED, b.first + l - b.dead - a.less),
   moved |-> a.moved]

\* A slip counts when its number within its cylinder is the head's: the code
\* compares the two.
SameTrack(d, b, track, s) ==
  /\ s \div OnCylinder(d, b) = track \div d.heads
  /\ s % OnCylinder(d, b) = track % d.heads

OffSpareSectors(b, a, use) ==
  PtolOf(b, a, a.at % b.spt >= use, (a.at \div b.spt) * use + (a.at % b.spt))

ptol_sectpertrackspare(d, b, p) ==
  OffSpareSectors(b, Unslipped(b, Number(d, b, p),
                               { s \in ToSet(b.slips) : SameTrack(d, b, TrackNumber(d, b, p), s) },
                               FALSE),
                  b.spt - b.spares)

\* Faulty variant: the slips of all cylinders before count, as in a zone.
SameCylinderOrBefore(d, b, p, s) == s \div OnCylinder(d, b) <= p.cyl - b.low

SameCylinder(d, b, p, s) == s \div OnCylinder(d, b) = p.cyl - b.low

OffSpareOfCylinder(b, a, cylinder, front) ==
  PtolOf(b, a, IF front THEN a.at % cylinder < b.spares
               ELSE a.at % cylinder >= cylinder - b.spares,
         (a.at \div cylinder) * (cylinder - b.spares) + (a.at % cylinder)
           - (IF front THEN b.spares ELSE 0))

ptol_sectpercylspare(d, b, p) ==
  OffSpareOfCylinder(b, Unslipped(b, Number(d, b, p),
                                  { s \in ToSet(b.slips) : SameCylinder(d, b, p, s) },
                                  issliptoend(d)),
                     OnCylinder(d, b), isspareatfront(d))

OnRange(d, b) == OnCylinder(d, b) * d.range
RangeOf(d, b, p) == (p.cyl - b.low) \div d.range

OffSpareOfRange(b, a, blks, range) ==
  PtolOf(b, a, a.at % blks >= blks - b.spares, range * (blks - b.spares) + (a.at % blks))

ptol_sectperrangespare(d, b, p) ==
  OffSpareOfRange(b, Unslipped(b, Number(d, b, p),
                               { s \in ToSet(b.slips) : s \div OnRange(d, b) = RangeOf(d, b, p) },
                               FALSE),
                  OnRange(d, b), RangeOf(d, b, p))

OffSpareOfZone(b, a) == PtolOf(b, a, a.at >= b.blks, a.at)

ptol_sectperzonespare(d, b, p) ==
  OffSpareOfZone(b, Unslipped(b, Number(d, b, p), ToSet(b.slips), FALSE))

\* The track after the last is let through; remapsector is not stored.
LastTrack(b) == (b.blks + b.dead) \div b.spt

OffSpareTracks(b, a, sector) ==
  [PtolOf(b, a, a.at > LastTrack(b), a.at * b.spt + sector) EXCEPT !.moved = FALSE]

ptol_trackspare(d, b, p) ==
  OffSpareTracks(b, Unslipped(b, TrackNumber(d, b, p), ToSet(b.slips), FALSE), p.sector)

PtolIn(d, b, p) ==
  CASE d.scheme = TRACK_SPARING        -> ptol_trackspare(d, b, p)
    [] d.scheme = SECTPERTRACK_SPARING -> ptol_sectpertrackspare(d, b, p)
    [] d.scheme = SECTPERRANGE_SPARING -> ptol_sectperrangespare(d, b, p)
    [] PerCylinder(d)                  -> ptol_sectpercylspare(d, b, p)
    [] PerZone(d)                      -> ptol_sectperzonespare(d, b, p)

\* [lbn, moved] of a sector that some band holds.
ptol(d, p) == PtolIn(d, find_band_pbn(d, p), p)

-----------------------------------------------------------------------------
(* From LBNs to sectors: l is the LBN's number among those of its band, the *)
(* dead space included.  The slips up to the place reached move it on, then *)
(* a defect there sends it elsewhere.                                       *)

SlipsFor(b, maptype) == IF maptype \in {MAP_ADDSLIPS, MAP_FULL} THEN b.slips ELSE <<>>
DefectsFor(b, maptype) == IF maptype = MAP_FULL THEN DOMAIN b.defects ELSE {}

\* Over every slip at or before the place reached so far.
Passed(slips, x) == FoldLeft(LAMBDA y, s : IF s <= y THEN y + 1 ELSE y, x, slips)

\* Over those from the first number of the LBN's track, cylinder or range on.
PassedFrom(slips, low, x) ==
  FoldLeft(LAMBDA y, s : IF low <= s /\ s <= y THEN y + 1 ELSE y, x, slips)

\* The first defect at x sends it to its spare, unless it is its own spare.
Remapped(b, x, defects) ==
  LET here == { i \in defects : b.defects[i] = x /\ b.remaps[i] # x }
  IN  IF here = {} THEN At(x, FALSE) ELSE At(b.remaps[Min(here)], TRUE)

\* Here the defects of the spare are looked for as well, in list order.
RemappedOn(b, x, defects) ==
  FoldLeft(LAMBDA a, i : IF i \in defects /\ b.defects[i] = a.at THEN At(b.remaps[i], TRUE) ELSE a,
           At(x, FALSE), [i \in DOMAIN b.defects |-> i])

\* A place past the end of the track it started on is an assertion failure.
OnItsTrack(b, track, x, defects) ==
  IF x >= (track + 1) * b.spt /\ ~\E i \in defects : b.defects[i] = x
  THEN At(DM_NX, FALSE) ELSE RemappedOn(b, x, defects)

ltop_sectpertrackspare(d, b, l, maptype) ==
  LET use   == b.spt - b.spares
      low   == (l \div use) * b.spt
  IN  OnItsTrack(b, l \div use, PassedFrom(SlipsFor(b, maptype), low, low + (l % use)),
                 DefectsFor(b, maptype))

\* What lies past the usable places of the cylinder goes on in the next one.
NextCylinderIfFull(d, b, low, y) ==
  LET use == OnCylinder(d, b) - b.spares
  IN  At(low + ((y - low) \div use) * OnCylinder(d, b) + ((y - low) % use), FALSE)

OnItsCylinder(d, b, low, y, defects) ==
  LET a == Remapped(b, y, defects)
  IN  IF a.moved THEN a ELSE NextCylinderIfFull(d, b, low, y)

\* When slips are made up for at the end, those of the cylinders before count.
ltop_sectpercylspare(d, b, l, maptype) ==
  LET use == OnCylinder(d, b) - b.spares
      low == (l \div use) * OnCylinder(d, b)
  IN  OnItsCylinder(d, b, low,
                    PassedFrom(SlipsFor(b, maptype), IF issliptoend(d) THEN 0 ELSE low,
                               low + (l % use)),
                    DefectsFor(b, maptype))

\* Spares are taken to be in the range of their defects.
InItsRange(a, low, blks) == IF a.moved THEN At(low + (a.at % blks), TRUE) ELSE a

ltop_sectperrangespare(d, b, l, maptype) ==
  LET use == OnRange(d, b) - b.spares
      low == (l \div use) * OnRange(d, b)
  IN  InItsRange(Remapped(b, PassedFrom(SlipsFor(b, maptype), low, low + (l % use)),
                          DefectsFor(b, maptype)),
                 low, OnRange(d, b))

ltop_sectperzonespare(d, b, l, maptype) ==
  Remapped(b, Passed(SlipsFor(b, maptype), l), DefectsFor(b, maptype))

\* Whole tracks move; remapsector is not stored.
ltop_trackspare(d, b, l, maptype) ==
  At(Remapped(b, Passed(SlipsFor(b, maptype), l \div b.spt), DefectsFor(b, maptype)).at * b.spt
       + (l % b.spt), FALSE)

LtopIn(d, b, l, maptype) ==
  CASE d.scheme = TRACK_SPARING        -> ltop_trackspare(d, b, l, maptype)
    [] d.scheme = SECTPERTRACK_SPARING -> ltop_sectpertrackspare(d, b, l, maptype)
    [] d.scheme = SECTPERRANGE_SPARING -> ltop_sectperrangespare(d, b, l, maptype)
    [] PerCylinder(d)                  -> ltop_sectpercylspare(d, b, l, maptype)
    [] PerZone(d)                      -> ltop_sectperzonespare(d, b, l, maptype)

\* [status, pbn, moved]; the status is DM_NX when an assertion fails.
Placed(d, b, a) ==
  IF a.at < 0 THEN [status |-> DM_NX, pbn |-> PlaceAt(d, b, 0), moved |-> FALSE]
  ELSE [status |-> DM_OK, pbn |-> PlaceAt(d, b, a.at), moved |-> a.moved]

LtopOn(d, b, l, maptype) == Placed(d, b, LtopIn(d, b, l - b.first + b.dead, maptype))

\* For an LBN the disk has.
ltop(d, l, maptype) == LtopOn(d, find_band_lbn(d, l), l, maptype)

-----------------------------------------------------------------------------
(* The first and last LBN of the track of sector p: [l0, ln, moved].  The   *)
(* schemes with spare sectors outside the track translate its sectors back  *)
(* one by one, from either end, and correct for those that were remapped.   *)

Upto(b, low, use) ==
  [l0 |-> IF low + use <= b.first THEN DM_SLIPPED ELSE Greater(b.first, low),
   ln |-> IF low + use - 1 <= b.first THEN DM_SLIPPED ELSE low + use - 1]

\* Whether a defect is among the numbers of a track that starts at number x.
DefectFrom(b, x) == \E i \in DOMAIN b.defects : x <= b.defects[i] /\ b.defects[i] < x + b.spt

bounds_sectpertrackspare(d, b, p) ==
  LET use == b.spt - b.spares
  IN  Upto(b, b.first + TrackNumber(d, b, p) * use - b.dead, use)
        @@ [moved |-> DefectFrom(b, FirstNumber(d, b, p))]

\* Translated back, the sectors of a track; those in the place of a defect, or
\* without an LBN, are passed over.
Sectors(b) == 0 .. b.spt - 1
BackFrom(d, b, p) == [s \in Sectors(b) |-> PtolIn(d, b, [p EXCEPT !.sector = s])]
Own(back) == { s \in DOMAIN back : back[s].lbn >= 0 /\ ~back[s].moved }
RemappedAmong(back, S) == Cardinality({ s \in S : back[s].lbn = DM_REMAPPED })
LeftIn(r) == IF r.moved THEN DM_SLIPPED ELSE r.lbn

\* Faulty variant: remapped sectors before the first are not corrected for.
FirstOwnUncorrected(b, back, s) == Greater(b.first, back[s].lbn)

FirstOwn(b, back, s) == Greater(b.first, back[s].lbn - RemappedAmong(back, 0 .. s - 1))

LastOwn(b, back, s) == back[s].lbn + RemappedAmong(back, s + 1 .. b.spt - 1)

FirstBound(b, back, none) == IF Own(back) = {} THEN none ELSE FirstOwn(b, back, Min(Own(back)))
LastBound(b, back, none) == IF Own(back) = {} THEN none ELSE LastOwn(b, back, Max(Own(back)))

\* A search that finds nothing leaves what the last sector tried gave, unless the
\* code tests for it.  For cylinders the sector found, not the number of the
\* track, is compared with the defects.
BoundsOfCylinder(b, back, asked) ==
  [l0 |-> FirstBound(b, back, LeftIn(back[b.spt - 1])),
   ln |-> LastBound(b, back, DM_SLIPPED),
   moved |-> DefectFrom(b, IF ~asked THEN 0 ELSE Min(Own(back) \cup {b.spt}))]

BoundsOfRegion(b, back, start) ==
  [l0 |-> FirstBound(b, back, DM_SLIPPED),
   ln |-> LastBound(b, back, LeftIn(back[0])),
   moved |-> DefectFrom(b, start)]

\* The bounds of a whole track: lbn is the band's first LBN, or why there is none.
TrackDefects(b, t) ==
  FoldRight(LAMBDA i, a :
              IF a.done THEN a
              ELSE [at   |-> IF b.remaps[i] = a.at THEN b.defects[i] ELSE a.at,
                    lbn  |-> IF b.defects[i] = a.at THEN DM_REMAPPED ELSE a.lbn,
                    done |-> b.remaps[i] = a.at],
            [i \in DOMAIN b.defects |-> i], [at |-> t, lbn |-> b.first, done |-> FALSE])

TrackSlips(b, t) ==
  FoldRight(LAMBDA s, a : IF a.at = s THEN [a EXCEPT !.lbn = DM_SLIPPED]
                          ELSE IF a.at > s THEN [a EXCEPT !.at = @ - 1] ELSE a,
            b.slips, TrackDefects(b, t))

BoundsAt(b, at, lbn) ==
  (IF lbn < 0 THEN [l0 |-> lbn, ln |-> lbn]
   ELSE Upto(b, b.first + at * b.spt - b.dead, b.spt)) @@ [moved |-> FALSE]

BoundsOfTrack(b, a) == BoundsAt(b, a.at, IF a.at > LastTrack(b) THEN DM_SLIPPED ELSE a.lbn)

\* asked: whether the caller asked for the first LBN too.
BoundsIn(d, b, p, asked) ==
  CASE d.scheme = TRACK_SPARING        -> BoundsOfTrack(b, TrackSlips(b, TrackNumber(d, b, p)))
    [] d.scheme = SECTPERTRACK_SPARING -> bounds_sectpertrackspare(d, b, p)
    [] PerCylinder(d)                  -> BoundsOfCylinder(b, BackFrom(d, b, p), asked)
    [] OTHER -> BoundsOfRegion(b, BackFrom(d, b, p), FirstNumber(d, b, p))

track_boundaries(d, p, asked) == BoundsIn(d, find_band_pbn(d, p), p, asked)

-----------------------------------------------------------------------------
(* Angles.  What a track has left after its last whole sector is passed     *)
(* over whenever an angle goes around.                                      *)

sector_width(b) == Circle \div b.spt
trkspace(b) == Circle % b.spt

addmult(start, mult, q, x) ==
  (start + mult * q + ((start + mult * q) \div Circle) * x) % Circle

\* Slips before a number, for the schemes that are taken to move the angles.
SlipsMoveAngles(d) == issectpercyl(d) \/ d.scheme = SECTPERTRACK_SPARING
SlipsBefore(d, b, tracks) ==
  IF ~SlipsMoveAngles(d) THEN 0
  ELSE Cardinality({ i \in DOMAIN b.slips : b.slips[i] < tracks * b.spt })

\* The head counts when sectors are spared on every track.
HeadIfPerTrack(d, head) == IF d.scheme = SECTPERTRACK_SPARING THEN head ELSE 0

Skewed(d, b, cyl, surf) ==
  addmult(addmult(b.angle, surf + (d.heads - 1) * cyl, b.trackskew, trkspace(b)),
          cyl, b.cylskew, trkspace(b))

SkewIn(d, b, p) ==
  addmult(addmult(Skewed(d, b, p.cyl - b.low, surfno_on_cyl(d, b, p.cyl, p.head)),
                  SlipsBefore(d, b, (p.cyl - b.low) * d.heads + HeadIfPerTrack(d, p.head)),
                  sector_width(b), trkspace(b)),
          p.sector, sector_width(b), trkspace(b))

pbn_skew(d, p) == SkewIn(d, find_band_pbn(d, p), p)

get_track_zerol(d, p) == pbn_skew(d, [p EXCEPT !.sector = 0])

PtoaIn(d, b, p) ==
  addmult(addmult(b.angle, SlipsBefore(d, b, (p.cyl - b.low) * d.heads + HeadIfPerTrack(d, p.head)),
                  sector_width(b), trkspace(b)),
          p.sector, sector_width(b), trkspace(b))

convert_ptoa(d, p) == PtoaIn(d, find_band_pbn(d, p), p)

\* Down to a sector, or up when the skews are not whole sectors.
SectorAt(b, angle) ==
  LET up == /\ b.trackskew % sector_width(b) # 0 \/ b.cylskew % sector_width(b) # 0
            /\ angle % sector_width(b) > 0
  IN  (((angle \div sector_width(b)) % b.spt) + (IF up THEN 1 ELSE 0)) % b.spt

\* Slips are counted from cylinder 0, and the head is taken away.
AtopIn(d, b, p, theta) ==
  SectorAt(b, (theta - b.angle
                 - addmult(0, SlipsBefore(d, b, p.cyl * d.heads - HeadIfPerTrack(d, p.head)),
                           sector_width(b), trkspace(b))) % Circle)

convert_atop(d, p, theta) ==
  [p EXCEPT !.sector = AtopIn(d, find_band_pbn(d, p), p, theta)]

get_sector_width(d, p, num) ==
  LET b == find_band_pbn(d, p)
  IN  IF num > b.spt THEN 0 ELSE (sector_width(b) * num) % Circle

lbn_offset(d, l1, l2) ==
  (pbn_skew(d, ltop(d, l2, MAP_FULL).pbn) - pbn_skew(d, ltop(d, l1, MAP_FULL).pbn)) % Circle

-----------------------------------------------------------------------------
(* Sectors counted from angle 0 on. *)

RoundedUp(b, a) ==
  (((a \div sector_width(b)) % b.spt) + (IF a % sector_width(b) > 0 THEN 1 ELSE 0)) % b.spt

\* The band that has the LBN, not the one its sector is in.
ltop_0t(d, l, maptype) ==
  LET t == ltop(d, l, maptype)
  IN  [t EXCEPT !.pbn.sector = RoundedUp(find_band_lbn(d, l), pbn_skew(d, t.pbn))]

\* Faulty variant: as if the track started at angle 0.
Theta0tUnskewed(d, b, p) == (p.sector * sector_width(b) + b.angle) % Circle

Theta0t(d, b, p) == (p.sector * sector_width(b) + b.angle - get_track_zerol(d, p)) % Circle

ptol_0t(d, p) == ptol(d, convert_atop(d, p, Theta0t(d, find_band_pbn(d, p), p)))

-----------------------------------------------------------------------------
(* Zones *)

seek_distance(d, l1, l2) ==
  LET c1 == ltop(d, l1, MAP_NONE).pbn.cyl
      c2 == ltop(d, l2, MAP_NONE).pbn.cyl
  IN  Greater(c1 - c2, c2 - c1)

get_zone(d, n) ==
  LET b == d.bands[n + 1]
  IN  [spt      |-> b.spt,
       lbn_low  |-> b.first,
       lbn_high |-> b.first + b.blks - 1,
       cyl_low  |-> b.low,
       cyl_high |-> b.high]
=============================================================================

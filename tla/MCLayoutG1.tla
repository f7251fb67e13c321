----------------------------- MODULE MCLayoutG1 -----------------------------
(***************************************************************************)
(* Small disks for LayoutG1, and its properties.                           *)
(***************************************************************************)
EXTENDS LayoutG1, G1Disks
LOCAL INSTANCE FiniteSetsExt
LOCAL INSTANCE FiniteSets

McDisks  == MeantDisks \cup RefusedDisks \cup OverfullDisks \cup FrontDisks
McThetas == {0, 7, 25}
McWidths == {1, 4}

-----------------------------------------------------------------------------
(* Where the LBNs of the disks should be *)

\* A disk once all its LBNs are counted and given to the bands.
LoadedDisk(d) ==
  LET counts == [n \in DOMAIN d.bands |-> Cardinality(DataNumbers(d, d.bands[n])) - d.bands[n].dead]
  IN  [d EXCEPT !.bands = [n \in DOMAIN @ |->
         [@[n] EXCEPT !.blks = counts[n], !.first = IF n = 1 THEN 0 ELSE counts[1]]]]

Meant == { LoadedDisk(d) : d \in MeantDisks }

\* The number of an LBN's sector in a band, before and after replacing defects.
Homes ==
  [d \in Meant |->
    [n \in DOMAIN d.bands |->
      [k \in 0 .. d.bands[n].blks - 1 |-> SectorNumbered(d, d.bands[n], HomeNumbers(d, d.bands[n])[k])]]]
Places ==
  [d \in Meant |->
    [n \in DOMAIN d.bands |->
      [k \in 0 .. d.bands[n].blks - 1 |->
        SectorNumbered(d, d.bands[n],
                       Replaced(d, d.bands[n], HomeNumbers(d, d.bands[n])[k]))]]]

OfBand(l) == IF l < disk.bands[2].first THEN 1 ELSE 2
Home(l)  == Homes[disk][OfBand(l)][l - disk.bands[OfBand(l)].first]
Place(l) == Places[disk][OfBand(l)][l - disk.bands[OfBand(l)].first]

IsMeant == pc # "load" /\ disk \in Meant
Overfull ==
  /\ disk.scheme = SECTPERTRACK_SPARING
  /\ Cardinality({ s \in Slips(disk.bands[1]) : s < disk.bands[1].spt }) > disk.bands[1].spares
Slipped == disk.bands[1].slips # <<>>
OnTrackOf(p) == { l \in Lbns : Home(l).cyl = p.cyl /\ Home(l).head = p.head }

\* Not so where dead space or the slips of cylinders shift the ends of tracks, and
\* for ranges when the first LBN is not asked for.
BoundsAgree ==
  /\ ~(disk.scheme = TRACK_SPARING /\ disk.bands[1].dead > 0)
  /\ ~(issectpercyl(disk) /\ Slipped)
  /\ ~(disk.scheme = SECTPERRANGE_SPARING /\ arg = 0)

-----------------------------------------------------------------------------
(* Properties *)

Done(f) == pc = "done" /\ call = f

\* Every value has its range; the sector and head of the client's dm_pbn are on
\* the disk whoever filled it, as find_band_pbn's callers index by them.
TypeOK ==
  /\ disk.scheme \in 0 .. 10 /\ turn \in 1 .. Len(disk.bands) + 1
  /\ pc \in {"load", "idle", "done", "aborted"}
  /\ pbn.cyl \in 0 .. disk.cyls - 1
  /\ pbn.head \in 0 .. disk.heads - 1
  /\ pbn.sector \in 0 .. 2
  /\ from \in -1 .. sectors(disk) - 1
  /\ arg \in Int /\ ret \in Int /\ out \in [l0 : Int, ln : Int, moved : BOOLEAN]

\* What setup_band_blknos leaves: the counted bands have exactly as many LBNs as
\* the tables leave sectors, numbered without a gap.
CountsAsMeant == pc = "idle" /\ ~isspareatfront(disk) /\ ~Overfull => disk \in Meant

\* dm_testsuite.c "translate the lbn space forwards and backwards": ptol of the
\* sector ltop gave is the LBN ltop was given, slipped, replaced or not.
RoundTrip == Done("ptol") /\ from # -1 /\ IsMeant => ret = from

\* ltop finds the LBN's sector or its spare, and says which it is when sectors
\* are replaced one by one.
LtopPlaces ==
  Done("ltop") /\ from # -1 /\ IsMeant =>
    /\ pbn = Place(from)
    /\ disk.scheme # TRACK_SPARING => out.moved = (Home(from) # Place(from))

\* ptol of any sector: the LBN it holds, DM_REMAPPED when that LBN was moved away
\* from it, or DM_SLIPPED.
PtolPlaces ==
  Done("ptol") /\ IsMeant /\ disk.scheme # TRACK_SPARING /\ ~(issectpercyl(disk) /\ Slipped) =>
    LET held == { l \in Lbns : Place(l) = pbn }
        home == { l \in Lbns : Home(l) = pbn }
    IN  ret = IF held # {} THEN Min(held) ELSE IF home # {} THEN DM_REMAPPED ELSE DM_SLIPPED

\* dm.h: the first and last LBN of a track, whatever is slipped or replaced on it
\* as long as one of its LBNs is where it was.
TrackBounds ==
  Done("bounds") /\ IsMeant /\ BoundsAgree /\ (\E l \in OnTrackOf(pbn) : Place(l) = Home(l)) =>
    /\ arg = 1 => out.l0 = Min(OnTrackOf(pbn))
    /\ out.ln = Max(OnTrackOf(pbn))

\* Once loaded, an assertion fails only for an LBN past the end of the disk or for
\* a cylinder between the bands, or for the LBNs of a track that has more slips than
\* spares; loading fails only for what cannot be counted.
AbortsWhen ==
  pc = "aborted" =>
    \/ disk \in RefusedDisks
    \/ turn > Len(disk.bands) /\ Overfull /\ call \in {"ltop", "ltop_0t", "offset"}
    \/ turn > Len(disk.bands) /\ call = "ltop" /\ arg = sectors(disk)
    \/ turn > Len(disk.bands) /\ call \notin {"ltop", "ltop_0t", "offset"} /\ pbn.cyl = 2

\* Slips are not taken off again where they move the angles.
PlainAngles == ~(SlipsMoveAngles(disk) /\ Slipped)

\* The head over the start of a sector is found over that sector, by its angle
\* and by its skew from the start of the track, the step g1_access_block relies on.
AtopUndoes ==
  pc = "done" /\ IsMeant /\ PlainAngles =>
    /\ call = "ptoa" => convert_atop(disk, pbn, ret) = pbn
    /\ call = "skew" => convert_atop(disk, pbn, (ret - get_track_zerol(disk, pbn)) % Circle) = pbn

\* dm_testsuite.c test_0t: ptol_0t undoes ltop_0t, when skews are whole sectors.
ZeroRoundTrip ==
  Done("ltop_0t") /\ IsMeant /\ PlainAngles /\ OfBand(arg) = 1 => ptol_0t(disk, pbn).lbn = arg

\* The zone of an LBN is the one whose cylinders hold its sector, as long as the
\* pointer that g1_get_zone does not set is not null.
ZoneHasLbn ==
  Done("zone") /\ IsMeant =>
    /\ ret < Len(disk.bands)
    /\ LET z == get_zone(disk, ret)
       IN  z.cyl_low <= Place(arg).cyl /\ Place(arg).cyl <= z.cyl_high

-----------------------------------------------------------------------------
(* What the run checks *)

\* The bands are counted as the tables mean, and only what cannot be counted or
\* placed fails an assertion of layout_g1.c.
CountsOrRefuses == TypeOK /\ CountsAsMeant /\ AbortsWhen

\* ltop and ptol of every scheme put each LBN where the tables mean it to be and
\* find it there.
PlacesAsMeant == RoundTrip /\ LtopPlaces /\ PtolPlaces

\* The bounds of a track and the zone of an LBN agree with where the LBNs are.
TracksAsMeant == TrackBounds /\ ZoneHasLbn

\* Angles lead back to the sectors they come from.
AnglesUndo == AtopUndoes /\ ZeroRoundTrip

-----------------------------------------------------------------------------
(* What a comment of the code says, and some disks refute *)

\* dm_testsuite.c: "translate the lbn space forwards and backwards", the LBN comes
\* back on whatever disk.
LbnComesBack == Done("ptol") /\ from # -1 => ret = from
=============================================================================

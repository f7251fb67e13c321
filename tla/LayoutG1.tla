------------------------------ MODULE LayoutG1 ------------------------------
(***************************************************************************)
(* A G1 layout being loaded, band by band, and then serving a client       *)
(* through struct dm_layout_if.  The client keeps a struct dm_pbn, which   *)
(* the translations fill and which it may also fill itself.                *)
(***************************************************************************)
EXTENDS G1Map
LOCAL INSTANCE FiniteSetsExt

CONSTANTS Disks,  \* the disks a model file may describe, their bands not counted yet
          Thetas, \* the angles a client may ask about
          Widths  \* the chunks of sectors a client may ask about

ASSUME ClientAssumption == Thetas \subseteq 0 .. Circle - 1 /\ Widths \subseteq Nat

VARIABLES disk, \* the layout and its disk
          turn, \* the band to be counted
          pc,   \* "load", "idle", "done" or, for good, "aborted"
          call, \* the interface function called last
          arg,  \* its LBN, number or angle
          pbn,  \* the client's struct dm_pbn
          from, \* the LBN ltop filled pbn for, or -1
          ret,  \* the value returned
          out   \* what a call stores besides

client == <<pbn, from>>
result == <<call, arg, ret, out>>
vars   == <<disk, turn, pc, client, result>>

Nowhere == [cyl |-> 0, head |-> 0, sector |-> 0]
Nothing == [l0 |-> 0, ln |-> 0, moved |-> FALSE]

Init ==
  /\ disk \in Disks
  /\ turn = 1
  /\ pc = "load"
  /\ call = "none" /\ arg = 0 /\ ret = 0 /\ out = Nothing
  /\ pbn = Nowhere /\ from = -1

-----------------------------------------------------------------------------
(* Loading *)

\* dm_layout_g1_initialize, one band after the other.
CountBand ==
  /\ pc = "load"
  /\ turn <= Len(disk.bands)
  /\ Countable(disk, disk.bands[turn])
  /\ disk' = [disk EXCEPT !.bands[turn].blks = blksinband(disk, disk.bands[turn])]
  /\ turn' = turn + 1
  /\ UNCHANGED <<pc, client, result>>

RefuseBand ==
  /\ pc = "load"
  /\ turn <= Len(disk.bands)
  /\ ~Countable(disk, disk.bands[turn])
  /\ pc' = "aborted"
  /\ UNCHANGED <<disk, turn, client, result>>

\* Faulty variant: the dead space of the bands before is counted as well.
FirstsWithDead(bands) ==
  LET first[n \in DOMAIN bands] ==
        IF n = 1 THEN 0 ELSE first[n - 1] + bands[n - 1].blks + bands[n - 1].dead
  IN  first

\* setup_band_blknos.
Firsts(bands) ==
  LET first[n \in DOMAIN bands] == IF n = 1 THEN 0 ELSE first[n - 1] + bands[n - 1].blks
  IN  first

Numbered(bands, firsts) == [n \in DOMAIN bands |-> [bands[n] EXCEPT !.first = firsts[n]]]

NumberBands ==
  /\ pc = "load"
  /\ turn > Len(disk.bands)
  /\ disk' = [disk EXCEPT !.bands = Numbered(@, Firsts(@))]
  /\ pc' = "idle"
  /\ UNCHANGED <<turn, client, result>>

-----------------------------------------------------------------------------
(* Calls *)

\* A call from its start to its return.
Returns(f, a, r, o) ==
  /\ pc = "idle"
  /\ pc' = "done"
  /\ call' = f /\ arg' = a /\ ret' = r /\ out' = o
  /\ UNCHANGED <<disk, turn>>

\* A call that fails an assertion.
Aborts(f, a) ==
  /\ pc = "idle"
  /\ pc' = "aborted"
  /\ call' = f /\ arg' = a
  /\ UNCHANGED <<disk, turn, client, ret, out>>

\* The client has used the results; its dm_pbn stays.
Use ==
  /\ pc = "done"
  /\ pc' = "idle"
  /\ call' = "none" /\ arg' = 0 /\ ret' = 0 /\ out' = Nothing
  /\ UNCHANGED <<disk, turn, client>>

\* The sectors a client may make up: every one there is, and the cylinders that no
\* band has.
SectorsAt(p) ==
  IF InSomeBand(disk, p) THEN 0 .. find_band_pbn(disk, p).spt - 1 ELSE {0}

Point(cyl, head, sector) ==
  /\ pc = "idle"
  /\ pbn' = [cyl |-> cyl, head |-> head, sector |-> sector]
  /\ from' = -1
  /\ UNCHANGED <<disk, turn, pc, result>>

PointSomewhere ==
  \E cyl \in 0 .. disk.cyls - 1, head \in 0 .. disk.heads - 1 :
    \E sector \in SectorsAt([cyl |-> cyl]) : Point(cyl, head, sector)

Moved(m) == [Nothing EXCEPT !.moved = m]

LtopReturns(l, maptype, t) ==
  /\ pbn' = t.pbn
  /\ from' = IF maptype = MAP_FULL THEN l ELSE -1
  /\ Returns("ltop", l, t.status, Moved(t.moved))

LtopDone(l, maptype, t) ==
  IF t.status = DM_OK THEN LtopReturns(l, maptype, t) ELSE Aborts("ltop", l)

\* An LBN that no band has fails find_band_lbn's assertions.
Ltop(l, maptype) ==
  IF LbnExists(disk, l) THEN LtopDone(l, maptype, ltop(disk, l, maptype)) ELSE Aborts("ltop", l)

\* Whether a translation succeeds and its angle can be asked for.
Reached(t) == t.status = DM_OK /\ InSomeBand(disk, t.pbn)

LtopZeroReturns(l, t) ==
  /\ pbn' = t.pbn
  /\ from' = -1
  /\ Returns("ltop_0t", l, DM_OK, Moved(t.moved))

LtopZero(l) ==
  IF Reached(ltop(disk, l, MAP_FULL)) THEN LtopZeroReturns(l, ltop_0t(disk, l, MAP_FULL))
  ELSE Aborts("ltop_0t", l)

\* A question about the client's dm_pbn; between the bands find_band_pbn fails.
Answers(f, a, r, o) ==
  IF InSomeBand(disk, pbn) THEN Returns(f, a, r, o) /\ UNCHANGED client ELSE Aborts(f, a)

PtolReturns(f, r) == Returns(f, 0, r.lbn, Moved(r.moved)) /\ UNCHANGED client

Ptol == IF InSomeBand(disk, pbn) THEN PtolReturns("ptol", ptol(disk, pbn)) ELSE Aborts("ptol", 0)

PtolZero ==
  IF InSomeBand(disk, pbn) THEN PtolReturns("ptol_0t", ptol_0t(disk, pbn)) ELSE Aborts("ptol_0t", 0)

\* For ranges the code tests a counter that is not set when the first LBN is not
\* asked for, and drops the last LBN when it happens to be DM_SLIPPED.
Unset(asked, o) ==
  IF disk.scheme = SECTPERRANGE_SPARING /\ ~asked
  THEN { o, [o EXCEPT !.ln = DM_SLIPPED] } ELSE {o}

TrackBoundaries(asked) ==
  IF InSomeBand(disk, pbn)
  THEN \E o \in Unset(asked, track_boundaries(disk, pbn, asked)) :
         /\ Returns("bounds", IF asked THEN 1 ELSE 0, DM_OK, IF asked THEN o ELSE [o EXCEPT !.l0 = 0])
         /\ UNCHANGED client
  ELSE Aborts("bounds", 0)

Skew == Answers("skew", 0, pbn_skew(disk, pbn), Nothing)

Ptoa == Answers("ptoa", 0, convert_ptoa(disk, pbn), Nothing)

\* The dm_pbn that is filled is the client's.
Atop(theta) ==
  IF InSomeBand(disk, pbn)
  THEN /\ pbn' = convert_atop(disk, pbn, theta)
       /\ from' = -1
       /\ Returns("atop", theta, DM_OK, Nothing)
  ELSE Aborts("atop", theta)

SectorWidth(num) == Answers("width", num, get_sector_width(disk, pbn, num), Nothing)

SectorsPbn == Answers("st_pbn", 0, find_band_pbn(disk, pbn).spt, Nothing)

SectorsLbn(l) == Returns("st_lbn", l, find_band_lbn(disk, l).spt, Nothing) /\ UNCHANGED client

\* Between an LBN and the next one.
LbnOffset(l) ==
  IF \A k \in {l, l + 1} : Reached(ltop(disk, k, MAP_FULL))
  THEN Returns("offset", l, lbn_offset(disk, l, l + 1), Nothing) /\ UNCHANGED client
  ELSE Aborts("offset", l)

SeekDistance(l) == Returns("seek", l, seek_distance(disk, l, l + 1), Nothing) /\ UNCHANGED client

HasLbn(z, l) == z.lbn_low <= l /\ l <= z.lbn_high

ZonesWith(l) == { n \in 0 .. Len(disk.bands) - 1 : HasLbn(get_zone(disk, n), l) }

\* g1_get_zone tests a pointer that is not set.  When it happens to be null no zone
\* is filled in, and the loop may stop at any turn, or at none.
ZoneIdByLbn(l) ==
  Returns("zone", l, Min(ZonesWith(l) \cup {Len(disk.bands)}), Nothing) /\ UNCHANGED client

ZoneIdUnset(l) ==
  /\ \E n \in 0 .. Len(disk.bands) : Returns("zone_unset", l, n, Nothing)
  /\ UNCHANGED client

-----------------------------------------------------------------------------
Lbns == 0 .. sectors(disk) - 1

Serve ==
  /\ pc = "idle"
  /\ \/ PointSomewhere
     \/ \E l \in 0 .. sectors(disk), maptype \in {MAP_NONE, MAP_ADDSLIPS, MAP_FULL} : Ltop(l, maptype)
     \/ \E l \in Lbns : LtopZero(l) \/ SectorsLbn(l) \/ ZoneIdByLbn(l) \/ ZoneIdUnset(l)
     \/ \E l \in Lbns : l + 1 \in Lbns /\ (LbnOffset(l) \/ SeekDistance(l))
     \/ Ptol \/ PtolZero \/ Skew \/ Ptoa \/ SectorsPbn
     \/ \E asked \in BOOLEAN : TrackBoundaries(asked)
     \/ \E theta \in Thetas : Atop(theta)
     \/ \E num \in Widths : SectorWidth(num)

Next == CountBand \/ RefuseBand \/ NumberBands \/ Use \/ Serve

Spec == Init /\ [][Next]_vars
=============================================================================

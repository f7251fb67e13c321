------------------------------- MODULE G4Map --------------------------------
(***************************************************************************)
(* The address maps of a G4 layout, as operators of a disk d:              *)
(*                                                                         *)
(*   d.sectors, d.cyls, d.heads   dm_sectors, dm_cyls and dm_surfaces      *)
(*   d.track    the TP array: the lowest and highest sector of a track     *)
(*              and its sectors per track                                  *)
(*   d.idx      the IDX array; the last node is the root                   *)
(*   d.slips    the slip list as g4_load_slips leaves it                   *)
(*   d.remaps   the Remaps array                                           *)
(*                                                                         *)
(* Arrays are sequences.  An index entry e stands for e.runlen / e.len     *)
(* copies of its child, e.len addresses and e.cyllen cylinders apart,      *)
(* towards lower cylinders when e.cylrunlen is negative.                   *)
(***************************************************************************)
EXTENDS SlipSearch, DmLayout

\* C's / and % on int: the quotient is truncated towards 0.
CDiv(a, b) == LET q == (IF a < 0 THEN -a ELSE a) \div (IF b < 0 THEN -b ELSE b)
              IN  IF (a < 0) = (b < 0) THEN q ELSE -q
CMod(a, b) == a - b * CDiv(a, b)

Lesser(a, b) == IF a < b THEN a ELSE b
Magnitude(a) == IF a < 0 THEN -a ELSE a
Lowest(S) == CHOOSE k \in S : \A j \in S : k <= j

\* The sums of the first 0, 1, ... numbers of a sequence, and of all of them.
Sums(terms) ==
  LET upTo[k \in 0 .. Len(terms)] == IF k = 0 THEN 0 ELSE upTo[k - 1] + terms[k]
  IN  upTo
Total(terms) == Sums(terms)[Len(terms)]

\* Faulty variant: one sector too few around the circle.
SectorAngleWide(spt) == Circle \div (spt - 1)

\* g4_load_tp: dm_angle_dtoi(1.0 / spt), for tracks of two sectors or more: one
\* revolution does not fit a dm_angle_t.
SectorAngle(spt) == Circle \div spt

-----------------------------------------------------------------------------
(* Remaps: the first entry that covers the LBN, or whose destination covers *)
(* the sector.                                                              *)

CoversLbn(r, l) == r.off <= l /\ l < r.off + r.count
CoversPbn(r, p) ==
  /\ r.cyl = p.cyl
  /\ r.head = p.head
  /\ r.sector <= p.sector
  /\ p.sector < r.sector + r.count

LbnRemapped(d, l) == \E k \in DOMAIN d.remaps : CoversLbn(d.remaps[k], l)
PbnRemapped(d, p) == \E k \in DOMAIN d.remaps : CoversPbn(d.remaps[k], p)
remap_lbn(d, l) == d.remaps[Lowest({ k \in DOMAIN d.remaps : CoversLbn(d.remaps[k], l) })]
remap_pbn(d, p) == d.remaps[Lowest({ k \in DOMAIN d.remaps : CoversPbn(d.remaps[k], p) })]

-----------------------------------------------------------------------------
(* g4_recurse and g4_r: the path from the root to the track pattern, or the *)
(* empty path when there is none.  The root is on the path twice: first the *)
(* node g4_recurse appends, entry 0 with quot 0 and resid 1.                *)

IdxNode(e, quot, resid) == [type |-> "IDX", e |-> e, quot |-> quot, resid |-> resid]
TrackNode(t, resid) == [type |-> "TRACK", t |-> t, quot |-> 0, resid |-> resid]
Extend(node, rest) == IF rest = <<>> THEN <<>> ELSE <<node>> \o rest

FromRoot(d, rest) == Extend(IdxNode(d.idx[Len(d.idx)][1], 0, 1), rest)

\* The node for address x of entry e.
LbnNode(e, x) ==
  LET quot == (x - e.lbn) \div e.len
  IN  IdxNode(e, IF e.cylrunlen < 0 THEN -quot ELSE quot, (x - e.lbn) % e.len)

\* The paths below node k of the IDX array to address x inside it, <<k, x>> by
\* <<k, x>>: by the first entry that covers it.
LbnPaths(d) ==
  LET Leaf(t, x) ==
        IF t.low <= x /\ x <= t.high THEN <<TrackNode(t, x - t.low)>> ELSE <<>>
      Covers(e, x) == e.lbn <= x /\ x < e.lbn + e.runlen
      down[at \in (DOMAIN d.idx) \X Int] ==
        LET ents == d.idx[at[1]]
            here == { i \in DOMAIN ents : Covers(ents[i], at[2]) }
            e    == ents[Lowest(here)]
            rest == (at[2] - e.lbn) % e.len
        IN  IF here = {} THEN <<>>
            ELSE Extend(LbnNode(e, at[2]),
                        IF e.childtype = "TRACK" THEN Leaf(d.track[e.child], rest)
                        ELSE down[<<e.child, rest>>])
  IN  down

\* The path to layout address a.
LbnPath(d, a) == FromRoot(d, LbnPaths(d)[<<Len(d.idx), a>>])

LowCyl(e)  == IF e.cylrunlen > 0 THEN e.cyl ELSE e.cyl + e.cylrunlen + 1
HighCyl(e) == IF e.cylrunlen < 0 THEN e.cyl ELSE e.cyl + e.cylrunlen - 1

\* g4_recurse's highest layout address in use.
TopAddress(d) == LET max == d.sectors - 1 IN max + slipcount_rev(d.slips, max)

\* The copy of the child of entry e that has cylinder c, and the highest address
\* in it when max is the highest in e.
CopyOf(e, c) ==
  LET copy == CDiv(c - e.cyl, e.cyllen) IN IF e.cylrunlen < 0 THEN -copy ELSE copy
HighestIn(e, quot, max) ==
  LET run == Lesser(max, e.lbn + e.runlen - 1) - e.lbn
  IN  Lesser(run, (quot + 1) * e.len - 1) - quot * e.len

\* The paths below node k to sector p, whose cylinder is c inside that node.  max
\* is the highest address inside the copy being entered, cut down so that no
\* sector past the end of the disk is found.
PbnPaths(d, p) ==
  LET Leaf(t, max) ==
        IF t.low <= p.sector /\ p.sector <= t.high /\ p.sector <= max
        THEN <<TrackNode(t, p.sector - t.low)>> ELSE <<>>
      Covers(e, c) ==
        /\ LowCyl(e) <= c
        /\ c <= HighCyl(e)
        /\ e.childtype = "TRACK" => p.head = e.head
      down[at \in (DOMAIN d.idx) \X Int \X Int] ==
        LET ents == d.idx[at[1]]
            here == { i \in DOMAIN ents : Covers(ents[i], at[2]) }
            e    == ents[Lowest(here)]
            rest == CMod(at[2] - e.cyl, e.cyllen)
            left == HighestIn(e, CopyOf(e, at[2]), at[3])
        IN  IF here = {} THEN <<>>
            ELSE Extend(IdxNode(e, CopyOf(e, at[2]), rest),
                        IF e.childtype = "TRACK" THEN Leaf(d.track[e.child], left)
                        ELSE down[<<e.child, rest, left>>])
  IN  down

PbnPath(d, p) == FromRoot(d, PbnPaths(d, p)[<<Len(d.idx), p.cyl, TopAddress(d)>>])

IdxNodes(path) == SubSeq(path, 1, Len(path) - 1)
TrackOf(path) == path[Len(path)].t

-----------------------------------------------------------------------------
(* Translation between LBNs and sectors. *)

LbnExists(d, l) == 0 <= l /\ l < d.sectors

\* The sector at the end of a path to a layout address.
PlaceOf(path) ==
  LET nodes == IdxNodes(path)
      last  == nodes[Len(nodes)]
  IN  [cyl    |-> Total([i \in DOMAIN nodes |-> nodes[i].e.cyl + nodes[i].quot * nodes[i].e.cyllen]),
       head   |-> last.e.head,
       sector |-> TrackOf(path).low + last.resid]

\* Faulty variant: ltop asks slipcount_rev, as ptol does.
ShiftedRev(d, l) == l + slipcount_rev(d.slips, l)

Shifted(d, l) == l + slipcount(d.slips, l)

\* DM_OK with the sector at the end of a path, or DM_NX.
EndOf(path, old, moved) ==
  IF path = <<>> THEN [status |-> DM_NX, pbn |-> old, moved |-> moved]
  ELSE [status |-> DM_OK, pbn |-> PlaceOf(path), moved |-> moved]

\* The sector that LBN l is remapped to.
SpareOf(r, l) == [cyl |-> r.cyl, head |-> r.head, sector |-> r.sector + (l - r.off)]

\* [status, pbn, moved]; pbn is old, the caller's struct, when there is none, and
\* moved is what ltop stores through remapsector, or 0 when it stores nothing.
ltop(d, l, old) ==
  IF ~LbnExists(d, l) THEN [status |-> DM_NX, pbn |-> old, moved |-> 0]
  ELSE IF LbnRemapped(d, l)
  THEN [status |-> DM_OK, pbn |-> SpareOf(remap_lbn(d, l), l), moved |-> 0]
  ELSE EndOf(LbnPath(d, Shifted(d, l)), old, slipcount(d.slips, l))

\* The layout address at the end of a path to a sector.
AddressOf(path, p) ==
  LET nodes == IdxNodes(path)
  IN  Total([i \in DOMAIN nodes |-> nodes[i].e.lbn + nodes[i].quot * nodes[i].e.len])
        + (p.sector - TrackOf(path).low)

LbnAt(a, rv) == IF rv = -1 THEN DM_NX ELSE a - rv
Unshifted(d, a) == LbnAt(a, slipcount_rev(d.slips, a))

LbnOf(d, path, p) == IF path = <<>> THEN DM_NX ELSE Unshifted(d, AddressOf(path, p))

ptol(d, p) ==
  IF PbnRemapped(d, p) THEN LET r == remap_pbn(d, p) IN r.off + p.sector - r.sector
  ELSE LbnOf(d, PbnPath(d, p), p)

-----------------------------------------------------------------------------
(* Tracks. *)

PathSpt(path) == IF path = <<>> THEN -1 ELSE TrackOf(path).spt

SptAt(d, a) == IF LbnRemapped(d, a) THEN remap_lbn(d, a).spt ELSE PathSpt(LbnPath(d, a))

g4_spt_lbn(d, l) == SptAt(d, Shifted(d, l))

g4_spt_pbn(d, p) ==
  IF PbnRemapped(d, p) THEN remap_pbn(d, p).spt ELSE PathSpt(PbnPath(d, p))

\* The width kept in a remap is never loaded; num is not used.
g4_sector_width(d, p, num) ==
  LET WidthOn(path) == IF path = <<>> THEN 0 ELSE SectorAngle(TrackOf(path).spt)
  IN  IF PbnRemapped(d, p) THEN 0 ELSE WidthOn(PbnPath(d, p))

g4_skew(d, p) ==
  LET SkewOf(nodes, last) ==
        (Total([i \in DOMAIN nodes |-> nodes[i].e.off + nodes[i].quot * nodes[i].e.alen])
           + last.resid * SectorAngle(last.t.spt)) % Circle
      SkewAlong(path) == IF path = <<>> THEN 0 ELSE SkewOf(IdxNodes(path), path[Len(path)])
  IN  SkewAlong(PbnPath(d, p))

-----------------------------------------------------------------------------
(* Zones: the entries of the root. *)

Root(d) == d.idx[Len(d.idx)]

g4_get_zone(d, n) ==
  LET e == Root(d)[n + 1]
  IN  [spt      |-> g4_spt_lbn(d, e.lbn),
       lbn_low  |-> e.lbn,
       lbn_high |-> Lesser(d.sectors, e.lbn + e.runlen),
       cyl_low  |-> e.cyl,
       cyl_high |-> Lesser(d.cyls, e.cyl + e.cylrunlen)]

Zones(d) == 0 .. Len(Root(d)) - 1

\* The number of zones when no zone has the LBN.
g4_get_zone_id_by_lbn(d, l) ==
  LET HasLbn(z) == l >= z.lbn_low /\ l <= z.lbn_high
  IN  Lowest({ n \in Zones(d) : HasLbn(g4_get_zone(d, n)) } \cup {Len(Root(d))})

\* The zone of track c, counting the tracks of all heads together.
HasTrack(d, n, c) ==
  LET Between(z) == c < z.cyl_high * d.heads /\ c >= z.cyl_low * d.heads
  IN  Between(g4_get_zone(d, n))

\* Faulty variant: the last track of the run is not counted.
TracksIntoShort(rest, width) == IF rest = 0 THEN 0 ELSE (rest - 1) \div width

\* The steps of the loop over a run's copies, then the tracks it has left.
TracksInto(rest, width) ==
  LET hops == IF rest = 0 THEN 0 ELSE (rest - 1) \div width
  IN  hops + (rest - hops * width)

\* The tracks of each entry's run under its head.
RunTracks(ents) == [i \in DOMAIN ents |-> Magnitude(ents[i].cylrunlen)]

\* Inside the zone, the copy of the zone's pattern, then the head run, then the
\* track of the run.  Node n of the IDX array is taken for the child of zone n.
\* A run is left behind only when tracks remain after it.
TrackInZone(d, zone, c) ==
  LET top    == Root(d)[zone + 1]
      off    == c - top.cyl * d.heads
      copy   == off \div (top.cyllen * d.heads)
      ents   == d.idx[zone + 1]
      left   == off - copy * (top.cyllen * d.heads)
      before == Sums(RunTracks(ents))
      k      == Lowest({ j \in DOMAIN ents : left <= before[j] })
      e      == ents[k]
      tracks == TracksInto(left - before[k - 1], Magnitude(e.cyllen))
      step   == IF e.cylrunlen < 0 THEN -e.cyllen ELSE e.cyllen
  IN  [zone  |-> zone,
       start |-> top.lbn + copy * top.len + e.lbn + tracks * e.len,
       pbn   |-> [cyl    |-> top.cyl + copy * top.cyllen + e.cyl + tracks * step,
                  head   |-> e.head,
                  sector |-> 0]]

g4_get_pbn_by_abs_cyl(d, c) ==
  TrackInZone(d, Lowest({ n \in Zones(d) : HasTrack(d, n, c) }), c)

-----------------------------------------------------------------------------
(* What the maps take for granted of a layout file. *)

IdxEntry ==
  [lbn : Int, cyl : Int, off : Int, len : Nat \ {0}, cyllen : Nat \ {0}, alen : Int,
   runlen : Int, cylrunlen : Int, childtype : {"IDX", "TRACK"}, child : Nat, head : Int]

\* Tracks count their sectors from 0, and have no more than there are angles.
TrackPattern == { t \in [low : {0}, high : Nat, spt : 2 .. Circle] : t.high < t.spt }

SlipEntry == [off : Int, count : Int]

RemapEntry ==
  [off : Int, count : Int, cyl : Int, head : Int, sector : Int, spt : Int]

\* Node k of the IDX array has entry e: it stands for a track of the array or for a
\* node before it, without which the recursion of g4_recurse would not end.
StandsFor(d, k, e) == e.child \in IF e.childtype = "TRACK" THEN DOMAIN d.track ELSE 1 .. k - 1

\* g4_get_pbn_by_abs_cyl's node of zone n has all the tracks of the zone's pattern.
HoldsPattern(d, n) ==
  /\ n + 1 \in DOMAIN d.idx
  /\ Root(d)[n + 1].cyllen * d.heads <= Total(RunTracks(d.idx[n + 1]))

WellFormed(d) ==
  /\ {d.sectors, d.cyls, d.heads} \subseteq Nat \ {0}
  /\ d.slips \in Seq(SlipEntry) /\ d.slips # <<>>
  /\ d.remaps \in Seq(RemapEntry)
  /\ d.track \in Seq(TrackPattern)
  /\ d.idx \in Seq(Seq(IdxEntry)) /\ d.idx # <<>> /\ Root(d) # <<>>
  /\ \A k \in DOMAIN d.idx : \A i \in DOMAIN d.idx[k] : StandsFor(d, k, d.idx[k][i])
  /\ \A n \in Zones(d) : HoldsPattern(d, n)
=============================================================================

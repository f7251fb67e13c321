------------------------------ MODULE LayoutG2 ------------------------------
(***************************************************************************)
(* The G2 layout: a raw file of extents, each a run of LBNs on a track,    *)
(* read into a table by LBN and a table by track, the skews of cylinders   *)
(* computed from them, and the functions of layout_g2.                     *)
(*                                                                         *)
(* A file is [cyls, heads, zones, extents, defects] in the order of its    *)
(* lines; the zones come from the model's parameters.  Element i of an     *)
(* array of the code is element i + 1 here.                                *)
(***************************************************************************)
EXTENDS DmLayout, Sequences

CONSTANTS Files,    \* raw layout files
          Lbns,     \* LBNs asked about
          IntRange  \* 2^32: an int returned where a 64-bit LBA is read

ASSUME G2Assumption == IntRange \in Nat \ {0} /\ Lbns \subseteq Nat

Node == [lbn : Nat, cyl : Nat, head : Nat, sector : Nat, len : Nat \ {0}]

\* A line of an extent: the word says whether the first sector is counted.
Line == [lbn : Nat, cyl : Nat, head : Nat, sector : Nat, word : {"seqcnt", "cnt"}, count : Nat]

G2Zone == [cyllow : Nat, cylhigh : Nat, lbnlow : Nat, lbnhigh : Nat, st : Nat \ {0},
           csskew : Nat, hsskew : Nat, zskew : 0 .. Circle - 1, sector_width : Nat \ {0}]

\* seqcnt counts the sectors after the first.
LenOf(line) == IF line.word = "seqcnt" THEN line.count + 1 ELSE line.count

NodeOf(line) == [lbn |-> line.lbn, cyl |-> line.cyl, head |-> line.head,
                 sector |-> line.sector, len |-> LenOf(line)]

ShareTrack(n, m) == n.cyl = m.cyl /\ n.head = m.head

\* A raw file of a disk: extents on its tracks, one after the other by LBN,
\* that have no sector in common, with LBNs an int can hold; zones that cover
\* their LBNs and cylinders, with as many sectors to a track as they need.
WellLaid(f) ==
  /\ f.cyls \in Nat \ {0} /\ f.heads \in Nat \ {0}
  /\ f.zones \in Seq(G2Zone) /\ f.extents \in Seq(Line) \ {<<>>}
  /\ LET node == [k \in DOMAIN f.extents |-> NodeOf(f.extents[k])] IN
     /\ node \in Seq(Node)
     /\ \A k \in DOMAIN node :
          LET n == node[k] IN
          /\ n.cyl < f.cyls /\ n.head < f.heads /\ 2 * (n.lbn + n.len) <= IntRange
          /\ \A x \in n.lbn .. n.lbn + n.len - 1 :
               \E z \in DOMAIN f.zones : f.zones[z].lbnlow <= x /\ x <= f.zones[z].lbnhigh
          /\ \E z \in DOMAIN f.zones : f.zones[z].cyllow <= n.cyl /\ n.cyl <= f.zones[z].cylhigh
          /\ n.cyl <= f.zones[Len(f.zones)].cylhigh
          /\ \A z \in DOMAIN f.zones :
               f.zones[z].cyllow <= n.cyl /\ n.cyl <= f.zones[z].cylhigh => n.sector + n.len <= f.zones[z].st
     /\ \A j, k \in DOMAIN node : j < k =>
          /\ node[j].lbn + node[j].len <= node[k].lbn
          /\ ShareTrack(node[j], node[k]) =>
               \/ node[j].sector + node[j].len <= node[k].sector
               \/ node[k].sector + node[k].len <= node[j].sector
  /\ \A z \in DOMAIN f.zones : f.zones[z].cylhigh < f.cyls

ASSUME FilesAssumption == \A f \in Files : WellLaid(f)

VARIABLES raw,      \* the file
          stage,    \* how far loading is, or "overrun" for good
          layout,   \* struct dm_layout_g2, and the skew and first extent of its cylinders
          ext, zi,  \* the loop of precompute_skews
          question, reply
g2vars == <<raw, stage, layout, ext, zi, question, reply>>

CylsOf(l)  == 0 .. l.cyls - 1
HeadsOf(l) == 0 .. l.heads - 1

\* What a function leaves behind besides an answer.
Aborted == [kind |-> "aborted"]
Crashed == [kind |-> "crashed"]
Answer(v) == [kind |-> "answer", value |-> v]

-----------------------------------------------------------------------------
(* Loading the raw file *)

G2Init ==
  /\ raw \in Files /\ stage = "extents"
  /\ layout = [cyls |-> raw.cyls, heads |-> raw.heads, zones |-> raw.zones,
               ltop_map |-> <<>>, ptol_map |-> <<>>, defects |-> <<>>,
               skew |-> [c \in CylsOf(raw) |-> 0],
               first |-> [c \in CylsOf(raw) |-> IF c = 0 THEN 1 ELSE 0]]
  /\ ext = 1 /\ zi = 1
  /\ question = [op |-> "none"] /\ reply = Answer(0)

\* extentguess: two and a half extents for every track.
Guess(l) == LET n == l.cyls * l.heads * 2 IN n + (n \div 4)

ReadExtent ==
  /\ stage = "extents" /\ Len(layout.ltop_map) < Len(raw.extents)
  /\ IF Len(layout.ltop_map) < Guess(layout)
     THEN /\ layout' = [layout EXCEPT !.ltop_map = Append(@, NodeOf(raw.extents[Len(@) + 1]))]
          /\ stage' = stage
     ELSE layout' = layout /\ stage' = "overrun"
  /\ UNCHANGED <<raw, ext, zi, question, reply>>

\* The extents of a track.  The code keeps them in order of their sectors,
\* cut out of a copy of the table sorted by trackcmp.
OnTrackOf(map, c, h) == { n \in { map[k] : k \in DOMAIN map } : n.cyl = c /\ n.head = h }

ByTrack(l) == [c \in CylsOf(l) |-> [h \in HeadsOf(l) |-> OnTrackOf(l.ltop_map, c, h)]]

SortTracks ==
  /\ stage = "extents" /\ Len(layout.ltop_map) = Len(raw.extents)
  /\ layout' = [layout EXCEPT !.ptol_map = ByTrack(layout)]
  /\ stage' = "defects"
  /\ UNCHANGED <<raw, ext, zi, question, reply>>

\* Room for one defect in eight extents.
ReadDefect ==
  /\ stage = "defects" /\ Len(layout.defects) < Len(raw.defects)
  /\ IF Len(layout.defects) < Len(layout.ltop_map) \div 8
     THEN /\ layout' = [layout EXCEPT !.defects = Append(@, raw.defects[Len(@) + 1])]
          /\ stage' = stage
     ELSE layout' = layout /\ stage' = "overrun"
  /\ UNCHANGED <<raw, ext, zi, question, reply>>

EndOfMap ==
  /\ stage = "defects" /\ Len(layout.defects) = Len(raw.defects)
  /\ stage' = "skews"
  /\ UNCHANGED <<raw, layout, ext, zi, question, reply>>

-----------------------------------------------------------------------------
(* precompute_skews, one extent a turn *)

\* The first extent of a cylinder begins with the skew of its zone, or hands
\* its own on to the next cylinder.  Cylinder 0 has its first extent already.
Begun(l, c, z) ==
  IF l.first[c] # 0 THEN l.skew
  ELSE IF l.zones[z].cyllow = c THEN [l.skew EXCEPT ![c] = l.zones[z].zskew]
  ELSE IF c + 1 \in CylsOf(l) THEN [l.skew EXCEPT ![c + 1] = l.skew[c]] ELSE l.skew

\* Faulty variant: the switch is counted in the cylinder it leaves.
AddedHere(l, s, c, a) == [s EXCEPT ![c] = (@ + a) % Circle]

\* A switch is counted for the cylinder after c.  After the last, it goes to
\* whatever lies behind the array, which is left out.
Added(l, s, c, a) == IF c + 1 \in CylsOf(l) THEN [s EXCEPT ![c + 1] = (@ + a) % Circle] ELSE s

\* The extent after e in the table: zeros behind the last, and anything
\* behind the room.
NextExtents(l, e) ==
  IF e < Len(l.ltop_map) THEN { [cyl |-> l.ltop_map[e + 1].cyl, head |-> l.ltop_map[e + 1].head] }
  ELSE IF e < Guess(l) THEN { [cyl |-> 0, head |-> 0] }
  ELSE { [cyl |-> c, head |-> h] : c \in CylsOf(l), h \in HeadsOf(l) }

\* The switch from extent e to the one after, by the skews of zone z.
SwitchTo(l, e, next, z) ==
  IF next.cyl # l.ltop_map[e].cyl THEN l.zones[z].csskew
  ELSE IF next.head # l.ltop_map[e].head THEN l.zones[z].hsskew ELSE 0

\* The zone pointer moves on when a cylinder past it begins.
ZoneAt(l, z, c) == IF l.first[c] = 0 /\ l.zones[z].cylhigh < c THEN z + 1 ELSE z

PrecomputeSkew ==
  /\ stage = "skews" /\ ext <= Len(layout.ltop_map)
  /\ LET c     == layout.ltop_map[ext].cyl
         begin == layout.first[c] = 0
         z     == ZoneAt(layout, zi, c)
     IN  /\ zi' = z
         /\ \E next \in NextExtents(layout, ext) :
              LET a == SwitchTo(layout, ext, next, z)
              IN  layout' = [layout EXCEPT !.skew = Added(layout, Begun(layout, c, z), c, a),
                                           !.first[c] = IF begin THEN ext ELSE @]
  /\ ext' = ext + 1
  /\ UNCHANGED <<raw, stage, question, reply>>

Loaded ==
  /\ stage = "skews" /\ ext > Len(layout.ltop_map)
  /\ stage' = "loaded"
  /\ UNCHANGED <<raw, layout, ext, zi, question, reply>>

-----------------------------------------------------------------------------
(* Zones.  0 when an assertion fails. *)

FirstOf(zs) == IF zs = {} THEN 0 ELSE CHOOSE z \in zs : \A y \in zs : z <= y

find_zone_lbn(l, lbn) ==
  FirstOf({ z \in DOMAIN l.zones : l.zones[z].lbnlow <= lbn /\ lbn <= l.zones[z].lbnhigh })

find_zone_pbn(l, p) ==
  FirstOf({ z \in DOMAIN l.zones : l.zones[z].cyllow <= p.cyl /\ p.cyl <= l.zones[z].cylhigh })

-----------------------------------------------------------------------------
(* Translation *)

\* Faulty variant: the sector after an extent is taken to be in it.
NodeCmpWide(lbn, n) == IF lbn > n.lbn + n.len THEN 1 ELSE IF n.lbn > lbn THEN -1 ELSE 0

\* g2_nodecmp of a key of length 1 and an extent.
NodeCmp(lbn, n) == IF lbn >= n.lbn + n.len THEN 1 ELSE IF n.lbn >= lbn + 1 THEN -1 ELSE 0

\* bsearch halves the elements from b[1] up to b[2] until it meets one.
Halve(l, lbn, b) ==
  LET mid == (b[1] + b[2]) \div 2
      c   == NodeCmp(lbn, l.ltop_map[mid + 1])
  IN  IF b[1] >= b[2] THEN b
      ELSE IF c = 0 THEN <<mid, mid>>
      ELSE IF c < 0 THEN <<b[1], mid>> ELSE <<mid + 1, b[2]>>

\* What is left after so many turns; no search takes more than one for each element.
Turns(l, lbn) ==
  LET left[n \in 0 .. Len(l.ltop_map)] ==
        IF n = 0 THEN <<0, Len(l.ltop_map)>> ELSE Halve(l, lbn, left[n - 1])
  IN  left

\* The element that is met, or 0.
Bsearch(l, lbn) ==
  LET at == Turns(l, lbn)[Len(l.ltop_map)][1] + 1
  IN  IF at \in DOMAIN l.ltop_map /\ NodeCmp(lbn, l.ltop_map[at]) = 0 THEN at ELSE 0

\* The sector of an LBN, or none.
Place(n, lbn) == [cyl |-> n.cyl, head |-> n.head, sector |-> n.sector + (lbn - n.lbn)]

NowhereG2 == [cyl |-> -1, head |-> -1, sector |-> -1]

g2_ltop(l, lbn) ==
  IF find_zone_lbn(l, lbn) = 0 THEN Aborted
  ELSE LET e == Bsearch(l, lbn)
       IN  IF e = 0 THEN Answer([code |-> DM_NX, pbn |-> NowhereG2])
           ELSE Answer([code |-> DM_OK, pbn |-> Place(l.ltop_map[e], lbn)])

\* The first extent of the track that has the sector.
G2LbnAt(l, p) ==
  LET has == { n \in l.ptol_map[p.cyl][p.head] : n.sector <= p.sector /\ p.sector < n.sector + n.len }
  IN  IF has = {} THEN DM_NX
      ELSE LET n == CHOOSE n \in has : \A m \in has : n.sector <= m.sector IN n.lbn + (p.sector - n.sector)

g2_ptol(l, p) == IF p.cyl < l.cyls /\ p.head < l.heads THEN Answer(G2LbnAt(l, p)) ELSE Aborted

\* An int returned where the caller reads 64 bits: the sign may be lost.
AsLba(v) == IF v < 0 THEN { v, IntRange + v } ELSE { v }

\* An int stored where the caller reads 64 bits: the upper half is as it was.
IntoLba(v) == { v % IntRange, (v % IntRange) - IntRange, (v % IntRange) + IntRange }

g2_seek_distance(l, a, b) ==
  IF find_zone_lbn(l, a) = 0 \/ (Bsearch(l, a) # 0 /\ find_zone_lbn(l, b) = 0) THEN Aborted
  ELSE IF Bsearch(l, a) = 0 \/ Bsearch(l, b) = 0 THEN Answer(DM_NX)
  ELSE LET d == l.ltop_map[Bsearch(l, a)].cyl - l.ltop_map[Bsearch(l, b)].cyl
       IN  Answer(IF d < 0 THEN -d ELSE d)

-----------------------------------------------------------------------------
(* Tracks *)

InZone(z, v) == IF z = 0 THEN Aborted ELSE Answer(v)

st_lbn(l, lbn) == LET z == find_zone_lbn(l, lbn) IN InZone(z, l.zones[z].st)

\* The search for the nearest lower zone is cut short by an assertion.
st_pbn(l, p) == LET z == find_zone_pbn(l, p) IN InZone(z, l.zones[z].st)

\* Faulty variant: the last sector is not asked about.
G2LastSectorShort(l, z) == l.zones[z].st - 2

G2LastSector(l, z) == l.zones[z].st - 1

SectorOn(p, s) == [p EXCEPT !.sector = s]

\* The sectors of a track that have LBNs.
MappedOn(l, p) ==
  { s \in 0 .. G2LastSector(l, find_zone_pbn(l, p)) : G2LbnAt(l, SectorOn(p, s)) # DM_NX }

\* From both ends of the track to the first sectors that have LBNs.
track_boundaries(l, p) ==
  IF find_zone_pbn(l, p) = 0 \/ p.cyl >= l.cyls \/ p.head >= l.heads THEN Aborted
  ELSE LET on == MappedOn(l, p) IN
       IF on = {} THEN Answer(<<DM_NX, DM_NX>>)
       ELSE LET a == CHOOSE s \in on : \A r \in on : s <= r
                b == CHOOSE s \in on : \A r \in on : r <= s
            IN  Answer(<<G2LbnAt(l, SectorOn(p, a)), G2LbnAt(l, SectorOn(p, b))>>)

sector_width(l, p, num) ==
  LET z == find_zone_pbn(l, p) IN InZone(z, (l.zones[z].sector_width * num) % Circle)

\* Of the start and the width, those asked for.  The width is written in the
\* place of the start, which is a null pointer when only the width is asked for.
ptoa(l, p, wants) ==
  LET z == find_zone_pbn(l, p)
      w == l.zones[z].sector_width
  IN  IF z # 0 /\ wants = {"width"} THEN Crashed
      ELSE InZone(z, IF "width" \in wants THEN w ELSE (w * p.sector) % Circle)

atop(l, p, theta) ==
  LET z == find_zone_pbn(l, p) IN InZone(z, (theta \div l.zones[z].sector_width) % l.zones[z].st)

-----------------------------------------------------------------------------
(* Skew *)

\* The skews of the switches between extents e - 1 and e.
Switches(map, e, zone) ==
    (IF map[e].cyl # map[e - 1].cyl THEN zone.csskew ELSE 0)
  + (IF map[e].head # map[e - 1].head THEN zone.hsskew ELSE 0)

\* Those between an extent and each one after it.
SwitchSums(map, from, zone) ==
  LET sum[e \in from .. Len(map)] == IF e = from THEN 0 ELSE sum[e - 1] + Switches(map, e, zone)
  IN  sum

\* The extents of a track from the first of its cylinder on.
Reached(l, p) ==
  { e \in DOMAIN l.ltop_map : l.first[p.cyl] <= e /\ ShareTrack(l.ltop_map[e], p) }

\* From the first extent of the cylinder to the first of the track.  The
\* walk of a cylinder without extents starts before the table and meets none.
pbn_skew_new(l, p) ==
  LET zone == l.zones[find_zone_pbn(l, p)]
      to   == CHOOSE e \in Reached(l, p) : \A k \in Reached(l, p) : e <= k
  IN  IF find_zone_pbn(l, p) = 0 \/ l.first[p.cyl] = 0 \/ Reached(l, p) = {} THEN Aborted
      ELSE Answer((l.skew[p.cyl] + SwitchSums(l.ltop_map, l.first[p.cyl], zone)[to]
                                 + p.sector * zone.sector_width) % Circle)

-----------------------------------------------------------------------------
(* Zones of the interface.  Two members of layout_g2 stand in each other's *)
(* place: the zone of an LBN is asked of g2_defect_count, which takes the  *)
(* LBN for a pointer, and the defects of a track of g2_get_zone_id_by_lbn, *)
(* which takes the pointer for an LBN no zone has.                         *)

g2_get_numzones(l) == Answer(Len(l.zones))

g2_get_zone(l, n) == IF n < 0 \/ n >= Len(l.zones) THEN Answer(-1) ELSE Answer(l.zones[n + 1])

dm_get_zone_id_by_lbn(l, lbn) == Crashed

dm_defect_count(l, p) == Answer([returned |-> Len(l.zones), result |-> "untouched"])

\* Slots of layout_g2 that are 0 or only assert.
dm_get_track_zerol(l, p)       == Crashed
dm_lbn_offset(l, a, b)         == Crashed
dm_translate_ltop_0t(l, lbn)   == Aborted
dm_translate_ptol_0t(l, p)     == Aborted

-----------------------------------------------------------------------------

\* One sector past each end, and one cylinder and head.
PlacesOf(l) == [cyl : 0 .. l.cyls, head : 0 .. l.heads, sector : 0 .. 3]
OnTracks(l) == { p \in PlacesOf(l) : p.cyl < l.cyls /\ p.head < l.heads }

Asking == stage = "loaded" /\ question.op = "none"

Asked(q, r) ==
  /\ question' = q /\ reply' = r
  /\ UNCHANGED <<raw, stage, layout, ext, zi>>

OfLbn(op, lbn) == [op |-> op, lbn |-> lbn]
OfPbn(op, p)   == [op |-> op, pbn |-> p]

AskLbn == Asking /\ \E lbn \in Lbns :
  \/ Asked(OfLbn("ltop", lbn), g2_ltop(layout, lbn))
  \/ Asked(OfLbn("st_lbn", lbn), st_lbn(layout, lbn))
  \/ Asked(OfLbn("zone", lbn), g2_get_zone(layout, lbn))
  \/ Asked(OfLbn("zone_id", lbn), dm_get_zone_id_by_lbn(layout, lbn))
  \/ Asked(OfLbn("ltop_0t", lbn), dm_translate_ltop_0t(layout, lbn))
  \/ \E to \in Lbns : Asked([op |-> "distance", lbn |-> lbn, to |-> to], g2_seek_distance(layout, lbn, to))
  \/ Asked([op |-> "offset", lbn |-> lbn, to |-> lbn], dm_lbn_offset(layout, lbn, lbn))

AskSector == Asking /\ \E p \in PlacesOf(layout) :
  \/ LET r == g2_ptol(layout, p) IN
       IF r = Aborted THEN Asked(OfPbn("ptol", p), r)
       ELSE \E v \in AsLba(r.value) : Asked(OfPbn("ptol", p), Answer(v))
  \/ Asked(OfPbn("skew", p), pbn_skew_new(layout, p))
  \/ p \in OnTracks(layout) /\ \E wants \in SUBSET {"start", "width"} \ {{}} :
       Asked([op |-> "ptoa", pbn |-> p, wants |-> wants], ptoa(layout, p, wants))
  \/ Asked(OfPbn("ptol_0t", p), dm_translate_ptol_0t(layout, p))

AskTrack == Asking /\ \E p \in PlacesOf(layout) : p.sector = 0 /\
  \/ LET r == track_boundaries(layout, p) IN
       IF r = Aborted THEN Asked(OfPbn("bounds", p), r)
       ELSE \E v \in IntoLba(r.value[1]), w \in IntoLba(r.value[2]) :
              Asked(OfPbn("bounds", p), Answer(<<v, w>>))
  \/ Asked(OfPbn("st_pbn", p), st_pbn(layout, p))
  \/ \E n \in 1 .. 2 : Asked([op |-> "width", pbn |-> p, num |-> n], sector_width(layout, p, n))
  \/ \E a \in 0 .. 4 : Asked([op |-> "atop", pbn |-> p, theta |-> a * (Circle \div 4)],
                             atop(layout, p, a * (Circle \div 4)))
  \/ Asked(OfPbn("zerol", p), dm_get_track_zerol(layout, p))
  \/ Asked(OfPbn("defects", p), dm_defect_count(layout, p))

AskDisk == Asking /\ Asked([op |-> "numzones"], g2_get_numzones(layout))

G2Next ==
  \/ ReadExtent \/ SortTracks \/ ReadDefect \/ EndOfMap
  \/ PrecomputeSkew \/ Loaded
  \/ AskLbn \/ AskSector \/ AskTrack \/ AskDisk

G2Spec == G2Init /\ [][G2Next]_g2vars

-----------------------------------------------------------------------------
(* What a file means. *)

Extents == { raw.extents[k] : k \in DOMAIN raw.extents }

\* Sector n of an extent, counted from 0, with its LBN.
MeantBy(x, n) ==
  [lbn |-> x.lbn + n, pbn |-> [cyl |-> x.cyl, head |-> x.head, sector |-> x.sector + n]]

\* The sectors with LBNs.
Meant == UNION { { MeantBy(x, n) : n \in 0 .. LenOf(x) - 1 } : x \in Extents }

MeantOn(p) == { m \in Meant : ShareTrack(m.pbn, p) }

Covered(lbn)  == \E z \in DOMAIN raw.zones : raw.zones[z].lbnlow <= lbn /\ lbn <= raw.zones[z].lbnhigh
CoveredCyl(c) == \E z \in DOMAIN raw.zones : raw.zones[z].cyllow <= c /\ c <= raw.zones[z].cylhigh

\* The LBNs of a track grow along its sectors.
Growing(p) ==
  \A j, k \in DOMAIN raw.extents :
    LET a == raw.extents[j]
        b == raw.extents[k]
    IN  ShareTrack(a, p) /\ ShareTrack(b, p) /\ j < k => a.sector < b.sector

\* The extents go through the cylinders upwards, and through the tracks of each
\* one by one; the zones follow each other, and each has extents.
InSweep(f) ==
  /\ \A j, k \in DOMAIN f.extents : j < k =>
       /\ f.extents[j].cyl <= f.extents[k].cyl
       /\ ShareTrack(f.extents[j], f.extents[k]) =>
            \A h \in j .. k : ShareTrack(f.extents[h], f.extents[j])
  /\ \A y, z \in DOMAIN f.zones : y < z => f.zones[y].cylhigh < f.zones[z].cyllow
  /\ \A z \in DOMAIN f.zones : \E k \in DOMAIN f.extents :
       f.zones[z].cyllow <= f.extents[k].cyl /\ f.extents[k].cyl <= f.zones[z].cylhigh

ZoneOfCyl(c) ==
  raw.zones[CHOOSE z \in DOMAIN raw.zones : raw.zones[z].cyllow <= c /\ c <= raw.zones[z].cylhigh]

\* The skew of the track of an extent.
SkewAt(x) == pbn_skew_new(layout, [cyl |-> x.cyl, head |-> x.head, sector |-> 0]).value

Is(op) == question.op = op /\ reply.kind = "answer"

-----------------------------------------------------------------------------
(* Properties *)

\* The one type invariant: tables of the right shape, angles on the circle.
G2TypeOK ==
  /\ layout.cyls \in Nat \ {0} /\ layout.heads \in Nat \ {0}
  /\ layout.ltop_map \in Seq(Node) /\ Len(layout.ltop_map) <= Len(raw.extents)
  /\ layout.skew \in [CylsOf(layout) -> 0 .. Circle - 1]
  /\ layout.first \in [CylsOf(layout) -> 0 .. Len(raw.extents)]
  /\ ext \in 1 .. Len(raw.extents) + 1
  /\ zi \in DOMAIN raw.zones
  /\ stage \in {"extents", "defects", "skews", "loaded", "overrun"}
  /\ reply.kind \in {"answer", "aborted", "crashed"}

\* The binary search finds the sector a line of the file gives an LBN, and
\* none when no line has it; translating back gives the LBN again.
LtopPlaces ==
  Is("ltop") =>
    IF reply.value.code = DM_OK
    THEN /\ [lbn |-> question.lbn, pbn |-> reply.value.pbn] \in Meant
         /\ G2LbnAt(layout, reply.value.pbn) = question.lbn
    ELSE reply.value.code = DM_NX /\ \A m \in Meant : m.lbn # question.lbn

\* A sector is translated to the LBN of the file and back to itself; one
\* without an LBN to something no disk has as an LBN.
PtolPlaces ==
  Is("ptol") =>
    IF \E m \in Meant : m.pbn = question.pbn
    THEN /\ [lbn |-> reply.value, pbn |-> question.pbn] \in Meant
         /\ g2_ltop(layout, reply.value) = Answer([code |-> DM_OK, pbn |-> question.pbn])
    ELSE reply.value \in {DM_NX, IntRange + DM_NX}

\* The bounds of a track, in their lower halves, are the LBNs of its first
\* and its last sector that has one: the least and the greatest if LBNs grow
\* along the track.
TrackBounds ==
  Is("bounds") =>
    LET on  == MeantOn(question.pbn)
        low(v) == v % IntRange
    IN  IF on = {} THEN low(reply.value[1]) = low(DM_NX) /\ low(reply.value[2]) = low(DM_NX)
        ELSE /\ \E m \in on : low(reply.value[1]) = m.lbn /\ \A n \in on : m.pbn.sector <= n.pbn.sector
             /\ \E m \in on : low(reply.value[2]) = m.lbn /\ \A n \in on : n.pbn.sector <= m.pbn.sector
             /\ Growing(question.pbn) =>
                  \A m \in on : low(reply.value[1]) <= m.lbn /\ m.lbn <= low(reply.value[2])

\* Asking about an LBN or a cylinder outside the zones fails an assertion,
\* and nothing else does but a skew on a track without extents, a sector off
\* the disk and the slots that only assert.  Left out: st_pbn on a cylinder of
\* no zone, which is to answer for the nearest lower zone (layout_g2.c:249).
AbortsWhen ==
  (question.op = "st_pbn" => CoveredCyl(question.pbn.cyl)) =>
  (reply.kind = "aborted" <=>
    \/ question.op \in {"ltop", "st_lbn"} /\ ~Covered(question.lbn)
    \/ /\ question.op = "distance"
       /\ \/ ~Covered(question.lbn)
          \/ ~Covered(question.to) /\ \E m \in Meant : m.lbn = question.lbn
    \/ question.op = "ptol" /\ (question.pbn.cyl >= raw.cyls \/ question.pbn.head >= raw.heads)
    \/ question.op = "bounds" /\ (~CoveredCyl(question.pbn.cyl) \/ question.pbn.head >= raw.heads)
    \/ question.op \in {"width", "atop", "ptoa"} /\ ~CoveredCyl(question.pbn.cyl)
    \/ question.op = "skew" /\ (~CoveredCyl(question.pbn.cyl) \/ MeantOn(question.pbn) = {})
    \/ question.op \in {"ltop_0t", "ptol_0t"})

\* Translations agree with the extents of the file, both ways
\* (layout_g2.c:94-167; the parts are above).
ExtentsAsMeant == LtopPlaces /\ PtolPlaces

\* The skews of the tracks follow the LBNs (layout_g2_load.c:214-255,
\* layout_g2.c:300-336): along those of a cylinder each new track is turned by
\* the head skew; the next cylinder is turned from the last track by the
\* cylinder skew; and a zone begins with its own.  Left out: what follows a
\* cylinder without extents, and the cylinder after the first of a zone that
\* has a skew.  There the skew so far is not handed on, where the comment at
\* layout_g2_load.c:237 says that it is.
SkewsAsMeant ==
  stage = "loaded" /\ InSweep(raw) =>
    \A k \in DOMAIN raw.extents : k < Len(raw.extents) =>
      LET a == raw.extents[k]
          b == raw.extents[k + 1]
          z == ZoneOfCyl(a.cyl)
          Begins(x) == x.cyl = ZoneOfCyl(x.cyl).cyllow
      IN  /\ a.cyl = b.cyl /\ a.head # b.head => SkewAt(b) = (SkewAt(a) + z.hsskew) % Circle
          /\ a.cyl # b.cyl /\ Begins(b) => SkewAt(b) = ZoneOfCyl(b.cyl).zskew
          /\ /\ b.cyl = a.cyl + 1 /\ ~Begins(b)
             /\ Begins(a) => a.cyl = 0 \/ z.zskew = 0
             => SkewAt(b) = (SkewAt(a) + z.csskew) % Circle

\* The bounds of tracks, and which calls end in an assertion
\* (layout_g2.c:39-73, 258-286; the parts are above).
BoundsAsMeant == G2TypeOK /\ TrackBounds /\ AbortsWhen
=============================================================================

----------------------------- MODULE SmallDisks -----------------------------
(***************************************************************************)
(* Small G4 disks for model checking, and where their LBNs really are.     *)
(*                                                                         *)
(* Two heads, two zones, serpentine patterns: the head 0 run goes inwards  *)
(* and the head 1 run comes back.  Zone 0 has two tracks per head and      *)
(* three sectors per track; zone 1 has two copies of a pattern of one      *)
(* track per head and two sectors per track.  20 sectors in all, which     *)
(* slips and spares make fewer LBNs.                                       *)
(***************************************************************************)
EXTENDS G4Map
LOCAL INSTANCE FiniteSetsExt
LOCAL INSTANCE FiniteSets
LOCAL INSTANCE SequencesExt

-----------------------------------------------------------------------------
(* Disks *)

Run(lbn, cyl, len, n, kind, child, head) ==
  [lbn |-> lbn, cyl |-> cyl, off |-> head * ((5 * Circle) \div 12), len |-> len, cyllen |-> 1, alen |-> Circle \div 7,
   runlen |-> n * len, cylrunlen |-> IF head = 1 THEN -n ELSE n,
   childtype |-> kind, child |-> child, head |-> head]

\* A pattern: n tracks of spt sectors under head 0, then n under head 1.
Pattern(n, spt, child) ==
  << Run(0, 0, spt, n, "TRACK", child, 0), Run(n * spt, n - 1, spt, n, "TRACK", child, 1) >>

\* Copies of a pattern of n tracks per head, from an LBN and a cylinder.
ZoneEnt(lbn, cyl, n, spt, copies, child) ==
  [lbn |-> lbn, cyl |-> cyl, off |-> 0, len |-> 2 * n * spt, cyllen |-> n, alen |-> 3,
   runlen |-> copies * 2 * n * spt, cylrunlen |-> copies * n,
   childtype |-> "IDX", child |-> child, head |-> 0]

Tree == << Pattern(2, 3, 1), Pattern(1, 2, 2),
           << ZoneEnt(0, 0, 2, 3, 1, 1), ZoneEnt(12, 2, 1, 2, 2, 2) >> >>

WholeTracks == << [low |-> 0, high |-> 2, spt |-> 3], [low |-> 0, high |-> 1, spt |-> 2] >>

\* g4_load_slips on a list of slip lengths, as SlipList loads it.
Loaded(list) ==
  LET cum[k \in 0 .. Len(list)] == IF k = 0 THEN 0 ELSE cum[k - 1] + list[k][2]
      entries == [k \in DOMAIN list |-> [off |-> list[k][1], count |-> cum[k]]]
  IN  IF entries[1].off > 0 THEN <<[off |-> 0, count |-> 0]>> \o entries ELSE entries

Disk(sectors, slips, remaps) ==
  [sectors |-> sectors, cyls |-> 4, heads |-> 2, track |-> WholeTracks, idx |-> Tree,
   slips |-> Loaded(slips), remaps |-> remaps]

Remap(off, count, cyl, head, sector, spt) ==
  [off |-> off, count |-> count, cyl |-> cyl, head |-> head, sector |-> sector, spt |-> spt]

Plain == Disk(20, <<<<0, 0>>>>, <<>>)

\* Slips: one sector of a track, the first sector of a track, the last two
\* sectors of one track and the first of the next, and a whole track.
Slipped ==
  { Disk(19, <<<<4, 1>>>>, <<>>), Disk(18, <<<<3, 1>>, <<13, 1>>>>, <<>>),
    Disk(17, <<<<4, 3>>>>, <<>>), Disk(16, <<<<6, 3>>, <<12, 1>>>>, <<>>) }

\* The last pattern of the tree is spare; one LBN, or two neighbours, moved there.
Remapped ==
  { Disk(16, <<<<0, 0>>>>, <<Remap(4, 1, 3, 1, 0, 2)>>),
    Disk(16, <<<<0, 0>>>>, <<Remap(4, 1, 3, 1, 0, 2), Remap(13, 1, 3, 1, 1, 2)>>),
    Disk(15, <<<<5, 1>>>>, <<Remap(7, 2, 3, 0, 0, 2)>>) }

\* The last track in use is only half used, and two tracks are spare.
SpareTracks == { Disk(15, <<<<0, 0>>>>, <<>>) }

GoodDisks == {Plain} \cup Slipped \cup Remapped \cup SpareTracks

\* One zone of four tracks of n sectors.
Tracks(n) ==
  [Plain EXCEPT !.sectors = 4 * n, !.cyls = 2,
                !.idx   = << Pattern(2, n, 1), << ZoneEnt(0, 0, 2, n, 1, 1) >> >>,
                !.track = << [low |-> 0, high |-> n - 1, spt |-> n] >>]

-----------------------------------------------------------------------------
(* What the tree means: every sector it describes, unrolled copy by copy. *)

\* <<address, cylinder, head, sector>> of every sector under the root.
Unrolled(d) ==
  LET Copies(e)   == 0 .. (e.runlen \div e.len) - 1
      Towards(e)  == IF e.cylrunlen < 0 THEN -e.cyllen ELSE e.cyllen
      OnTrack(e, t) == { <<s - t.low, 0, e.head, s>> : s \in t.low .. t.high }
      sectorsOf[k \in DOMAIN d.idx] ==
        UNION { { <<x[1] + e.lbn + q * e.len, x[2] + e.cyl + q * Towards(e), x[3], x[4]>> :
                    q \in Copies(e),
                    x \in IF e.childtype = "TRACK" THEN OnTrack(e, d.track[e.child])
                          ELSE sectorsOf[e.child] } :
                e \in ToSet(d.idx[k]) }
  IN  sectorsOf[Len(d.idx)]

IsSlipped(d, a) ==
  \E k \in 2 .. Len(d.slips) :
    /\ d.slips[k].off <= a
    /\ a < d.slips[k].off + d.slips[k].count - d.slips[k - 1].count

LbnsOf(d) == 0 .. d.sectors - 1

\* Where each LBN of each disk is without remaps: LBNs number the usable sectors
\* in layout order.
HomesOf(DD) ==
  [d \in DD |->
    LET usable == { x \in Unrolled(d) : ~IsSlipped(d, x[1]) }
        rank   == [x \in usable |-> Cardinality({ y \in usable : y[1] < x[1] })]
    IN  [l \in LbnsOf(d) |-> LET x == CHOOSE x \in usable : rank[x] = l
                             IN  [cyl |-> x[2], head |-> x[3], sector |-> x[4]]]]

\* Where each LBN is, given its home.
PlacesOf(homes) ==
  [d \in DOMAIN homes |->
    [l \in LbnsOf(d) |->
      IF LbnRemapped(d, l)
      THEN LET r == CHOOSE r \in ToSet(d.remaps) : CoversLbn(r, l)
           IN  [cyl |-> r.cyl, head |-> r.head, sector |-> r.sector + l - r.off]
      ELSE homes[d][l]]]
=============================================================================

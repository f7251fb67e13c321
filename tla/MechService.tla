---------------------------- MODULE MechService -----------------------------
(***************************************************************************)
(* What the clients of layout and mechanics take for granted of them: the  *)
(* access times of mech_g1.c and the calculators of hdd_calc_app.c ask a   *)
(* layout for sectors, ends of tracks and angles and look at no error.     *)
(* Each operator is one promise of a disk d, which its clients assume.     *)
(***************************************************************************)
EXTENDS MechG1

Origin == [cyl |-> 0, head |-> 0, sector |-> 0]

\* The sector ltop gives an LBN.
SectorOf(d, lbn) == ltop(d, lbn, Origin).pbn

\* The numbers of the cylinders: a model file gives that of the last for their
\* number (valid_hdd_models/maxtor300g.model:3).
Cylinders(d) == 0 .. d.cyls

OneTrack(p, q) == p.cyl = q.cyl /\ p.head = q.head

\* g4_track_bound without l0: the last mapped sector of the track of p, searched
\* from its end; -1 when an assertion fails.
TrackEnd(d, p) ==
  LET At(k)        == ptol(d, [p EXCEPT !.sector = k])
      Mapped(k)    == At(k) >= 0
      OnDisk(lbn)  == IF lbn >= d.sectors THEN -1 ELSE lbn
      LastOf(ks)   == CHOOSE k \in ks : \A other \in ks : other <= k
      EndOn(ks)    == IF ks = {} THEN -1 ELSE OnDisk(At(LastOf(ks)))
  IN  EndOn({ k \in 0 .. g4_spt_pbn(d, p) - 1 : Mapped(k) })

-----------------------------------------------------------------------------
(* Promises *)

\* Every LBN has a sector of the disk and is found on it.  Where slips stand near
\* the end of a disk a layout file breaks this (layout_g4.c:403).
FindsLbns(d) ==
  /\ {d.sectors, d.cyls, d.heads} \subseteq Nat \ {0}
  /\ \A lbn \in 0 .. d.sectors - 1 :
       /\ ltop(d, lbn, Origin).status = DM_OK
       /\ SectorOf(d, lbn) \in [cyl : Cylinders(d), head : 0 .. d.heads - 1,
                              sector : 0 .. Circle - 1]
       /\ ptol(d, SectorOf(d, lbn)) = lbn

\* The bounds of an LBN's track end with the last LBN on it, and up to there every
\* LBN is on it; there are no more of them than the track has sectors.
BoundsTracks(d) ==
  \A lbn \in 0 .. d.sectors - 1 :
    LET p == SectorOf(d, lbn)
    IN  /\ TrackEnd(d, p) \in lbn .. d.sectors - 1
        /\ TrackEnd(d, p) - lbn < g4_spt_pbn(d, p)
        /\ \A i \in lbn .. d.sectors - 1 : OneTrack(SectorOf(d, i), p) <=> i <= TrackEnd(d, p)

\* The sectors of the track of p follow each other at equal angles from its first,
\* and LBNs are on none behind its last; a sector has that width or, when it is
\* remapped or behind the end of the disk, none (layout_g4.c:699).
EvenTrack(d, p) ==
  LET n     == g4_spt_pbn(d, TrackAt(p))
      first == g4_skew(d, TrackAt(p))
  IN  /\ n \in 1 .. Circle
      /\ first \in 0 .. Circle - 1
      /\ \A k \in 0 .. n - 1 : g4_sector_width(d, SectorAt(p, k), 1) \in {0, SectorAngle(n)}
      /\ \A k \in 0 .. Circle - 1 :
           \/ ptol(d, SectorAt(p, k)) < 0
           \/ /\ k < n
              /\ g4_spt_pbn(d, SectorAt(p, k)) = n
              /\ g4_skew(d, SectorAt(p, k)) = (first + k * SectorAngle(n)) % Circle

EvenTracks(d) == \A lbn \in 0 .. d.sectors - 1 : EvenTrack(d, SectorOf(d, lbn))

\* But for its last, the sectors of the track of p have a width: reading on from
\* where the head is, dm_latency_g1 asserts that the rest of the track has one
\* (mech_g1.c:582).
WideToTheEnd(d, p) ==
  \A k \in 0 .. g4_spt_pbn(d, TrackAt(p)) - 2 : g4_sector_width(d, SectorAt(p, k), 1) # 0

TracksHaveWidth(d) == \A lbn \in 0 .. d.sectors - 1 : WideToTheEnd(d, SectorOf(d, lbn))

\* The seek curve has a time for every distance on the disk.
SeeksTakeTime(d) ==
  \A rw \in {Write, Read}, dist \in Cylinders(d) : SeekFn[rw][dist] \in Nat

-----------------------------------------------------------------------------
(* The shape of the layout files that come with the disk models.  Their     *)
(* trees tile the disk, so that the G4 maps keep the promises.              *)

\* Entry e stands for whole copies of its child, as many in addresses as in cylinders.
CopiesIn(e) == e.runlen \div e.len

WholeRun(e) ==
  /\ CopiesIn(e) > 0
  /\ e.runlen = CopiesIn(e) * e.len
  /\ Magnitude(e.cylrunlen) = CopiesIn(e) * e.cyllen

\* The addresses of node k of the IDX array, and whether its tracks are on the
\* cylinders up to last.
SizeOf(d, k) == LET e == d.idx[k][Len(d.idx[k])] IN e.lbn + e.runlen
CylindersUpTo(d, k, last) ==
  \A i \in DOMAIN d.idx[k] : 0 <= LowCyl(d.idx[k][i]) /\ HighCyl(d.idx[k][i]) <= last

\* A copy is all of a track, or of a node that has no more cylinders than the copy.
FitsTrack(d, e) ==
  /\ e.len = d.track[e.child].spt
  /\ e.len = d.track[e.child].high + 1
  /\ e.cyllen = 1
  /\ e.head \in 0 .. d.heads - 1
FitsNode(d, e) ==
  /\ e.len = SizeOf(d, e.child)
  /\ e.cylrunlen > 0
  /\ CylindersUpTo(d, e.child, e.cyllen - 1)
Fits(d, e) == IF e.childtype = "TRACK" THEN FitsTrack(d, e) ELSE FitsNode(d, e)

\* Two entries have no track in common.
TracksApart(e, f) ==
  \/ HighCyl(e) < LowCyl(f)
  \/ HighCyl(f) < LowCyl(e)
  \/ e.childtype = "TRACK" /\ f.childtype = "TRACK" /\ e.head # f.head

\* The entries of node k follow each other from address 0.
TiledNode(d, k) ==
  LET ents == d.idx[k]
  IN  /\ ents # <<>>
      /\ ents[1].lbn = 0
      /\ \A i \in 1 .. Len(ents) - 1 : ents[i + 1].lbn = ents[i].lbn + ents[i].runlen
      /\ \A i \in DOMAIN ents : WholeRun(ents[i]) /\ Fits(d, ents[i])
      /\ \A i, j \in DOMAIN ents : i # j => TracksApart(ents[i], ents[j])

\* The first address behind slip k.
SlipEnd(s, k) == s[k].off + s[k].count - (IF k = 1 THEN 0 ELSE s[k - 1].count)

\* Slips do not overlap, and none is at address 0.
SlipsInOrder(s) ==
  /\ s[1] = [off |-> 0, count |-> 0]
  /\ \A k \in 1 .. Len(s) - 1 : s[k].count <= s[k + 1].count /\ SlipEnd(s, k) <= s[k + 1].off

\* The tree has room for the last LBN, and no slip stands so near to the end of the
\* disk that g4_recurse's highest address is not its (layout_g4.c:403).
RoomForLast(d) ==
  /\ TopAddress(d) = Shifted(d, d.sectors - 1)
  /\ TopAddress(d) < SizeOf(d, Len(d.idx))

Tiled(d) ==
  /\ WellFormed(d)
  /\ d.remaps = <<>>
  /\ \A k \in DOMAIN d.idx : TiledNode(d, k)
  /\ Root(d)[1].cyl = 0
  /\ CylindersUpTo(d, Len(d.idx), d.cyls)
  /\ SlipsInOrder(d.slips)
  /\ RoomForLast(d)

\* The LBNs fill the tree but for one sector at most.
FillsTree(d) == SizeOf(d, Len(d.idx)) - 2 <= TopAddress(d)

-----------------------------------------------------------------------------
(* For properties *)

\* How far two angles are apart, over the smaller of the two ways around.
Apart(a, b) == Lesser((a - b) % Circle, (b - a) % Circle)

\* What the rounding of dm_rottime and dm_rotate to their grains adds up to: an
\* angle of each, and those that pass in one unit of time.
Precision == TimeGrain + AngleGrain + (Circle \div Period)
=============================================================================

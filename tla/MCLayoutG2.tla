----------------------------- MODULE MCLayoutG2 -----------------------------
(***************************************************************************)
(* Model checking LayoutG2 on small raw files: plain, with a slipped       *)
(* sector, a remapped one, a cylinder without extents, gaps in the LBNs,   *)
(* and more extents or defects than there is room for.                     *)
(***************************************************************************)
EXTENDS LayoutG2

Ext(lbn, cyl, head, sector, n) ==
  [lbn |-> lbn, cyl |-> cyl, head |-> head, sector |-> sector,
   word |-> IF n > 1 THEN "seqcnt" ELSE "cnt", count |-> IF n > 1 THEN n - 1 ELSE 1]

Zone(cyllow, cylhigh, lbnlow, lbnhigh, st) ==
  [st |-> st, cyllow |-> cyllow, cylhigh |-> cylhigh, lbnlow |-> lbnlow, lbnhigh |-> lbnhigh,
   csskew |-> 5, hsskew |-> 3, zskew |-> 7, sector_width |-> Circle \div st]

File(cyls, heads, zones, extents, bad) ==
  [cyls |-> cyls, heads |-> heads, zones |-> zones, extents |-> extents, defects |-> bad]

Defect == [cyl |-> 0, head |-> 0, sector |-> 1]

Serpentine ==
  << Ext(0, 0, 0, 0, 2), Ext(2, 0, 1, 0, 2), Ext(4, 1, 1, 0, 2), Ext(6, 1, 0, 0, 2),
     Ext(8, 2, 0, 0, 2), Ext(10, 2, 1, 0, 2), Ext(12, 3, 1, 0, 3), Ext(15, 3, 0, 0, 3) >>

TwoZones == << Zone(0, 2, 0, 11, 2), Zone(3, 3, 12, 17, 3) >>

\* Zone 1 from cylinder 1 on, so that its first cylinder has one after it.
EarlyZone == << Zone(0, 0, 0, 3, 2), Zone(1, 3, 4, 17, 3) >>

Slipped ==
  << Ext(0, 0, 0, 0, 1), Ext(1, 0, 0, 2, 1), Ext(2, 0, 1, 0, 3), Ext(5, 1, 0, 0, 3), Ext(8, 1, 1, 0, 1) >>

Remapped ==
  << Ext(0, 0, 0, 0, 3), Ext(3, 0, 1, 0, 1), Ext(4, 2, 1, 1, 1), Ext(5, 0, 1, 2, 1), Ext(6, 1, 0, 0, 3),
     Ext(9, 1, 1, 0, 3), Ext(12, 2, 0, 0, 3), Ext(15, 2, 1, 0, 1) >>

Hole == << Ext(0, 0, 0, 0, 3), Ext(3, 0, 1, 0, 3), Ext(8, 2, 0, 0, 3), Ext(11, 2, 1, 1, 2) >>

OneHead == << Ext(0, 0, 0, 0, 2), Ext(2, 1, 0, 0, 2) >>

OneTrack(n) == SubSeq(<< Ext(0, 0, 0, 0, 1), Ext(1, 0, 0, 2, 1), Ext(2, 0, 0, 1, 1) >>, 1, n)

MCFiles ==
  { File(4, 2, TwoZones, Serpentine, <<>>), File(4, 2, TwoZones, Serpentine, <<Defect>>),
    File(4, 2, TwoZones, Serpentine, <<Defect, Defect>>), File(4, 2, EarlyZone, Serpentine, <<>>),
    File(5, 2, TwoZones, Serpentine, <<>>),
    File(2, 1, << Zone(0, 0, 0, 1, 2), Zone(1, 1, 2, 3, 2) >>, OneHead, <<>>),
    File(2, 2, << Zone(0, 1, 0, 8, 3) >>, Slipped, <<>>),
    File(3, 2, << Zone(0, 2, 0, 15, 3) >>, Remapped, <<Defect>>),
    File(3, 2, << Zone(0, 0, 0, 5, 3), Zone(2, 2, 8, 12, 3) >>, Hole, <<>>),
    File(3, 2, << Zone(0, 2, 0, 12, 3) >>, Hole, <<>>) }
  \cup { File(1, 1, << Zone(0, 0, 0, n - 1, 3) >>, OneTrack(n), <<>>) : n \in 1 .. 3 }
=============================================================================

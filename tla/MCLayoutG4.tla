----------------------------- MODULE MCLayoutG4 -----------------------------
(***************************************************************************)
(* Small disks for LayoutG4, and its properties.                           *)
(***************************************************************************)
EXTENDS LayoutG4, SmallDisks
LOCAL INSTANCE FiniteSetsExt
LOCAL INSTANCE FiniteSets

McCyls    == 0 .. 4
McHeads   == 0 .. 1
McSectors == 0 .. 3
McThetas  == 0 .. Circle - 1

Homes  == HomesOf(Disks)
Places == PlacesOf(Homes)
TrackStarts == [d \in Disks |-> { x[1] : x \in { y \in Unrolled(d) : y[4] = 0 } }]

Lbns == LbnsOf(disk)
Home(l) == Homes[disk][l]
PlaceOfLbn(l) == Places[disk][l]

-----------------------------------------------------------------------------
(* Properties *)

\* Every variable has its C type's range, and g4_track_bound's search for the
\* last sector stays on the track.
TypeOK ==
  /\ disk \in Disks
  /\ pc \in {"idle", "first", "last", "done", "aborted"}
  /\ pbn \in [cyl : Int, head : Nat, sector : Nat]
  /\ from \in -1 .. disk.sectors - 1
  /\ arg \in Int /\ ret \in Int /\ out \in Int
  /\ want \in [l0 : BOOLEAN, ln : BOOLEAN]
  /\ pi \in -IntMax - 1 .. IntMax
  /\ pc = "last" => pi >= 0
  /\ l0 \in Int /\ ln \in Int

\* ltop finds the LBN's place in the unrolled tree, or its spare, for exactly
\* the LBNs the disk has.
LtopUnrolls ==
  Done("ltop") => /\ ret = (IF arg \in Lbns THEN DM_OK ELSE DM_NX)
                  /\ ret = DM_OK => pbn = PlaceOfLbn(arg)

\* ptol of any sector: the LBN the sector holds, the LBN that was moved away
\* from it, or DM_NX for slipped and spare sectors and for places off the disk.
PtolUnrolls ==
  Done("ptol") =>
    ret = LET held == { l \in Lbns : PlaceOfLbn(l) = pbn }
              home == { l \in Lbns : Home(l) = pbn }
          IN  IF held # {} THEN Min(held) ELSE IF home # {} THEN Min(home) ELSE DM_NX

\* g4_track_bound's searches end: layout_g4.c:656 goes up and 667 down until a
\* mapped sector is found, with no other way out for the first.
BoundsEnd == [](pc \in {"first", "last"} => <>(pc \notin {"first", "last"}))

\* The sectors of an LBN's track are the same by LBN and by place, on disks
\* that slip or remap but do not do both.
SptAgrees ==
  Done("spt_lbn") /\ (disk.remaps = <<>> \/ Len(disk.slips) = 1) =>
    ret = g4_spt_pbn(disk, PlaceOfLbn(arg))

\* Without slips, an LBN's zone is the one whose cylinders hold it, or the one
\* before for the first LBN of a zone.
ZoneNearCylinder ==
  Done("zone") /\ Len(disk.slips) = 1 =>
    \E n \in {ret, ret + 1} \cap Zones(disk) :
      LET z == g4_get_zone(disk, n)
      IN  /\ z.cyl_low <= Home(arg).cyl /\ Home(arg).cyl < z.cyl_high
          /\ n # ret => arg = z.lbn_low

\* Track c, counting across heads, starts at the c-th of the track starts in
\* layout order, head runs that come back included.
TracksInOrder ==
  Done("abs_cyl") =>
    /\ out \in TrackStarts[disk]
    /\ Cardinality({ s \in TrackStarts[disk] : s < out }) = arg

-----------------------------------------------------------------------------
(* What the run checks *)

\* ltop and ptol of layout_g4.c take every LBN to the place the unrolled tree gives
\* it and back again, and both ways of asking for a track's sectors agree.
PlacesAsMeant == TypeOK /\ RoundTrip /\ LtopUnrolls /\ PtolUnrolls /\ SptAgrees

\* The zone of an LBN and the place of an absolute track agree with the tree.
ZonesAndTracks == ZoneNearCylinder /\ TracksInOrder
=============================================================================

------------------------------ MODULE MCAccess ------------------------------
(***************************************************************************)
(* Accesses to the small disks.  One angle takes two and a half units of   *)
(* time; dm_rottime is good to two angles.                                 *)
(***************************************************************************)
EXTENDS Access, SmallDisks

McDisks  == { Plain, Tracks(4) } \cup SpareTracks
             \cup { Disk(18, <<<<3, 1>>, <<13, 1>>>>, <<>>), Disk(16, <<<<6, 3>>, <<12, 1>>>>, <<>>) }

McStates == { [cyl |-> c[1], head |-> c[2], theta |-> t] : c \in { <<0, 0>>, <<3, 1>> }, t \in {1, 21, 40} }
              \cup { [cyl |-> 1, head |-> 1, theta |-> 30] }

\* Reading and writing have the same curve but for one cylinder.
McSeekFn == << <<0, 20, 31, 38, 44>>, <<0, 17, 31, 38, 44>> >>
McSeek   == [rw \in {Write, Read} |-> [dist \in 0 .. 4 |-> McSeekFn[rw + 1][dist + 1]]]

\* ltop answers with where the LBNs of these disks really are.
ASSUME PlacesAgree ==
  LET Places == PlacesOf(HomesOf(Disks))
  IN  \A d \in Disks : \A lbn \in LbnsOf(d) : SectorOf(d, lbn) = Places[d][lbn]

\* They are like the layout files that come with the disk models, and some have LBNs
\* to the end of their last track.
ASSUME DisksTiled == \A d \in Disks : Tiled(d)
ASSUME SomeFilled == \E d \in Disks : FillsTree(d)
=============================================================================

----------------------------- MODULE MCHddCalc ------------------------------
(***************************************************************************)
(* Traces of two accesses to the small disks.  One angle takes two and a   *)
(* half units of time.                                                     *)
(***************************************************************************)
EXTENDS HddCalc, SmallDisks

\* Of the last, the second track has one sector left, which a run of three passes by.
McDisks == { Plain, Tracks(4), Disk(16, <<<<6, 3>>, <<12, 1>>>>, <<>>),
             Disk(18, <<<<4, 2>>>>, <<>>) }

\* Reads and writes of one sector and of a track, all over the disk and past its
\* end; late arrivals for one access.
McLines ==
  [load : {0}, to : {0, 1, 2, 5, 11, 12, 14, 15, 20}, len : {1, 3}, rw : {Read, Write}]
  \cup [load : {45, 100, 150, 220, 500}, to : {7}, len : {1}, rw : {Read}]

McIdle == [wait1 |-> 30, recover1 |-> 10, wait2 |-> 40, recover2 |-> 12, wait3 |-> 50, recover3 |-> 15,
           timer |-> 60, recover4 |-> 25]

McSeekFn == << <<0, 20, 31, 38, 44>>, <<0, 17, 31, 38, 44>> >>
McSeek   == [rw \in {Write, Read} |-> [dist \in 0 .. 4 |-> McSeekFn[rw + 1][dist + 1]]]

\* ltop answers with where the LBNs of these disks really are.
ASSUME PlacesAgree ==
  LET Places == PlacesOf(HomesOf(Disks))
  IN  \A d \in Disks : \A lbn \in LbnsOf(d) : SectorOf(d, lbn) = Places[d][lbn]
=============================================================================

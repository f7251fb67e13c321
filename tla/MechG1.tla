------------------------------- MODULE MechG1 -------------------------------
(***************************************************************************)
(* The mechanics of a mech_g1 disk over a G4 layout, as operators: seek,   *)
(* rotation, rotational latency and transfer.  A mechanical state is       *)
(* [cyl, head, theta].  Times are in units of dm_time_t, which is signed,  *)
(* and stay far below the half second at which dm_rotate's shift would     *)
(* overflow.                                                               *)
(***************************************************************************)
EXTENDS G4Map

CONSTANTS Period,      \* m->rotatetime
          TimeGrain,   \* the angles dm_rottime cannot tell apart: 2^12
          AngleGrain,  \* the angles dm_rotate cannot tell apart: 2^8
          SeekFn,      \* m->seekfn: the time by rw and distance in cylinders
          HeadSwitch,  \* m->headswitch
          WriteDelta,  \* m->seekwritedelta
          DualProfile  \* m->iFlagDualSeekProfile

ASSUME MechAssumption ==
  /\ Period \in Nat \ {0}
  /\ TimeGrain \in Nat \ {0} /\ Circle % TimeGrain = 0
  /\ AngleGrain \in Nat \ {0} /\ Circle % AngleGrain = 0
  /\ HeadSwitch \in Nat /\ WriteDelta \in Nat
  /\ DualProfile \in BOOLEAN

Write == 0
Read  == 1

Larger(a, b) == IF a < b THEN b ELSE a

-----------------------------------------------------------------------------
(* Rotation *)

\* Forward from one angle to another; angles wrap around.
dm_rottime(begin, end) ==
  ((((end - begin) % Circle) \div TimeGrain) * Period) \div (Circle \div TimeGrain)

dm_rotate(time) ==
  (((time * (Circle \div AngleGrain)) \div Period) * AngleGrain) % Circle

TrackAt(s)       == [cyl |-> s.cyl, head |-> s.head, sector |-> 0]
SectorAt(s, sec) == [cyl |-> s.cyl, head |-> s.head, sector |-> sec]

\* The width of sector 0, whatever the length.
dm_xfertime(d, s, len) == dm_rottime(0, g4_sector_width(d, TrackAt(s), len))

-----------------------------------------------------------------------------
(* Seeking *)

dm_headswitch_time(h1, h2) == IF h1 # h2 THEN HeadSwitch ELSE 0

\* Settling for a write is added unless the curve already has it.
dm_seek_time(from, to, rw) ==
  LET seek == SeekFn[rw][Magnitude(to.cyl - from.cyl)]
      move == Larger(dm_headswitch_time(from.head, to.head), seek)
  IN  IF ~DualProfile /\ move # 0 /\ rw = Write THEN move + WriteDelta ELSE move

\* Faulty variant: the disk stands still while the arm moves.
OnTrackUnturned(s, p, seek) == [cyl |-> p.cyl, head |-> p.head, theta |-> s.theta]

\* The state s once the arm is over the track of p.
OnTrack(s, p, seek) ==
  [cyl |-> p.cyl, head |-> p.head, theta |-> (s.theta + dm_rotate(seek)) % Circle]

-----------------------------------------------------------------------------
(* Latency.  ok is FALSE when an assertion fails or a division traps. *)

LastAccessed(start, len, sectors) ==
  IF start + len - 1 >= sectors THEN sectors - 1 ELSE start + len - 1

\* The head is not inside the access from angle a to angle b.
OutsideAccess(theta, a, b) ==
  \/ theta <= a /\ a < b
  \/ b < theta /\ theta <= a
  \/ a < b /\ b <= theta

\* An angle measured from the start of the track, rounded up to a sector's start.
NextStart(skewed, width) ==
  IF skewed % width = 0 THEN skewed ELSE (skewed + width - (skewed % width)) % Circle

\* g4_atop at the next sector start: the sector, whose LBN is mapped; start stands
\* for any failure to map it.  zero is the width of sector 0.
MappedSector(d, s, start, sectors, sec) ==
  IF ptol(d, SectorAt(s, sec)) < 0 THEN [ok |-> TRUE, sector |-> start]
  ELSE [ok |-> sec < sectors, sector |-> sec]

SectorUnder(d, s, start, sectors, width, zero) ==
  IF zero = 0 THEN [ok |-> FALSE, sector |-> start]
  ELSE MappedSector(d, s, start, sectors,
                    NextStart((s.theta - g4_skew(d, TrackAt(s))) % Circle, width) \div zero)

\* The first sector to be read when the head is inside the access.
SectorInside(d, s, start, sectors, width) ==
  IF width = 0 THEN [ok |-> TRUE, sector |-> start]
  ELSE SectorUnder(d, s, start, sectors, width, g4_sector_width(d, TrackAt(s), 1))

\* The first sector to be read, from the state s, of an access to sectors start to
\* last, which start at angles a and b.
FirstRead(d, s, start, sectors, last, a, b) ==
  IF OutsideAccess(s.theta, a, b) \/ last = start
  THEN [ok |-> start < sectors, sector |-> start]
  ELSE SectorInside(d, s, start, sectors, g4_sector_width(d, SectorAt(s, last), 1))

BlockOf(d, s, start, len, immed, sectors, last) ==
  IF len > sectors THEN [ok |-> FALSE, sector |-> start]
  ELSE IF ~immed THEN [ok |-> TRUE, sector |-> start]
  ELSE FirstRead(d, s, start, sectors, last,
                 g4_skew(d, SectorAt(s, start)), g4_skew(d, SectorAt(s, last)))

BlockOn(d, s, start, len, immed, sectors) ==
  BlockOf(d, s, start, len, immed, sectors, LastAccessed(start, len, sectors))

g1_access_block(d, s, start, len, immed) ==
  BlockOn(d, s, start, len, immed, g4_spt_pbn(d, SectorAt(s, start)))

\* The wait for block, when all but some spare sectors are accessed.
WaitFor(d, s, spare, extra, block) ==
  [ok   |-> block.ok /\ (spare = 0 \/ extra # 0),
   time |-> dm_rottime(s.theta, g4_skew(d, SectorAt(s, block.sector))),
   add  |-> dm_rottime(0, extra)]

WaitInside(d, s, spare, block) ==
  WaitFor(d, s, spare, IF spare = 0 THEN 0 ELSE g4_sector_width(d, SectorAt(s, spare), spare),
          block)

\* The wait on a track of sectors for an access from angle a to angle b, which
\* starts and ends with sectors start and last.
WaitBetween(d, s, start, len, immed, sectors, last, a, b) ==
  IF len > sectors \/ ~immed \/ OutsideAccess(s.theta, a, b) \/ last = start
  THEN [ok |-> len <= sectors, time |-> dm_rottime(s.theta, a), add |-> 0]
  ELSE WaitInside(d, s, sectors - len, g1_access_block(d, s, start, len, immed))

\* [ok, time, add]: the wait before the transfer, and the wait inside it.
WaitUpTo(d, s, start, len, immed, sectors, last) ==
  WaitBetween(d, s, start, len, immed, sectors, last,
              g4_skew(d, SectorAt(s, start)), g4_skew(d, SectorAt(s, last)))

WaitOn(d, s, start, len, immed, sectors) ==
  WaitUpTo(d, s, start, len, immed, sectors, LastAccessed(start, len, sectors))

dm_latency(d, s, start, len, immed) ==
  WaitOn(d, s, start, len, immed, g4_spt_pbn(d, TrackAt(s)))

-----------------------------------------------------------------------------
(* Positioning and access on one track *)

\* [ok, time, breakdown], from the seek time and the wait after it.
Positioned(seek, wait) ==
  [ok |-> wait.ok, time |-> seek + wait.time,
   breakdown |-> [seektime |-> seek, initial_latency |-> wait.time, initial_xfer |-> 0,
                  addl_latency |-> 0, addl_xfer |-> 0]]

PositionedAfter(d, s, start, len, immed, seek) ==
  Positioned(seek, dm_latency(d, OnTrack(s, start, seek), start.sector, len, immed))

dm_pos_time(d, s, start, len, rw, immed) ==
  PositionedAfter(d, s, start, len, immed, dm_seek_time(s, start, rw))

\* [ok, time, state, breakdown] of an access on one track, from its times; s is the
\* state before it and there the one after the seek.
Accessed(s, there, seek, wait, xfer) ==
  LET total == seek + wait.time + xfer
  IN  [ok |-> wait.ok, time |-> total,
       state |-> [there EXCEPT !.theta = (s.theta + dm_rotate(total)) % Circle],
       breakdown |-> [seektime |-> seek, initial_latency |-> wait.time - wait.add,
                      initial_xfer |-> xfer, addl_latency |-> wait.add, addl_xfer |-> 0]]

AccessedFrom(d, s, there, seek, start, len, immed) ==
  Accessed(s, there, seek, dm_latency(d, there, start.sector, len, immed),
           dm_xfertime(d, there, len))

AccessAfter(d, s, seek, start, len, immed) ==
  AccessedFrom(d, s, OnTrack(s, start, seek), seek, start, len, immed)

\* The access, waiting with immed.
AccessTrack(d, s, start, len, rw, immed) ==
  AccessAfter(d, s, dm_seek_time(s, start, rw), start, len, immed)

\* dm_acctime_track as dm_acctime_g1 calls it, never with immed.
dm_acctime_track(d, s, start, len, rw) == AccessTrack(d, s, start, len, rw, FALSE)

\* An angle stored in an int.
AsInt(theta) == IF theta >= Circle \div 2 THEN theta - Circle ELSE theta

\* The LBN that dm_acctime_track_immed takes to be under the head: ptol of the
\* mechanical state, whose angle is read as a sector number.
InitialLbn(d, s, start, rw) ==
  LET Under(there) == SectorAt(there, AsInt(there.theta))
  IN  ptol(d, Under(OnTrack(s, start, dm_seek_time(s, start, rw))))

\* The wait is the zero-latency one only when that LBN is inside the access.
dm_acctime_track_immed(d, s, start, len, rw, first, last) ==
  LET Inside(initial) == initial > first /\ initial < last
  IN  AccessTrack(d, s, start, len, rw, Inside(InitialLbn(d, s, start, rw)))
=============================================================================

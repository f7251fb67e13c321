---------------------------- MODULE AccessProofs ----------------------------
(***************************************************************************)
(* Access times for any layout, seek curve and grains of time and angle    *)
(* that keep the promises of AccessAssumption: the loop of dm_acctime_g1   *)
(* over the tracks of an access covers its run without an assertion        *)
(* failing, the times and the angle of the disk agree, and the latency     *)
(* brings the first sector under the head.                                 *)
(***************************************************************************)
EXTENDS Access, MechServiceProofs

IsSeq(q) == \E S : q \in Seq(S)

Places(d)   == [cyl : Cylinders(d), head : 0 .. d.heads - 1, sector : Nat]
OnDisk(m)   == m.cyl \in Cylinders(disk) /\ m.theta \in 0 .. Circle - 1
Breakdowns  == [seektime : Int, initial_latency : Int, initial_xfer : Int,
                addl_latency : Int, addl_xfer : Int]

\* The LBN after the parts so far.
Covered == IF parts = <<>> THEN req.first ELSE LastPart.to + 1

Typed ==
  /\ disk \in Disks
  /\ pc \in {"idle", "loop", "done"}
  /\ req.first \in 0 .. disk.sectors - 1 /\ req.len \in 0 .. MaxLen
  /\ req.rw \in {Read, Write} /\ req.immed \in BOOLEAN
  /\ pc # "idle" => req.start = SectorOf(disk, req.first)
  /\ istate \in States \cup {AtRest} /\ OnDisk(istate) /\ OnDisk(s)
  /\ pbn \in Places(disk)
  /\ l \in 0 .. disk.sectors /\ lastlbn \in 0 .. disk.sectors - 1
  /\ result \in Nat
  /\ breakdown \in Breakdowns

\* Between two turns of the loop the parts end where the next begins, on another track.
LoopInv ==
  /\ IsSeq(parts)
  /\ pc = "idle" => parts = <<>> /\ result = 0 /\ breakdown = NoTime
  /\ pc = "loop" =>
       /\ req.op = "access"
       /\ l = Covered
       /\ lastlbn = req.first + req.len - 1
       /\ l <= lastlbn
       /\ parts = <<>> => s = istate /\ result = 0
       /\ parts # <<>> => req.first < l /\ ~OneTrack(SectorOf(disk, l), LastPart)
  /\ PartsInOrder
  /\ PartsOnTracks

Inv == Typed /\ LoopInv

-----------------------------------------------------------------------------
(* What layout and mechanics answer *)

LEMMA Disk ==
  ASSUME NEW d \in Disks
  PROVE  d.sectors \in Nat \ {0} /\ d.cyls \in Nat \ {0} /\ d.heads \in Nat \ {0}
BY AccessAssumption DEF FindsLbns

LEMMA SectorType ==
  ASSUME NEW d \in Disks, NEW lbn \in 0 .. d.sectors - 1
  PROVE  /\ SectorOf(d, lbn) \in [cyl : Cylinders(d), head : 0 .. d.heads - 1,
                                sector : 0 .. Circle - 1]
         /\ SectorOf(d, lbn) \in [cyl : Nat, head : Nat, sector : 0 .. Circle - 1]
         /\ SectorOf(d, lbn) \in [cyl : Nat, head : Nat, sector : Nat]
         /\ SectorOf(d, lbn) \in Places(d)
         /\ \A old : ltop(d, lbn, old).pbn = SectorOf(d, lbn)
         /\ ptol(d, SectorOf(d, lbn)) = lbn
         /\ lbn \in Nat
<1>1. FindsLbns(d)
  BY AccessAssumption
<1>2. /\ SectorOf(d, lbn) \in [cyl : Cylinders(d), head : 0 .. d.heads - 1,
                             sector : 0 .. Circle - 1]
      /\ ltop(d, lbn, Origin).status = DM_OK
      /\ ptol(d, SectorOf(d, lbn)) = lbn
  BY <1>1 DEF FindsLbns
<1>3. \A old : ltop(d, lbn, old).pbn = SectorOf(d, lbn)
  BY <1>2, SectorAnyStruct
<1>4. d.cyls \in Nat /\ d.heads \in Nat /\ d.sectors \in Nat /\ Circle \in Nat
  BY Disk, AnglesType
<1> QED
  BY <1>2, <1>3, <1>4 DEF Places, Cylinders

\* The number of sectors on an LBN's track is that at sector 0 of the track.
LEMMA TrackType ==
  ASSUME NEW d \in Disks, NEW lbn \in 0 .. d.sectors - 1
  PROVE  LET p == SectorOf(d, lbn)
         IN  /\ EvenTrack(d, p) /\ WideToTheEnd(d, p)
             /\ g4_spt_pbn(d, p) = g4_spt_pbn(d, TrackAt(p)) /\ g4_spt_pbn(d, p) \in Nat
             /\ g4_skew(d, p) \in Int
             /\ g4_sector_width(d, TrackAt(p), 1) \in Int
<1> DEFINE p == SectorOf(d, lbn)
<1>1. EvenTrack(d, p) /\ WideToTheEnd(d, p)
  BY AccessAssumption DEF EvenTracks, TracksHaveWidth
<1>2. p \in [cyl : Nat, head : Nat, sector : 0 .. Circle - 1] /\ ptol(d, p) \in Nat
  BY SectorType
<1> HIDE DEF p
<1>3. SectorAt(p, p.sector) = p /\ SectorAt(p, 0) = TrackAt(p) /\ p.sector \in 0 .. Circle - 1
  BY <1>2 DEF SectorAt, TrackAt
<1>4. ~(ptol(d, SectorAt(p, p.sector)) < 0)
  BY <1>2, <1>3
<1>5. /\ g4_spt_pbn(d, SectorAt(p, p.sector)) = g4_spt_pbn(d, TrackAt(p))
      /\ g4_skew(d, SectorAt(p, p.sector)) \in Int
      /\ g4_spt_pbn(d, TrackAt(p)) \in Nat
  BY <1>1, <1>2, <1>3, <1>4, EvenTrackType
<1>6. g4_sector_width(d, SectorAt(p, 0), 1) \in Int
  <2> DEFINE n == g4_spt_pbn(d, TrackAt(p))
             w == SectorAngle(n)
  <2>1. n \in 1 .. Circle /\ w \in Int /\ \A k \in 0 .. n - 1 : g4_sector_width(d, SectorAt(p, k), 1) \in {0, w}
    BY <1>1, <1>2, EvenTrackType
  <2> HIDE DEF n, w
  <2>2. 0 \in 0 .. n - 1
    BY <2>1, AnglesType
  <2> QED
    BY <2>1, <2>2
<1> QED
  BY <1>1, <1>3, <1>5, <1>6 DEF p

\* Positioning and transfer on one track from the state m.
Seek(m, p, rw)                  == dm_seek_time(m, p, rw)
There(m, p, rw)                 == OnTrack(m, p, Seek(m, p, rw))
Wait(d, m, p, len, rw, immed)   == dm_latency(d, There(m, p, rw), p.sector, len, immed)
Xfer(d, m, p, len, rw)          == dm_xfertime(d, There(m, p, rw), len)

LEMMA TrackTimes ==
  ASSUME NEW d \in Disks, NEW lbn \in 0 .. d.sectors - 1, NEW rw \in {Read, Write},
         NEW m, m.cyl \in Cylinders(d), m.theta \in 0 .. Circle - 1,
         NEW len \in 1 .. g4_spt_pbn(d, SectorOf(d, lbn)), NEW immed \in BOOLEAN
  PROVE  LET p    == SectorOf(d, lbn)
             seek == Seek(m, p, rw)
             wait == Wait(d, m, p, len, rw, immed)
         IN  /\ seek \in Nat /\ wait.time \in Nat /\ wait.add \in Nat /\ wait.ok
             /\ Xfer(d, m, p, len, rw) \in Nat
             /\ There(m, p, rw) = Over(p, (m.theta + dm_rotate(seek)) % Circle)
             /\ wait.time <= Wait(d, m, p, len, rw, FALSE).time
             /\ ~immed =>
                  /\ wait.add = 0 /\ wait.time \in 0 .. Period - 1
                  /\ Apart(m.theta + dm_rotate(seek + wait.time), g4_skew(d, p)) < Precision
<1> DEFINE p     == SectorOf(d, lbn)
           seek  == Seek(m, p, rw)
           wait  == Wait(d, m, p, len, rw, immed)
           a     == (m.theta + dm_rotate(seek)) % Circle
           b     == g4_skew(d, p)
<1>1. /\ p \in [cyl : Cylinders(d), head : 0 .. d.heads - 1, sector : 0 .. Circle - 1]
      /\ p \in [cyl : Nat, head : Nat, sector : 0 .. Circle - 1]
      /\ p \in [cyl : Nat, head : Nat, sector : Nat] /\ ptol(d, p) \in Nat
  BY SectorType
<1>2. /\ EvenTrack(d, p) /\ WideToTheEnd(d, p)
      /\ g4_spt_pbn(d, p) = g4_spt_pbn(d, TrackAt(p))
      /\ b \in Int /\ g4_sector_width(d, TrackAt(p), 1) \in Int
  BY TrackType
<1>l. len \in 1 .. g4_spt_pbn(d, TrackAt(p))
  BY <1>2
<1> HIDE DEF p
<1>3. seek \in Nat
  <2>1. d.cyls \in Nat /\ SeeksTakeTime(d) /\ p.cyl \in Cylinders(d)
    BY <1>1, Disk, AccessAssumption
  <2> QED
    BY <2>1, SeekNat DEF Seek
<1>4. There(m, p, rw) = Over(p, a)
  BY DEF There, OnTrack, Over
<1> HIDE DEF seek
<1>5. m.theta \in Int /\ seek \in Int
  BY <1>3, AnglesType
<1>6. dm_rotate(seek) \in Int /\ Cong(dm_rotate(seek), Turn(seek))
  BY <1>5, RotateIs
<1>7. a \in Int
  <2>1. m.theta + dm_rotate(seek) \in Int
    BY <1>5, <1>6
  <2>2. a \in 0 .. Circle - 1
    BY <2>1, CongMod
  <2> QED
    BY <2>2, AnglesType
<1> HIDE DEF a, b
<1>8. Xfer(d, m, p, len, rw) \in Nat
  BY <1>2, <1>4, XfertimeNat DEF Xfer
<1>9. wait = dm_latency(d, Over(p, a), p.sector, len, immed)
  BY <1>4 DEF Wait
<1> DEFINE later == Wait(d, m, p, len, rw, FALSE)
<1>10. later.time = dm_rottime(a, b) /\ later.add = 0
  <2>1. later = dm_latency(d, Over(p, a), p.sector, len, FALSE)
    BY <1>4 DEF Wait
  <2> HIDE DEF later
  <2>2. later = [ok |-> len <= g4_spt_pbn(d, TrackAt(p)), time |-> dm_rottime(a, b), add |-> 0]
    BY <1>1, <2>1, WaitsForSector DEF b
  <2> QED
    BY <2>2
<1> HIDE DEF later
<1>11. wait.time \in Nat /\ wait.time <= dm_rottime(a, b) /\ wait.add \in Nat /\ wait.ok
  BY <1>1, <1>2, <1>l, <1>7, <1>9, Waits DEF b
<1>12. ASSUME ~immed
       PROVE  /\ wait.add = 0 /\ wait.time \in 0 .. Period - 1
              /\ Apart(m.theta + dm_rotate(seek + wait.time), b) < Precision
  <2>0. wait = later
    BY <1>12 DEF later
  <2> HIDE DEF wait
  <2>1. wait.time = dm_rottime(a, b) /\ wait.add = 0
    BY <1>10, <2>0
  <2> DEFINE time == wait.time
  <2> HIDE DEF time
  <2>2. time = dm_rottime((m.theta + dm_rotate(seek)) % Circle, b)
    BY <2>1 DEF time, a
  <2>3. time \in 0 .. Period - 1 /\ time \in Nat
    BY <1>2, <1>7, <2>1, RottimeNat DEF time
  <2>4. seek + time \in Int
    BY <1>5, <2>3
  <2>5. dm_rotate(seek + time) \in Int /\ Cong(dm_rotate(seek + time), Turn(seek + time))
    BY <2>4, RotateIs
  <2>6. Apart(m.theta + dm_rotate(seek + time), b) < Precision
    BY <1>2, <1>5, <1>6, <2>2, <2>5, SeekAndWait
  <2> QED
    BY <2>1, <2>3, <2>6 DEF time
<1>13. wait.time <= later.time
  BY <1>10, <1>11
<1> QED
  BY <1>3, <1>4, <1>8, <1>11, <1>12, <1>13 DEF seek, p, a, b, later

LEMMA AppendOne ==
  ASSUME NEW q, IsSeq(q), NEW x
  PROVE  /\ IsSeq(Append(q, x)) /\ Len(q) \in Nat
         /\ DOMAIN q = 1 .. Len(q) /\ DOMAIN Append(q, x) = 1 .. Len(q) + 1
         /\ Len(Append(q, x)) = Len(q) + 1
         /\ \A k \in 1 .. Len(q) : Append(q, x)[k] = q[k]
         /\ Append(q, x)[Len(q) + 1] = x
         /\ Append(q, x) # <<>>
         /\ q = <<>> <=> Len(q) = 0
<1>1. PICK S : q \in Seq(S)
  BY DEF IsSeq
<1>2. q \in Seq(S \cup {x})
  BY <1>1
<1>3. Append(q, x) \in Seq(S \cup {x})
  BY <1>2
<1>4. IsSeq(Append(q, x))
  BY <1>3 DEF IsSeq
<1>5. /\ Len(q) \in Nat /\ DOMAIN q = 1 .. Len(q) /\ Len(Append(q, x)) = Len(q) + 1
      /\ \A k \in 1 .. Len(q) : Append(q, x)[k] = q[k]
      /\ Append(q, x)[Len(q) + 1] = x
      /\ q = <<>> <=> Len(q) = 0
  BY <1>2
<1>6. DOMAIN Append(q, x) = 1 .. Len(q) + 1
  BY <1>3, <1>5
<1>7. Append(q, x) # <<>>
  BY <1>3, <1>5
<1> QED
  BY <1>4, <1>5, <1>6, <1>7

-----------------------------------------------------------------------------
(* One turn of the loop *)

Here == SectorOf(disk, l)
High == PartEnd(TrackEnd(disk, Here))
Long == High - l + 1
Flag == IF req.immed THEN InitialLbn(disk, s, Here, req.rw) > l /\ InitialLbn(disk, s, Here, req.rw) < lastlbn
        ELSE FALSE

SeekOf  == Seek(s, Here, req.rw)
WaitOf  == Wait(disk, s, Here, Long, req.rw, Flag)
XferOf  == Xfer(disk, s, Here, Long, req.rw)
TotalOf == SeekOf + WaitOf.time + XferOf
ThetaOf == (s.theta + dm_rotate(TotalOf)) % Circle

\* Where the parts of a loop are: the end of the next is on its track, and the end of
\* its track when more is left.
LEMMA NextPart ==
  ASSUME Inv, pc = "loop"
  PROVE  /\ l \in 0 .. disk.sectors - 1 /\ l \in Nat /\ lastlbn \in Nat
         /\ TrackEnd(disk, Here) \in Nat /\ High \in Nat /\ l <= High /\ High <= lastlbn
         /\ Long \in 1 .. g4_spt_pbn(disk, Here)
         /\ \A i \in l .. High : OneTrack(SectorOf(disk, i), Here)
         /\ High < lastlbn => ~OneTrack(SectorOf(disk, High + 1), Here)
         /\ disk \in Disks /\ disk.sectors \in Nat
<1>1. /\ disk \in Disks /\ disk.sectors \in Nat
      /\ l \in 0 .. disk.sectors /\ lastlbn \in 0 .. disk.sectors - 1 /\ l <= lastlbn
  BY Disk DEF Inv, Typed, LoopInv
<1>2. l \in 0 .. disk.sectors - 1 /\ l \in Nat /\ lastlbn \in Nat
  BY <1>1
<1> DEFINE end == TrackEnd(disk, Here)
           n   == g4_spt_pbn(disk, Here)
<1>3. /\ end \in l .. disk.sectors - 1 /\ end - l < n
      /\ \A i \in l .. disk.sectors - 1 : OneTrack(SectorOf(disk, i), Here) <=> i <= end
  <2>1. BoundsTracks(disk)
    BY <1>1, AccessAssumption
  <2> QED
    BY <1>2, <2>1 DEF BoundsTracks, Here
<1>4. n \in Nat
  BY <1>1, <1>2, TrackType DEF Here
<1>5. High = IF end < lastlbn THEN end ELSE lastlbn
  BY DEF High, PartEnd, Lesser
<1> HIDE DEF end, n
<1>6. end \in Nat /\ High \in Nat /\ l <= High /\ High <= lastlbn /\ High <= end
  BY <1>1, <1>2, <1>3, <1>5
<1>7. Long \in 1 .. n
  BY <1>2, <1>3, <1>4, <1>6 DEF Long
<1>8. \A i \in l .. High : OneTrack(SectorOf(disk, i), Here)
  <2> SUFFICES ASSUME NEW i \in l .. High PROVE OneTrack(SectorOf(disk, i), Here)
    OBVIOUS
  <2>1. i \in l .. disk.sectors - 1 /\ i <= end
    BY <1>1, <1>2, <1>6
  <2> QED
    BY <1>3, <2>1
<1>9. High < lastlbn => ~OneTrack(SectorOf(disk, High + 1), Here)
  <2> SUFFICES ASSUME High < lastlbn PROVE ~OneTrack(SectorOf(disk, High + 1), Here)
    OBVIOUS
  <2>1. High + 1 \in l .. disk.sectors - 1 /\ ~(High + 1 <= end)
    BY <1>1, <1>2, <1>5, <1>6
  <2> QED
    BY <1>3, <2>1
<1> QED
  BY <1>1, <1>2, <1>6, <1>7, <1>8, <1>9 DEF end, n

\* What one turn of the loop does.
Turned ==
  /\ pbn' = Here
  /\ result' = result + TotalOf
  /\ s' = Over(Here, ThetaOf)
  /\ l' = High + 1
  /\ breakdown' = BrokenDown(Here, High,
       [seektime |-> SeekOf, initial_latency |-> WaitOf.time - WaitOf.add, initial_xfer |-> XferOf,
        addl_latency |-> WaitOf.add, addl_xfer |-> 0])
  /\ parts' = Append(parts, [from |-> l, to |-> High, cyl |-> Here.cyl, head |-> Here.head])
  /\ pc' = IF High < lastlbn THEN "loop" ELSE "done"
  /\ disk' = disk /\ req' = req /\ istate' = istate /\ lastlbn' = lastlbn

LEMMA PartTimes ==
  ASSUME Inv, pc = "loop"
  PROVE  /\ SeekOf \in Nat /\ WaitOf.time \in Nat /\ WaitOf.add \in Nat /\ WaitOf.ok /\ XferOf \in Nat
         /\ TotalOf \in Nat
         /\ There(s, Here, req.rw) = Over(Here, (s.theta + dm_rotate(SeekOf)) % Circle)
         /\ ~req.immed =>
              /\ WaitOf.add = 0 /\ WaitOf.time \in 0 .. Period - 1
              /\ Apart(s.theta + dm_rotate(SeekOf + WaitOf.time), g4_skew(disk, Here)) < Precision
<1>1. /\ disk \in Disks /\ l \in 0 .. disk.sectors - 1 /\ Long \in 1 .. g4_spt_pbn(disk, SectorOf(disk, l))
  BY NextPart DEF Here
<1>2. /\ req.rw \in {Read, Write} /\ req.immed \in BOOLEAN
      /\ s.cyl \in Cylinders(disk) /\ s.theta \in 0 .. Circle - 1
  BY DEF Inv, Typed, OnDisk
<1>3. Flag \in BOOLEAN /\ (~req.immed => ~Flag)
  BY <1>2 DEF Flag
<1>4. /\ SeekOf \in Nat /\ WaitOf.time \in Nat /\ WaitOf.add \in Nat /\ WaitOf.ok /\ XferOf \in Nat
      /\ There(s, Here, req.rw) = Over(Here, (s.theta + dm_rotate(SeekOf)) % Circle)
      /\ ~Flag =>
           /\ WaitOf.add = 0 /\ WaitOf.time \in 0 .. Period - 1
           /\ Apart(s.theta + dm_rotate(SeekOf + WaitOf.time), g4_skew(disk, Here)) < Precision
  <2>0. PICK flag \in BOOLEAN : flag = Flag
    BY <1>3
  <2> DEFINE p    == SectorOf(disk, l)
             rw   == req.rw
             seek == Seek(s, p, rw)
             wait == Wait(disk, s, p, Long, rw, flag)
  <2> HIDE DEF rw
  <2>1. /\ rw \in {Read, Write}
        /\ s.cyl \in Cylinders(disk) /\ s.theta \in 0 .. Circle - 1
    BY <1>2, <1>3 DEF rw
  <2>2. /\ seek \in Nat /\ wait.time \in Nat /\ wait.add \in Nat /\ wait.ok
        /\ Xfer(disk, s, p, Long, rw) \in Nat
    BY <1>1, <2>1, TrackTimes
  <2>4. There(s, p, rw) = Over(p, (s.theta + dm_rotate(seek)) % Circle)
    BY <1>1, <2>1, TrackTimes
  <2>5. ASSUME ~flag
        PROVE  /\ wait.add = 0 /\ wait.time \in 0 .. Period - 1
               /\ Apart(s.theta + dm_rotate(seek + wait.time), g4_skew(disk, p)) < Precision
    BY <1>1, <2>1, <2>5, TrackTimes
  <2>3. flag = Flag /\ p = Here /\ rw = req.rw /\ seek = SeekOf /\ wait = WaitOf
        /\ Xfer(disk, s, p, Long, rw) = XferOf
    BY <2>0 DEF rw, Here, SeekOf, WaitOf, XferOf
  <2> HIDE DEF p, seek, wait
  <2> QED
    BY <2>2, <2>3, <2>4, <2>5
<1>5. TotalOf \in Nat
  BY <1>4 DEF TotalOf
<1> QED
  BY <1>3, <1>4, <1>5

\* The access of one part, in terms of its seek, wait and transfer.
LEMMA TimedIs ==
  ASSUME Inv, pc = "loop"
  PROVE  LET t == Timed(Here, High)
         IN  /\ t.ok = WaitOf.ok /\ t.time = TotalOf
             /\ t.state = Over(Here, ThetaOf)
             /\ t.breakdown =
                  [seektime |-> SeekOf, initial_latency |-> WaitOf.time - WaitOf.add,
                   initial_xfer |-> XferOf, addl_latency |-> WaitOf.add, addl_xfer |-> 0]
<1> DEFINE t == Timed(Here, High)
<1>1. t = AccessTrack(disk, s, Here, Long, req.rw, Flag)
  <2>1. CASE req.immed
    BY <2>1 DEF Timed, dm_acctime_track_immed, Flag, Long
  <2>2. CASE ~req.immed
    BY <2>2 DEF Timed, dm_acctime_track, Flag, Long
  <2> QED
    BY <2>1, <2>2
<1>2. t = Accessed(s, There(s, Here, req.rw), SeekOf, WaitOf, XferOf)
  BY <1>1 DEF AccessTrack, AccessAfter, AccessedFrom, There, Seek, SeekOf, Wait, WaitOf, Xfer, XferOf
<1>3. There(s, Here, req.rw) = Over(Here, (s.theta + dm_rotate(SeekOf)) % Circle)
  BY PartTimes
<1> HIDE DEF t
<1>4. /\ t.ok = WaitOf.ok /\ t.time = TotalOf
      /\ t.breakdown =
           [seektime |-> SeekOf, initial_latency |-> WaitOf.time - WaitOf.add,
            initial_xfer |-> XferOf, addl_latency |-> WaitOf.add, addl_xfer |-> 0]
  BY <1>2 DEF Accessed, TotalOf
<1>5. t.state = [Over(Here, (s.theta + dm_rotate(SeekOf)) % Circle) EXCEPT !.theta = ThetaOf]
  BY <1>2, <1>3 DEF Accessed, TotalOf, ThetaOf
<1>6. t.state = Over(Here, ThetaOf)
  BY <1>5 DEF Over
<1> QED
  BY <1>4, <1>6 DEF t

LEMMA PartTurns ==
  ASSUME Inv, Part
  PROVE  pc = "loop" /\ Turned
<1>1. pc = "loop"
  BY DEF Part
<1>2. ltop(disk, l, pbn).pbn = Here
  BY <1>1, NextPart, SectorType DEF Here
<1>3. PartFrom(Here, TrackEnd(disk, Here), High, Timed(Here, High))
  BY <1>2 DEF Part, PartAt, PartOn, PartUpTo, High
<1>4. ~(TrackEnd(disk, Here) < 0) /\ High \in Nat /\ lastlbn \in Nat
  BY <1>1, NextPart
<1> DEFINE t == Timed(Here, High)
<1>5. t.ok /\ t.time = TotalOf /\ t.state = Over(Here, ThetaOf)
      /\ t.breakdown =
           [seektime |-> SeekOf, initial_latency |-> WaitOf.time - WaitOf.add,
            initial_xfer |-> XferOf, addl_latency |-> WaitOf.add, addl_xfer |-> 0]
  BY <1>1, TimedIs, PartTimes
<1>6. lastlbn > High <=> High < lastlbn
  BY <1>4
<1> HIDE DEF t
<1>7. PartFrom(Here, TrackEnd(disk, Here), High, t)
  BY <1>3 DEF t
<1> QED
  BY <1>1, <1>4, <1>5, <1>6, <1>7 DEF PartFrom, HeadAfter, Turned, call

-----------------------------------------------------------------------------
(* The invariant *)

LEMMA PartTyped ==
  ASSUME Inv, pc = "loop", Turned
  PROVE  Typed'
<1>1. /\ disk \in Disks /\ disk.sectors \in Nat /\ l \in 0 .. disk.sectors - 1
      /\ High \in Nat /\ High <= lastlbn /\ lastlbn \in 0 .. disk.sectors - 1
  BY NextPart DEF Inv, Typed
<1>2. Here \in Places(disk) /\ Here.cyl \in Cylinders(disk)
  BY <1>1, SectorType DEF Here
<1>3. SeekOf \in Nat /\ WaitOf.time \in Nat /\ WaitOf.add \in Nat /\ XferOf \in Nat /\ TotalOf \in Nat
  BY PartTimes
<1>4. ThetaOf \in 0 .. Circle - 1
  <2>1. TotalOf \in Int /\ s.theta \in Int
    BY <1>3, AnglesType DEF Inv, Typed, OnDisk
  <2>2. dm_rotate(TotalOf) \in Int
    BY <2>1, RotateIs
  <2>3. s.theta + dm_rotate(TotalOf) \in Int
    BY <2>1, <2>2
  <2> QED
    BY <2>3, CongMod DEF ThetaOf
<1>5. OnDisk(s)'
  BY <1>2, <1>4 DEF Turned, OnDisk, Over
<1>6. l' \in 0 .. disk'.sectors
  BY <1>1 DEF Turned
<1>7. result' \in Nat
  <2>1. result \in Nat
    BY DEF Inv, Typed
  <2> QED
    BY <1>3, <2>1 DEF Turned
<1>8. breakdown' \in Breakdowns
  <2> DEFINE x == [seektime |-> SeekOf, initial_latency |-> WaitOf.time - WaitOf.add,
                   initial_xfer |-> XferOf, addl_latency |-> WaitOf.add, addl_xfer |-> 0]
  <2>1. x \in Breakdowns
    BY <1>3 DEF Breakdowns
  <2>2. breakdown \in Breakdowns
    BY DEF Inv, Typed
  <2>3. breakdown' = BrokenDown(Here, High, x)
    BY DEF Turned
  <2> HIDE DEF x
  <2> DEFINE y == [breakdown EXCEPT !.seektime        = x.seektime,
                                    !.initial_latency = x.initial_latency,
                                    !.initial_xfer    = x.initial_xfer + x.addl_latency + x.addl_xfer]
  <2>4. y \in Breakdowns
    <3>1. /\ x.seektime \in Int /\ x.initial_latency \in Int
          /\ x.initial_xfer + x.addl_latency + x.addl_xfer \in Int
      BY <2>1 DEF Breakdowns
    <3> QED
      BY <2>2, <3>1 DEF Breakdowns
  <2>5. breakdown' \in {breakdown, x, y}
    BY <2>3 DEF BrokenDown
  <2> HIDE DEF y
  <2> QED
    BY <2>1, <2>2, <2>4, <2>5
<1>9. /\ disk' = disk /\ req' = req /\ istate' = istate /\ lastlbn' = lastlbn /\ pbn' = Here
      /\ pc' \in {"idle", "loop", "done"}
  BY DEF Turned
<1>10. OnDisk(istate)'
  BY <1>9 DEF Inv, Typed, OnDisk
<1> QED
  BY <1>1, <1>2, <1>5, <1>6, <1>7, <1>8, <1>9, <1>10 DEF Inv, Typed, Places

\* The parts with one more.
LEMMA PartAdded ==
  ASSUME Inv, pc = "loop", Turned
  PROVE  LET n == Len(parts)
             x == [from |-> l, to |-> High, cyl |-> Here.cyl, head |-> Here.head]
         IN  /\ IsSeq(parts') /\ n \in Nat /\ DOMAIN parts = 1 .. n /\ DOMAIN parts' = 1 .. n + 1
             /\ Len(parts') = n + 1 /\ parts' # <<>> /\ (parts = <<>> <=> n = 0)
             /\ \A k \in 1 .. n : parts'[k] = parts[k]
             /\ parts'[n + 1] = x /\ LastPart' = x
<1> DEFINE x == [from |-> l, to |-> High, cyl |-> Here.cyl, head |-> Here.head]
<1>1. parts' = Append(parts, x)
  BY DEF Turned
<1> HIDE DEF x
<1>2. /\ IsSeq(parts') /\ Len(parts) \in Nat
      /\ DOMAIN parts = 1 .. Len(parts) /\ DOMAIN parts' = 1 .. Len(parts) + 1
      /\ Len(parts') = Len(parts) + 1
      /\ \A k \in 1 .. Len(parts) : parts'[k] = parts[k]
      /\ parts'[Len(parts) + 1] = x
      /\ parts' # <<>>
      /\ parts = <<>> <=> Len(parts) = 0
  BY <1>1, AppendOne DEF Inv, LoopInv
<1> QED
  BY <1>2 DEF LastPart, x

LEMMA PartLoop ==
  ASSUME Inv, pc = "loop", Turned
  PROVE  LoopInv'
<1> DEFINE n == Len(parts)
           x == [from |-> l, to |-> High, cyl |-> Here.cyl, head |-> Here.head]
<1>1. /\ IsSeq(parts') /\ n \in Nat /\ DOMAIN parts = 1 .. n /\ DOMAIN parts' = 1 .. n + 1
      /\ Len(parts') = n + 1 /\ parts' # <<>> /\ (parts = <<>> <=> n = 0)
      /\ \A k \in 1 .. n : parts'[k] = parts[k]
      /\ parts'[n + 1] = x /\ LastPart' = x
  BY PartAdded
<1>2. /\ l \in Nat /\ High \in Nat /\ lastlbn \in Nat /\ l <= High /\ High <= lastlbn
      /\ \A i \in l .. High : OneTrack(SectorOf(disk, i), Here)
      /\ High < lastlbn => ~OneTrack(SectorOf(disk, High + 1), Here)
  BY NextPart
<1>3. /\ l = Covered /\ lastlbn = req.first + req.len - 1 /\ req.op = "access"
      /\ req.first \in Nat /\ req.first <= l
      /\ parts # <<>> => ~OneTrack(Here, LastPart)
      /\ PartsInOrder /\ PartsOnTracks
  <2>1. /\ l = Covered /\ lastlbn = req.first + req.len - 1 /\ req.op = "access"
        /\ parts # <<>> => req.first < l
        /\ parts # <<>> => ~OneTrack(Here, LastPart)
        /\ PartsInOrder /\ PartsOnTracks
    BY DEF Inv, LoopInv, Here
  <2>2. req.first \in Nat
    BY Disk DEF Inv, Typed
  <2> QED
    BY <1>2, <2>1, <2>2 DEF Covered
<1>4. /\ x.from = l /\ x.to = High /\ x.cyl = Here.cyl /\ x.head = Here.head
  OBVIOUS
<1> HIDE DEF x, n
<1>5. /\ disk' = disk /\ req' = req /\ lastlbn' = lastlbn /\ l' = High + 1
      /\ pc' = IF High < lastlbn THEN "loop" ELSE "done"
  BY DEF Turned
<1>6. Covered' = High + 1
  BY <1>1, <1>4 DEF Covered
<1>7. parts # <<>> => n \in 1 .. n /\ LastPart = parts[n] /\ parts'[n] = parts[n]
  BY <1>1 DEF LastPart, n
<1>8. PartsInOrder'
  <2>1. ASSUME NEW k \in DOMAIN parts'
        PROVE  /\ parts'[k].from = IF k = 1 THEN req.first ELSE parts'[k - 1].to + 1
               /\ parts'[k].from <= parts'[k].to
    <3>1. CASE k \in 1 .. n
      <4>1. k # 1 => k - 1 \in 1 .. n
        BY <1>1, <3>1
      <4> QED
        BY <1>1, <1>3, <3>1, <4>1 DEF PartsInOrder
    <3>2. CASE k = n + 1
      <4>1. k - 1 = n
        BY <1>1, <3>2
      <4>2. l = IF n = 0 THEN req.first ELSE parts'[n].to + 1
        BY <1>1, <1>3, <1>7 DEF Covered
      <4>3. (k = 1) <=> (n = 0)
        BY <1>1, <3>2
      <4> QED
        BY <1>1, <1>2, <1>4, <3>2, <4>1, <4>2, <4>3
    <3> QED
      BY <1>1, <3>1, <3>2
  <2>2. pc' = "done" => parts'[Len(parts')].to = req.first + req.len - 1
    <3>1. pc' = "done" => High = lastlbn
      BY <1>2, <1>5
    <3> QED
      BY <1>1, <1>3, <1>4, <3>1
  <2> QED
    BY <1>1, <1>5, <2>1, <2>2 DEF PartsInOrder
<1>9. PartsOnTracks'
  <2>1. ASSUME NEW k \in DOMAIN parts'
        PROVE  /\ \A i \in parts'[k].from .. parts'[k].to : OneTrack(SectorOf(disk, i), parts'[k])
               /\ k > 1 => ~OneTrack(parts'[k], parts'[k - 1])
    <3>1. CASE k \in 1 .. n
      <4>1. k > 1 => k - 1 \in 1 .. n
        BY <1>1, <3>1
      <4> QED
        BY <1>1, <1>3, <3>1, <4>1 DEF PartsOnTracks
    <3>2. CASE k = n + 1
      <4>1. k - 1 = n /\ parts'[k] = x
        BY <1>1, <3>2
      <4>2. \A i \in l .. High : OneTrack(SectorOf(disk, i), x)
        BY <1>2, <1>4 DEF OneTrack
      <4>3. k > 1 => parts # <<>> /\ parts'[n] = LastPart
        BY <1>1, <1>7, <3>2
      <4>4. k > 1 => ~OneTrack(x, parts'[n])
        BY <1>3, <1>4, <4>3 DEF OneTrack
      <4> QED
        BY <1>4, <4>1, <4>2, <4>4
    <3> QED
      BY <1>1, <3>1, <3>2
  <2> QED
    BY <1>5, <2>1 DEF PartsOnTracks
<1>10. pc' = "loop" => High < lastlbn
  BY <1>5
<1>11. pc' = "loop" => ~OneTrack(SectorOf(disk, High + 1), x)
  BY <1>2, <1>4, <1>10 DEF OneTrack
<1>12. pc' = "loop" => High + 1 <= lastlbn
  BY <1>2, <1>10
<1>13. req.first < High + 1
  BY <1>2, <1>3
<1>14. pc' # "idle"
  BY <1>5
<1> QED
  BY <1>1, <1>3, <1>5, <1>6, <1>8, <1>9, <1>11, <1>12, <1>13, <1>14 DEF LoopInv

\* What dm_pos_time_g1 answers.
LEMMA PosIs ==
  ASSUME Inv, NEW f \in 0 .. disk.sectors - 1, NEW w \in {Read, Write}, NEW im \in BOOLEAN,
         NEW m \in StatesOn(disk), NEW n \in 1 .. Lesser(MaxLen, disk.sectors - f),
         PosTime(Request("pos", f, n, w, im), m)
  PROVE  LET p    == SectorOf(disk, f)
             seek == Seek(m, p, w)
             wait == Wait(disk, m, p, n, w, im)
         IN  /\ pc = "idle" /\ parts = <<>>
             /\ req' = [op |-> "pos", first |-> f, start |-> p, len |-> n, rw |-> w, immed |-> im]
             /\ istate' = m /\ pc' = "done"
             /\ result' = seek + wait.time
             /\ breakdown' = [seektime |-> seek, initial_latency |-> wait.time, initial_xfer |-> 0,
                              addl_latency |-> 0, addl_xfer |-> 0]
             /\ UNCHANGED <<disk, pbn, l, lastlbn, s, parts>>
             /\ dm_pos_time(disk, m, p, n, w, FALSE).time = seek + Wait(disk, m, p, n, w, FALSE).time
             /\ m.cyl \in Cylinders(disk) /\ m.theta \in 0 .. Circle - 1
             /\ n \in 1 .. g4_spt_pbn(disk, p)
             /\ disk \in Disks
<1> DEFINE p    == SectorOf(disk, f)
           seek == Seek(m, p, w)
           wait == Wait(disk, m, p, n, w, im)
<1>1. /\ disk \in Disks /\ m \in States /\ m.cyl \in Cylinders(disk) /\ m.theta \in 0 .. Circle - 1
  BY AccessAssumption DEF StatesOn, Inv, Typed
<1>2. n \in 1 .. g4_spt_pbn(disk, p)
  <2>1. n <= g4_spt_pbn(disk, p)
    BY DEF PosTime, PosTimeIs, Request
  <2>2. g4_spt_pbn(disk, p) \in Nat
    BY <1>1, TrackType
  <2>3. n \in Nat \ {0}
    BY <1>1, Disk, AccessAssumption DEF Lesser
  <2> QED
    BY <2>1, <2>2, <2>3
<1>3. wait.ok
  BY <1>1, <1>2, TrackTimes
<1>4. dm_pos_time(disk, m, p, n, w, im) = Positioned(seek, wait)
  BY DEF dm_pos_time, PositionedAfter, Seek, Wait, There
<1>5. dm_pos_time(disk, m, p, n, w, FALSE).time = seek + Wait(disk, m, p, n, w, FALSE).time
  BY DEF dm_pos_time, PositionedAfter, Positioned, Seek, Wait, There
<1> DEFINE r == Request("pos", f, n, w, im)
           t == dm_pos_time(disk, m, p, n, w, im)
<1>6. r = [op |-> "pos", first |-> f, start |-> p, len |-> n, rw |-> w, immed |-> im]
  BY DEF Request
<1>7. PosTimeIs(r, m, t)
  BY <1>6 DEF PosTime
<1>8. /\ t.time = seek + wait.time /\ t.ok = wait.ok
      /\ t.breakdown = [seektime |-> seek, initial_latency |-> wait.time, initial_xfer |-> 0,
                        addl_latency |-> 0, addl_xfer |-> 0]
  BY <1>4 DEF Positioned
<1> HIDE DEF r, t, seek, wait
<1>9. /\ pc = "idle" /\ req' = r /\ istate' = m /\ pc' = "done" /\ result' = seek + wait.time
      /\ breakdown' = [seektime |-> seek, initial_latency |-> wait.time, initial_xfer |-> 0,
                       addl_latency |-> 0, addl_xfer |-> 0]
      /\ UNCHANGED <<disk, pbn, l, lastlbn, s, parts>>
  BY <1>3, <1>7, <1>8 DEF PosTimeIs
<1>10. parts = <<>>
  BY <1>9 DEF Inv, LoopInv
<1> QED
  BY <1>1, <1>2, <1>5, <1>6, <1>9, <1>10 DEF seek, wait

LEMMA PosInv ==
  ASSUME Inv, NEW f \in 0 .. disk.sectors - 1, NEW w \in {Read, Write}, NEW im \in BOOLEAN,
         NEW m \in StatesOn(disk), NEW n \in 1 .. Lesser(MaxLen, disk.sectors - f),
         PosTime(Request("pos", f, n, w, im), m)
  PROVE  Inv'
<1> DEFINE p    == SectorOf(disk, f)
           seek == Seek(m, p, w)
           wait == Wait(disk, m, p, n, w, im)
<1>1. /\ pc = "idle" /\ parts = <<>>
      /\ req' = [op |-> "pos", first |-> f, start |-> p, len |-> n, rw |-> w, immed |-> im]
      /\ istate' = m /\ pc' = "done"
      /\ result' = seek + wait.time
      /\ breakdown' = [seektime |-> seek, initial_latency |-> wait.time, initial_xfer |-> 0,
                       addl_latency |-> 0, addl_xfer |-> 0]
      /\ UNCHANGED <<disk, pbn, l, lastlbn, s, parts>>
      /\ m.cyl \in Cylinders(disk) /\ m.theta \in 0 .. Circle - 1
      /\ n \in 1 .. g4_spt_pbn(disk, p)
      /\ disk \in Disks
  BY PosIs
<1>2. seek \in Nat /\ wait.time \in Nat
  BY <1>1, TrackTimes
<1> HIDE DEF seek, wait
<1>3. result' \in Nat /\ breakdown' \in Breakdowns
  BY <1>1, <1>2 DEF Breakdowns
<1>4. n \in 0 .. MaxLen
  BY <1>1, Disk, AccessAssumption DEF Lesser
<1>5. /\ req'.first \in 0 .. disk'.sectors - 1 /\ req'.len \in 0 .. MaxLen
      /\ req'.rw \in {Read, Write} /\ req'.immed \in BOOLEAN /\ req'.op = "pos"
      /\ req'.start = SectorOf(disk', req'.first)
  BY <1>1, <1>4
<1>6. istate' \in States /\ OnDisk(istate)' /\ OnDisk(s)'
  BY <1>1 DEF StatesOn, OnDisk, Inv, Typed
<1>7. Typed'
  BY <1>1, <1>3, <1>5, <1>6 DEF Inv, Typed, Places
<1>8. LoopInv'
  BY <1>1, <1>5 DEF Inv, LoopInv, PartsInOrder, PartsOnTracks
<1> QED
  BY <1>7, <1>8 DEF Inv

LEMMA BeginInv ==
  ASSUME Inv, NEW f \in 0 .. disk.sectors - 1, NEW w \in {Read, Write}, NEW im \in BOOLEAN,
         NEW m \in StatesOn(disk), NEW n \in 1 .. Lesser(MaxLen, disk.sectors - f),
         Begin(Request("access", f, n, w, im), m)
  PROVE  Inv'
<1> DEFINE p == SectorOf(disk, f)
<1>1. /\ disk \in Disks /\ m \in States /\ m.cyl \in Cylinders(disk) /\ m.theta \in 0 .. Circle - 1
  BY AccessAssumption DEF StatesOn, Inv, Typed
<1>2. n \in 1 .. MaxLen /\ f + n - 1 \in 0 .. disk.sectors - 1 /\ f \in Nat /\ f \in 0 .. disk.sectors
  BY <1>1, Disk, AccessAssumption DEF Lesser
<1>3. p \in Places(disk) /\ ptol(disk, p) = f
  BY <1>1, SectorType
<1>4. /\ pc = "idle" /\ pc' = "loop" /\ istate' = m /\ s' = m /\ pbn' = p
      /\ l' = f /\ lastlbn' = f + n - 1
      /\ req' = [op |-> "access", first |-> f, start |-> p, len |-> n, rw |-> w, immed |-> im]
      /\ UNCHANGED <<disk, result, breakdown, parts>>
  BY <1>3 DEF Begin, Request
<1>5. parts = <<>> /\ result = 0
  BY <1>4 DEF Inv, LoopInv
<1>6. /\ req'.first \in 0 .. disk'.sectors - 1 /\ req'.len \in 0 .. MaxLen /\ req'.len = n
      /\ req'.rw \in {Read, Write} /\ req'.immed \in BOOLEAN /\ req'.op = "access"
      /\ req'.start = SectorOf(disk', req'.first) /\ req'.first = f
  BY <1>2, <1>4, AccessAssumption
<1>7. OnDisk(istate)' /\ OnDisk(s)'
  BY <1>1, <1>4 DEF OnDisk
<1>8. Typed'
  BY <1>1, <1>2, <1>3, <1>4, <1>6, <1>7 DEF Inv, Typed, Places
<1>9. f <= f + n - 1
  BY <1>2, AccessAssumption
<1>10. LoopInv'
  BY <1>4, <1>5, <1>6, <1>9 DEF Inv, LoopInv, PartsInOrder, PartsOnTracks, Covered
<1> QED
  BY <1>8, <1>10 DEF Inv

LEMMA IdleInv ==
  ASSUME disk \in Disks, disk' = disk, req' = NoReq, istate' = AtRest, pc' = "idle", Cleared
  PROVE  Inv'
<1>1. 0 \in 0 .. disk.sectors - 1 /\ 0 \in 0 .. disk.sectors /\ 0 \in Cylinders(disk) /\ 0 \in 0 .. disk.heads - 1
      /\ 0 \in 0 .. Circle - 1 /\ 0 \in 0 .. MaxLen
  BY Disk, AnglesType, AccessAssumption DEF Cylinders
<1>2. Origin \in Places(disk) /\ NoTime \in Breakdowns
  BY <1>1 DEF Origin, Places, NoTime, Breakdowns
<1>3. OnDisk(istate)' /\ OnDisk(s)'
  BY <1>1 DEF Cleared, OnDisk, AtRest
<1>4. Typed'
  BY <1>1, <1>2, <1>3 DEF Typed, Cleared, NoReq, Places
<1>5. IsSeq(<<>>)
  BY <<>> \in Seq({}) DEF IsSeq
<1>6. LoopInv'
  BY <1>5 DEF LoopInv, Cleared, PartsInOrder, PartsOnTracks, NoReq
<1> QED
  BY <1>4, <1>6 DEF Inv

LEMMA NextInv == Inv /\ [Next]_vars => Inv'
<1> SUFFICES ASSUME Inv, [Next]_vars
             PROVE  Inv'
  OBVIOUS
<1>1. ASSUME NEW f \in 0 .. disk.sectors - 1, NEW w \in {Read, Write}, NEW im \in BOOLEAN,
             NEW m \in StatesOn(disk), NEW n \in 1 .. Lesser(MaxLen, disk.sectors - f),
             Begin(Request("access", f, n, w, im), m)
      PROVE  Inv'
  BY <1>1, BeginInv
<1>2. ASSUME NEW f \in 0 .. disk.sectors - 1, NEW w \in {Read, Write}, NEW im \in BOOLEAN,
             NEW m \in StatesOn(disk), NEW n \in 1 .. Lesser(MaxLen, disk.sectors - f),
             PosTime(Request("pos", f, n, w, im), m)
      PROVE  Inv'
  BY <1>2, PosInv
<1>3. CASE Part
  BY <1>3, PartTurns, PartTyped, PartLoop DEF Inv
<1>4. CASE Use
  <2>1. disk \in Disks /\ disk' = disk /\ req' = NoReq /\ istate' = AtRest /\ pc' = "idle" /\ Cleared
    BY <1>4 DEF Use, Inv, Typed
  <2> QED
    BY <2>1, IdleInv
<1>5. CASE UNCHANGED vars
  BY <1>5 DEF vars, call, loop, Inv, Typed, OnDisk, Places, LoopInv, PartsInOrder, PartsOnTracks,
              Covered, LastPart
<1> QED
  BY <1>1, <1>2, <1>3, <1>4, <1>5 DEF Next

LEMMA InitInv == Init => Inv
<1> SUFFICES ASSUME Init PROVE Inv
  OBVIOUS
<1>1. 0 \in 0 .. disk.sectors - 1 /\ 0 \in 0 .. disk.sectors /\ 0 \in Cylinders(disk) /\ 0 \in 0 .. disk.heads - 1
      /\ 0 \in 0 .. Circle - 1 /\ 0 \in 0 .. MaxLen
  BY Disk, AnglesType, AccessAssumption DEF Init, Cylinders
<1>2. Origin \in Places(disk) /\ NoTime \in Breakdowns
  BY <1>1 DEF Origin, Places, NoTime, Breakdowns
<1>3. OnDisk(istate) /\ OnDisk(s)
  BY <1>1 DEF Init, OnDisk, AtRest
<1>4. Typed
  BY <1>1, <1>2, <1>3 DEF Typed, Init, NoReq, Places
<1>5. IsSeq(<<>>)
  BY <<>> \in Seq({}) DEF IsSeq
<1>6. LoopInv
  BY <1>5 DEF LoopInv, Init, PartsInOrder, PartsOnTracks, NoReq
<1> QED
  BY <1>4, <1>6 DEF Inv

LEMMA Invariance == Spec => []Inv
BY InitInv, NextInv, PTL DEF Spec

-----------------------------------------------------------------------------
(* Times and angles *)

\* The first part's seek and wait bring the first sector under the head.
FirstUnderHead ==
  /\ breakdown.initial_latency \in 0 .. Period - 1
  /\ Apart(istate.theta + dm_rotate(breakdown.seektime + breakdown.initial_latency),
           g4_skew(disk, req.start)) < Precision

\* After n parts the head is behind the time by up to n - 1 angles of rounding.
TimesInv ==
  /\ parts # <<>> =>
       /\ OneTrack(s, LastPart)
       /\ \E e \in 0 .. Len(parts) - 1 : Cong(istate.theta + Turn(result) - s.theta, e * AngleGrain)
  /\ (pc = "done" \/ parts # <<>>) /\ ~req.immed => FirstUnderHead
  /\ OneTrackAddsUp
  /\ ImmedNotLater

LEMMA TurnsOn ==
  ASSUME NEW a \in Int, NEW r \in Int, NEW t \in Int, NEW e \in Int, NEW b \in Int,
         Cong(a + Turn(r) - b, e * AngleGrain)
  PROVE  \E f \in {0, 1} : Cong(a + Turn(r + t) - ((b + dm_rotate(t)) % Circle), (e + f) * AngleGrain)
<1> DEFINE c == (b + dm_rotate(t)) % Circle
           x == Turn(r)
           y == Turn(t)
           z == dm_rotate(t)
<1>1. x \in Int /\ y \in Int /\ z \in Int /\ Cong(z, y)
  BY RotateIs
<1>2. PICK f \in {0, 1} : Turn(r + t) = Turn(r) + Turn(t) + f * AngleGrain
  BY TurnOfSum
<1> HIDE DEF x, y, z
<1>3. c \in Int /\ Cong(c, b + z)
  <2>1. b + z \in Int
    BY <1>1
  <2>2. c \in 0 .. Circle - 1 /\ Cong(c, b + z)
    BY <2>1, CongMod DEF z
  <2> QED
    BY <2>2, AnglesType
<1> HIDE DEF c
<1> DEFINE g == e * AngleGrain
           h == f * AngleGrain
<1>4. g \in Int /\ h \in Int /\ (e + f) * AngleGrain = g + h
  BY AnglesType
<1>5. Turn(r + t) = x + y + h /\ Cong(a + x - b, g)
  BY <1>2 DEF x, y
<1> HIDE DEF g, h
<1>6. Cong(b + y, b + z)
  <2>1. Cong(y, z) /\ Cong(b, b)
    BY <1>1, CongTurned, CongSame
  <2> QED
    BY <1>1, <2>1, CongSum
<1>7. Cong((b + y) - c, (b + z) - (b + z))
  <2>1. b + y \in Int /\ b + z \in Int
    BY <1>1
  <2> QED
    BY <1>3, <1>6, <2>1, CongSum
<1>8. Cong((b + y) - c + h, h)
  <2>1. (b + z) - (b + z) = 0 /\ (b + y) - c \in Int /\ Cong(h, h)
    BY <1>1, <1>3, <1>4, CongSame
  <2>2. Cong((b + y) - c, 0) /\ 0 \in Int
    BY <1>7, <2>1
  <2>3. Cong(((b + y) - c) + h, 0 + h)
    BY <1>4, <2>1, <2>2, CongSum
  <2> QED
    BY <1>4, <2>3
<1>9. Cong((a + x - b) + ((b + y) - c + h), g + h)
  <2>1. a + x - b \in Int /\ (b + y) - c + h \in Int
    BY <1>1, <1>3, <1>4
  <2> QED
    BY <1>4, <1>5, <1>8, <2>1, CongSum
<1>10. (a + x - b) + ((b + y) - c + h) = a + (x + y + h) - c
  BY <1>1, <1>3, <1>4
<1>11. Cong(a + Turn(r + t) - c, (e + f) * AngleGrain)
  BY <1>4, <1>5, <1>9, <1>10
<1> QED
  BY <1>11 DEF c, z

\* The first part starts where the access does, and no other.
LEMMA StartsOnce ==
  ASSUME Inv, pc = "loop"
  PROVE  (parts = <<>>) <=> (Here = req.start)
<1>1. /\ disk \in Disks /\ l \in 0 .. disk.sectors - 1 /\ req.first \in 0 .. disk.sectors - 1
      /\ req.start = SectorOf(disk, req.first)
  BY NextPart DEF Inv, Typed
<1>2. ptol(disk, Here) = l /\ ptol(disk, req.start) = req.first
  BY <1>1, SectorType DEF Here
<1>3. CASE parts = <<>>
  <2>1. l = req.first
    BY <1>3 DEF Inv, LoopInv, Covered
  <2> QED
    BY <1>1, <1>3, <2>1 DEF Here
<1>4. CASE parts # <<>>
  <2>1. req.first < l
    BY <1>4 DEF Inv, LoopInv
  <2>2. req.first # l
    BY <2>1, <1>1, Disk
  <2> QED
    BY <1>2, <1>4, <2>2
<1> QED
  BY <1>3, <1>4

LEMMA PartTurned ==
  ASSUME Inv, TimesInv, pc = "loop", Turned
  PROVE  TimesInv'
<1> DEFINE x == [seektime |-> SeekOf, initial_latency |-> WaitOf.time - WaitOf.add,
                 initial_xfer |-> XferOf, addl_latency |-> WaitOf.add, addl_xfer |-> 0]
           n == Len(parts)
<1>1. /\ n \in Nat /\ Len(parts') = n + 1 /\ parts' # <<>> /\ (parts = <<>> <=> n = 0)
      /\ LastPart'.cyl = Here.cyl /\ LastPart'.head = Here.head
  <2>1. LastPart' = [from |-> l, to |-> High, cyl |-> Here.cyl, head |-> Here.head]
    BY PartAdded
  <2>2. n \in Nat /\ Len(parts') = n + 1 /\ parts' # <<>> /\ (parts = <<>> <=> n = 0)
    BY PartAdded
  <2> QED
    BY <2>1, <2>2
<1>2. /\ SeekOf \in Nat /\ WaitOf.time \in Nat /\ WaitOf.add \in Nat /\ XferOf \in Nat /\ TotalOf \in Nat
      /\ ~req.immed =>
           /\ WaitOf.add = 0 /\ WaitOf.time \in 0 .. Period - 1
           /\ Apart(s.theta + dm_rotate(SeekOf + WaitOf.time), g4_skew(disk, Here)) < Precision
  BY PartTimes
<1>3. /\ s' = Over(Here, ThetaOf) /\ result' = result + TotalOf /\ breakdown' = BrokenDown(Here, High, x)
      /\ disk' = disk /\ req' = req /\ istate' = istate
      /\ pc' = IF High < lastlbn THEN "loop" ELSE "done"
  BY DEF Turned
<1>4. High \in Nat /\ lastlbn \in Nat /\ High <= lastlbn
  BY NextPart
<1>5. parts = <<>> => s = istate /\ result = 0 /\ Here = req.start
  BY StartsOnce DEF Inv, LoopInv
<1>6. parts # <<>> => Here # req.start
  BY StartsOnce
<1>7. req.op = "access"
  BY DEF Inv, LoopInv
<1>8. /\ istate.theta \in Int /\ s.theta \in Int /\ result \in Int /\ TotalOf \in Int
  BY <1>2, AnglesType DEF Inv, Typed, OnDisk
<1> HIDE DEF n
<1>9. OneTrack(s, LastPart)'
  BY <1>1, <1>3 DEF OneTrack, Over
<1>10. \E e \in 0 .. Len(parts') - 1 : Cong(istate'.theta + Turn(result') - s'.theta, e * AngleGrain)
  <2>1. s'.theta = (s.theta + dm_rotate(TotalOf)) % Circle
    BY <1>3 DEF Over, ThetaOf
  <2>2. CASE parts = <<>>
    <3> DEFINE y == Turn(TotalOf)
               z == dm_rotate(TotalOf)
               a == s.theta
               c == (a + z) % Circle
    <3>1. istate' = s /\ result' = TotalOf /\ s'.theta = c
      BY <1>3, <1>5, <1>8, <2>1, <2>2
    <3>2. y \in Int /\ z \in Int /\ Cong(z, y) /\ a \in Int
      BY <1>8, RotateIs
    <3> HIDE DEF y, z, a
    <3>3. a + z \in Int /\ a + y \in Int /\ Cong(a, a)
      BY <3>2, CongSame
    <3>4. c \in Int /\ Cong(c, a + z)
      <4>1. c \in 0 .. Circle - 1 /\ Cong(c, a + z)
        BY <3>3, CongMod
      <4> QED
        BY <4>1, AnglesType
    <3> HIDE DEF c
    <3>5. Cong(a + z, a + y)
      BY <3>2, <3>3, CongSum
    <3>6. Cong(c, a + y)
      BY <3>3, <3>4, <3>5, CongOn
    <3>7. Cong(a + y, c)
      BY <3>3, <3>4, <3>6, CongTurned
    <3>8. Cong((a + y) - c, c - c)
      BY <3>3, <3>4, <3>7, CongSame, CongSum
    <3>9. Cong(istate'.theta + Turn(result') - s'.theta, 0 * AngleGrain)
      <4>1. istate'.theta = a /\ Turn(result') = y /\ s'.theta = c
        BY <3>1 DEF a, y
      <4>2. c - c = 0 /\ 0 * AngleGrain = 0
        BY <3>4, AnglesType
      <4>3. Cong((a + y) - c, 0)
        BY <3>8, <4>2
      <4>4. istate'.theta + Turn(result') - s'.theta = (a + y) - c
        <5>1. a \in Int /\ y \in Int /\ c \in Int
          BY <3>2, <3>4
        <5> QED
          BY <4>1, <5>1
      <4> QED
        BY <4>2, <4>3, <4>4
    <3>10. 0 \in 0 .. Len(parts') - 1
      BY <1>1
    <3> QED
      BY <3>9, <3>10
  <2>3. CASE parts # <<>>
    <3>1. PICK e \in 0 .. n - 1 : Cong(istate.theta + Turn(result) - s.theta, e * AngleGrain)
      BY <2>3 DEF TimesInv, n
    <3>2. PICK f \in {0, 1} :
            Cong(istate.theta + Turn(result + TotalOf) - ((s.theta + dm_rotate(TotalOf)) % Circle),
                 (e + f) * AngleGrain)
      <4>1. e \in Int
        BY <1>1
      <4> QED
        BY <1>8, <3>1, <4>1, TurnsOn
    <3>3. e + f \in 0 .. Len(parts') - 1
      BY <1>1
    <3>4. Cong(istate'.theta + Turn(result') - s'.theta, (e + f) * AngleGrain)
      BY <1>3, <2>1, <3>2
    <3> QED
      BY <3>3, <3>4
  <2> QED
    BY <2>2, <2>3
<1>11. ASSUME ~req'.immed PROVE FirstUnderHead'
  <2>0. ~req.immed
    BY <1>3, <1>11
  <2>1. CASE parts = <<>>
    <3> DEFINE y == [breakdown EXCEPT !.seektime        = x.seektime,
                                      !.initial_latency = x.initial_latency,
                                      !.initial_xfer    = x.initial_xfer + x.addl_latency + x.addl_xfer]
    <3>1. breakdown' \in {x, y}
      BY <1>3, <1>5, <2>1 DEF BrokenDown
    <3>2. breakdown \in Breakdowns
      BY DEF Inv, Typed
    <3>3. y.seektime = x.seektime /\ y.initial_latency = x.initial_latency
      BY <3>2 DEF Breakdowns
    <3>4. x.seektime = SeekOf /\ x.initial_latency = WaitOf.time
      BY <1>2, <2>0
    <3> HIDE DEF x, y
    <3>5. breakdown'.seektime = SeekOf /\ breakdown'.initial_latency = WaitOf.time
      BY <3>1, <3>3, <3>4
    <3>6. /\ WaitOf.time \in 0 .. Period - 1
          /\ Apart(istate.theta + dm_rotate(SeekOf + WaitOf.time), g4_skew(disk, req.start)) < Precision
      BY <1>2, <1>5, <2>0, <2>1
    <3> QED
      BY <1>3, <3>5, <3>6 DEF FirstUnderHead
  <2>2. CASE parts # <<>>
    <3>1. breakdown' = breakdown
      BY <1>3, <1>6, <2>2 DEF BrokenDown
    <3>2. FirstUnderHead
      BY <2>0, <2>2 DEF TimesInv
    <3> QED
      BY <1>3, <3>1, <3>2 DEF FirstUnderHead
  <2> QED
    BY <2>1, <2>2
<1>12. OneTrackAddsUp'
  <2> SUFFICES ASSUME pc' = "done", Len(parts') = 1
               PROVE  SumOfTimes(breakdown') = result'
    BY DEF OneTrackAddsUp, Answered
  <2>1. parts = <<>> /\ High = lastlbn
    BY <1>1, <1>3, <1>4
  <2>2. breakdown' = x /\ result' = TotalOf
    BY <1>2, <1>3, <1>5, <2>1 DEF BrokenDown
  <2>3. SumOfTimes(x) = (SeekOf + (WaitOf.time - WaitOf.add) + XferOf) + WaitOf.add + 0
    BY DEF SumOfTimes
  <2> DEFINE a == SeekOf
             b == WaitOf.time
             c == WaitOf.add
             d == XferOf
  <2>4. a \in Nat /\ b \in Nat /\ c \in Nat /\ d \in Nat
    BY <1>2
  <2>5. TotalOf = a + b + d
    BY DEF TotalOf
  <2>6. SumOfTimes(x) = (a + (b - c) + d) + c + 0
    BY <2>3
  <2> HIDE DEF a, b, c, d, x
  <2> QED
    BY <2>2, <2>4, <2>5, <2>6
<1>13. ImmedNotLater'
  BY <1>3, <1>7 DEF ImmedNotLater, Answered
<1> QED
  BY <1>1, <1>9, <1>10, <1>11, <1>12, <1>13 DEF TimesInv

LEMMA PosTimes ==
  ASSUME Inv, NEW f \in 0 .. disk.sectors - 1, NEW w \in {Read, Write}, NEW im \in BOOLEAN,
         NEW m \in StatesOn(disk), NEW n \in 1 .. Lesser(MaxLen, disk.sectors - f),
         PosTime(Request("pos", f, n, w, im), m)
  PROVE  TimesInv'
<1> DEFINE p     == SectorOf(disk, f)
           seek  == Seek(m, p, w)
           wait  == Wait(disk, m, p, n, w, im)
           later == Wait(disk, m, p, n, w, FALSE)
<1>1. /\ req' = [op |-> "pos", first |-> f, start |-> p, len |-> n, rw |-> w, immed |-> im]
      /\ istate' = m /\ parts = <<>>
      /\ result' = seek + wait.time
      /\ breakdown' = [seektime |-> seek, initial_latency |-> wait.time, initial_xfer |-> 0,
                       addl_latency |-> 0, addl_xfer |-> 0]
      /\ UNCHANGED <<disk, parts>>
      /\ dm_pos_time(disk, m, p, n, w, FALSE).time = seek + later.time
      /\ m.cyl \in Cylinders(disk) /\ m.theta \in 0 .. Circle - 1
      /\ n \in 1 .. g4_spt_pbn(disk, p)
      /\ disk \in Disks
  BY PosIs
<1>2. seek \in Nat /\ wait.time \in Nat /\ wait.time <= later.time
  BY <1>1, TrackTimes
<1>3. later.time \in Nat
  <2>1. FALSE \in BOOLEAN
    OBVIOUS
  <2> QED
    BY <1>1, <2>1, TrackTimes
<1>4. ASSUME ~im
      PROVE  /\ wait.time \in 0 .. Period - 1
             /\ Apart(m.theta + dm_rotate(seek + wait.time), g4_skew(disk, p)) < Precision
  BY <1>1, <1>4, TrackTimes
<1> HIDE DEF seek, wait, later
<1>5. req'.start = p /\ req'.immed = im /\ req'.op = "pos" /\ req'.len = n /\ req'.rw = w
  BY <1>1
<1>6. breakdown'.seektime = seek /\ breakdown'.initial_latency = wait.time
  BY <1>1
<1>7. ~req'.immed => FirstUnderHead'
  BY <1>1, <1>4, <1>5, <1>6 DEF FirstUnderHead
<1>8. ImmedNotLater'
  <2>1. dm_pos_time(disk', istate', req'.start, req'.len, req'.rw, FALSE).time = seek + later.time
    BY <1>1, <1>5
  <2>2. result' <= seek + later.time
    BY <1>1, <1>2, <1>3
  <2> QED
    BY <2>1, <2>2 DEF ImmedNotLater
<1>9. OneTrackAddsUp'
  BY <1>5 DEF OneTrackAddsUp, Answered
<1> QED
  BY <1>1, <1>7, <1>8, <1>9 DEF TimesInv

LEMMA TimesNext == Inv /\ TimesInv /\ [Next]_vars => TimesInv'
<1> SUFFICES ASSUME Inv, TimesInv, [Next]_vars
             PROVE  TimesInv'
  OBVIOUS
<1>1. ASSUME NEW f \in 0 .. disk.sectors - 1, NEW w \in {Read, Write}, NEW im \in BOOLEAN,
             NEW m \in StatesOn(disk), NEW n \in 1 .. Lesser(MaxLen, disk.sectors - f),
             Begin(Request("access", f, n, w, im), m)
      PROVE  TimesInv'
  <2>1. pc' = "loop" /\ pc = "idle" /\ parts' = parts
    BY <1>1 DEF Begin
  <2>2. parts = <<>>
    BY <2>1 DEF Inv, LoopInv
  <2> QED
    BY <2>1, <2>2 DEF TimesInv, OneTrackAddsUp, ImmedNotLater, Answered
<1>2. ASSUME NEW f \in 0 .. disk.sectors - 1, NEW w \in {Read, Write}, NEW im \in BOOLEAN,
             NEW m \in StatesOn(disk), NEW n \in 1 .. Lesser(MaxLen, disk.sectors - f),
             PosTime(Request("pos", f, n, w, im), m)
      PROVE  TimesInv'
  BY <1>2, PosTimes
<1>3. CASE Part
  BY <1>3, PartTurns, PartTurned
<1>4. CASE Use
  <2>1. pc' = "idle" /\ parts' = <<>>
    BY <1>4 DEF Use, Cleared
  <2> QED
    BY <2>1 DEF TimesInv, OneTrackAddsUp, ImmedNotLater, Answered
<1>5. CASE UNCHANGED vars
  BY <1>5 DEF vars, call, loop, TimesInv, FirstUnderHead, LastPart, OneTrackAddsUp, ImmedNotLater,
              Answered, SumOfTimes
<1> QED
  BY <1>1, <1>2, <1>3, <1>4, <1>5 DEF Next

LEMMA TimesInvariance == Spec => []TimesInv
<1>1. Init => TimesInv
  BY DEF Init, TimesInv, OneTrackAddsUp, ImmedNotLater, Answered
<1> QED
  BY <1>1, TimesNext, Invariance, PTL DEF Spec

\* What is left of up to n - 1 angles of rounding, off whole turns.
LEMMA HeadInTime == Inv /\ TimesInv => HeadKeepsTime
<1> SUFFICES ASSUME Inv, TimesInv, parts # <<>>
             PROVE  /\ OneTrack(s, LastPart)
                    /\ (istate.theta + dm_rotate(result) - s.theta) % Circle < Len(parts) * AngleGrain
  BY DEF HeadKeepsTime
<1> DEFINE n == Len(parts)
           a == istate.theta
           b == s.theta
           y == Turn(result)
           z == dm_rotate(result)
           r == (a + z - b) % Circle
<1>1. a \in Int /\ b \in Int /\ result \in Int
  BY AnglesType DEF Inv, Typed, OnDisk
<1>2. y \in Int /\ z \in Int /\ Cong(z, y)
  BY <1>1, RotateIs
<1>3. PICK e \in 0 .. n - 1 : Cong(a + y - b, e * AngleGrain)
  BY DEF TimesInv
<1>4. n \in Nat
  BY AppendOne DEF Inv, LoopInv
<1> HIDE DEF a, b, y, z, n
<1> DEFINE g == e * AngleGrain
<1>5. g \in Nat
  BY <1>4, AnglesType
<1>6. g < n * AngleGrain
  <2>1. (n - e) * AngleGrain >= AngleGrain
    BY <1>4, AnglesType, AtLeast
  <2>2. (n - e) * AngleGrain = n * AngleGrain - g /\ n * AngleGrain \in Nat
    BY <1>4, AnglesType
  <2> QED
    BY <1>5, <2>1, <2>2, AnglesType
<1> HIDE DEF g
<1>7. Cong(a + z - b, g)
  <2>1. Cong(z - y, y - y) /\ z - y \in Int /\ y - y \in Int
    BY <1>2, CongSame, CongSum
  <2>2. a + y - b \in Int /\ g \in Int /\ Cong(a + y - b, g)
    BY <1>1, <1>2, <1>3, <1>5 DEF g
  <2>3. Cong((z - y) + (a + y - b), (y - y) + g)
    BY <2>1, <2>2, CongSum
  <2>4. (z - y) + (a + y - b) = a + z - b /\ (y - y) + g = g
    BY <1>1, <1>2, <2>2
  <2> QED
    BY <2>3, <2>4
<1>8. a + z - b \in Int
  BY <1>1, <1>2
<1>9. r \in 0 .. Circle - 1
  BY <1>8, CongMod
<1>10. CASE g \in 0 .. Circle - 1
  <2>1. r = g
    BY <1>7, <1>10, CongOnly
  <2> QED
    BY <1>6, <2>1 DEF TimesInv, n, a, b, z
<1>11. CASE ~(g \in 0 .. Circle - 1)
  <2>1. g > Circle - 1 /\ n * AngleGrain \in Int
    BY <1>4, <1>5, <1>11, AnglesType
  <2>2. r < n * AngleGrain
    BY <1>5, <1>6, <1>9, <2>1, AnglesType
  <2> QED
    BY <2>2 DEF TimesInv, n, a, b, z
<1> QED
  BY <1>10, <1>11

-----------------------------------------------------------------------------
(* Theorems *)

\* dm_acctime_g1's parts follow each other from the first LBN of the run to its last,
\* without gap or overlap (mech_g1.c:410-486).
THEOREM PartsMakeTheRun == Spec => []PartsInOrder
<1>1. Inv => PartsInOrder
  BY DEF Inv, LoopInv
<1> QED
  BY <1>1, Invariance, PTL

\* dm_acctime_g1 covers the run it was asked about, a track at a time, and neither it
\* nor dm_pos_time_g1 fails an assertion (mech_g1.c:374-491, :138-187, :494-600).
THEOREM AccessCoversTheRun == Spec => []CoversTheRun
<1>1. Inv => CoversTheRun
  <2> SUFFICES ASSUME Inv PROVE CoversTheRun
    OBVIOUS
  <2>1. \A f \in DOMAIN breakdown : breakdown[f] \in Int
    BY DEF Inv, Typed, Breakdowns
  <2>2. TypeOK
    BY <2>1 DEF Inv, Typed, TypeOK, OnDisk, Places
  <2>3. NeverAborts
    BY DEF Inv, Typed, NeverAborts
  <2> QED
    BY <2>2, <2>3 DEF Inv, LoopInv, CoversTheRun
<1> QED
  BY <1>1, Invariance, PTL

\* However many parts came before, the next is timed from a head on the track of the
\* last, at the angle to which the disk has turned in the time of those parts, but for
\* less than an angle of dm_rotate a part; and an access to one track is broken down
\* without rest
\* (mech_g1.c:374-491).
THEOREM AccessTimeAddsUp == Spec => []TimeAddsUp
<1>1. Inv /\ TimesInv => TimeAddsUp
  BY HeadInTime DEF TimesInv, TimeAddsUp
<1> QED
  BY <1>1, Invariance, TimesInvariance, PTL

\* For any layout, seek curve and grains of time and angle the seek and the latency
\* bring the first sector under the head, and reading a track from where the head is
\* waits no longer than for its first sector (mech_g1.c:138-187, :463-484, :494-600).
THEOREM AccessLatencyServes == Spec => []LatencyServes
<1>1. TimesInv => LatencyServes
  BY DEF TimesInv, LatencyServes, SectorUnderHead, FirstUnderHead
<1> QED
  BY <1>1, TimesInvariance, PTL

\* Each turn of dm_acctime_g1's loop comes closer to the end of the run, and none goes
\* past it, so that the loop ends (mech_g1.c:410-486).
THEOREM LoopTurnsForward == Spec => TurnsForward
<1>1. Inv /\ [Next]_vars => [pc = "loop" => l < l' /\ l' <= lastlbn + 1]_vars
  <2> SUFFICES ASSUME Inv, Next, pc = "loop"
               PROVE  l < l' /\ l' <= lastlbn + 1
    BY DEF vars, call, loop
  <2>1. Part
    BY DEF Next, Begin, PosTime, PosTimeIs, Use
  <2>2. l' = High + 1
    BY <2>1, PartTurns DEF Turned
  <2>3. l \in Nat /\ lastlbn \in Nat /\ High \in Nat /\ l <= High /\ High <= lastlbn
    BY NextPart
  <2> QED
    BY <2>2, <2>3
<1> QED
  BY <1>1, Invariance, PTL DEF Spec, TurnsForward
=============================================================================

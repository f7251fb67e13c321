--------------------------- MODULE HddCalcProofs ---------------------------
(***************************************************************************)
(* The access calculators and their drivers for any trace, layout, seek    *)
(* curve and idle configuration that keep the promises of                  *)
(* ServiceAssumption: what they refuse, where the sectors are at the times *)
(* they tell, and how the times of a power trace fit together.             *)
(***************************************************************************)
EXTENDS HddCalc, MechServiceProofs

InFields  == {"from", "to", "len", "rw", "start", "load", "zone", "endSeek", "endRW"}
OutFields == {"fromSkew", "first", "last", "afterSeek", "seek", "latency", "transfer",
              "access", "addl", "error"}

InType ==
  /\ DOMAIN in = InFields
  /\ {in.from, in.to} \subseteq Int
  /\ {in.len, in.start, in.load, in.endSeek, in.endRW} \subseteq Nat
  /\ in.rw \in {Read, Write}

OutType(o) ==
  /\ DOMAIN o = OutFields
  /\ o.afterSeek \in 0 .. Circle - 1 /\ o.fromSkew \in 0 .. Circle - 1
  /\ {o.seek, o.latency, o.transfer, o.access, o.addl} \subseteq Nat

Typed ==
  /\ disk \in Disks /\ driver \in {"time", "power", "ask"}
  /\ pc \in {"line", "calc", "returned", "closed", "closedTwice", "aborted", "stuck"}
  /\ InType /\ OutType(out)
  /\ clock \in Nat /\ ret \in {CALC_OK, CALC_ERR}

\* A run that is too long for the target's track, or goes on past the next.
TooLong == in.len > g4_spt_pbn(disk, Home(in.to))
Refused ==
  /\ After > LastOnTrack(in.to)
  /\ ~OnDisk(After) \/ After > LastOnTrack(LastOnTrack(in.to) + 1)

\* The parts of SectorsArrive for an output struct o.
Arrives(o) ==
  Apart(StartAngle(o.fromSkew) + dm_rotate((in.start + o.seek + o.latency) % Period),
        g4_skew(disk, Home(in.to))) < Precision

Gap(a, b)  == dm_rottime(g4_skew(disk, a), g4_skew(disk, b))
Late(a, b) == Larger(0, dm_seek_time(a, b, in.rw) - Gap(a, b))
Misses(o, a, b) ==
  Apart(g4_skew(disk, a) + dm_rotate(o.addl), g4_skew(disk, b) + dm_rotate(Late(a, b))) < Precision
GoesOn(o) == o.addl # 0 => Misses(o, Home(o.last), Home(o.last + 1))

\* What a calculation ends with: refused, stopped by an assertion, or done.
RefusedAt(o)   == OutType(o) /\ \E code : Fail(code, o)
AnsweredBy(o) ==
  /\ OutType(o) /\ Arrives(o)
  /\ \/ Refused /\ \E code : Fail(code, o)
     \/ ~Refused /\ GoesOn(o) /\ Done(o)
Stopped == pc' = "aborted" /\ UNCHANGED <<out, energy, ret, spun>>

Outcome ==
  \/ ~Whole /\ \E o : RefusedAt(o)
  \/ Whole /\ TooLong /\ Stopped
  \/ Whole /\ ~TooLong /\ \E o : AnsweredBy(o)

-----------------------------------------------------------------------------
(* What the layout answers *)

LEMMA Disk ==
  ASSUME NEW d \in Disks
  PROVE  d.sectors \in Nat \ {0} /\ d.cyls \in Nat \ {0}
BY ServiceAssumption DEF FindsLbns

LEMMA FoundIffOnDisk ==
  ASSUME disk \in Disks, NEW lbn \in Int
  PROVE  Found(lbn) <=> OnDisk(lbn)
<1>1. disk.sectors \in Nat \ {0}
  BY Disk
<1>2. ASSUME OnDisk(lbn) PROVE Found(lbn)
  <2>1. FindsLbns(disk)
    BY ServiceAssumption
  <2>2. lbn \in 0 .. disk.sectors - 1
    BY <1>2 DEF OnDisk
  <2>3. ltop(disk, lbn, Origin).status = DM_OK
    BY <2>1, <2>2 DEF FindsLbns
  <2> QED
    BY <2>3 DEF Found, PlaceOfLbn
<1>3. ASSUME Found(lbn) PROVE OnDisk(lbn)
  <2>1. LbnExists(disk, lbn)
    BY <1>3 DEF Found, PlaceOfLbn, ltop, DM_OK, DM_NX
  <2> QED
    BY <1>1, <2>1 DEF LbnExists, OnDisk
<1> QED
  BY <1>2, <1>3

LEMMA HomeType ==
  ASSUME disk \in Disks, NEW lbn, OnDisk(lbn)
  PROVE  /\ PlaceOfLbn(lbn).pbn = Home(lbn)
         /\ Home(lbn) \in [cyl : Cylinders(disk), head : 0 .. disk.heads - 1,
                           sector : 0 .. Circle - 1]
         /\ Home(lbn) \in [cyl : Nat, head : Nat, sector : 0 .. Circle - 1]
         /\ Home(lbn) \in [cyl : Nat, head : Nat, sector : Nat]
         /\ g4_spt_pbn(disk, Home(lbn)) = g4_spt_pbn(disk, TrackAt(Home(lbn)))
         /\ g4_spt_pbn(disk, Home(lbn)) \in Nat
         /\ g4_skew(disk, Home(lbn)) \in 0 .. Circle - 1 /\ g4_skew(disk, Home(lbn)) \in Int
         /\ g4_sector_width(disk, TrackAt(Home(lbn)), 1) \in Int
<1> DEFINE p     == Home(lbn)
           n     == g4_spt_pbn(disk, TrackAt(p))
           w     == SectorAngle(n)
           first == g4_skew(disk, TrackAt(p))
<1>0. PlaceOfLbn(lbn).pbn = p
  BY DEF PlaceOfLbn, Home, SectorOf
<1>1. /\ p \in [cyl : Cylinders(disk), head : 0 .. disk.heads - 1, sector : 0 .. Circle - 1]
      /\ ptol(disk, p) = lbn /\ lbn \in Nat
      /\ disk.heads \in Nat /\ disk.cyls \in Nat
  <2>1. FindsLbns(disk) /\ lbn \in 0 .. disk.sectors - 1
    BY ServiceAssumption DEF OnDisk
  <2> QED
    BY <2>1 DEF FindsLbns, Home
<1>2. EvenTrack(disk, p)
  BY ServiceAssumption DEF EvenTracks, Home, OnDisk
<1> HIDE DEF p
<1>3. /\ p \in [cyl : Nat, head : Nat, sector : 0 .. Circle - 1] /\ p \in [cyl : Nat, head : Nat, sector : Nat]
      /\ p.sector \in 0 .. Circle - 1
  BY <1>1, AnglesType DEF Cylinders
<1>4. /\ n \in Nat /\ n \in 1 .. Circle /\ first \in Int /\ w \in Nat \ {0}
      /\ \A k \in 0 .. n - 1 : g4_sector_width(disk, SectorAt(p, k), 1) \in {0, w}
      /\ \A k \in 0 .. Circle - 1 :
           \/ ptol(disk, SectorAt(p, k)) < 0
           \/ /\ g4_spt_pbn(disk, SectorAt(p, k)) = n
              /\ g4_skew(disk, SectorAt(p, k)) = (first + k * w) % Circle
              /\ g4_skew(disk, SectorAt(p, k)) \in Int
  BY <1>2, <1>3, EvenTrackType
<1>5. SectorAt(p, p.sector) = p /\ SectorAt(p, 0) = TrackAt(p)
  BY <1>1 DEF SectorAt, TrackAt
<1>6. ~(ptol(disk, p) < 0)
  BY <1>1
<1> HIDE DEF n, w, first
<1>7. /\ g4_spt_pbn(disk, p) = n /\ g4_skew(disk, p) = (first + p.sector * w) % Circle
      /\ g4_skew(disk, p) \in Int
  BY <1>3, <1>4, <1>5, <1>6
<1>8. g4_skew(disk, p) \in 0 .. Circle - 1
  <2>1. first + p.sector * w \in Int
    BY <1>3, <1>4, AnglesType
  <2> QED
    BY <1>7, <2>1, CongMod
<1>9. g4_sector_width(disk, TrackAt(p), 1) \in Int
  <2>1. 0 \in 0 .. n - 1
    BY <1>4, AnglesType
  <2> QED
    BY <1>4, <1>5, <2>1
<1> QED
  BY <1>0, <1>1, <1>3, <1>4, <1>7, <1>8, <1>9 DEF p, n

\* The bounds of a track end with the last LBN on it.
LEMMA EndIsLast ==
  ASSUME disk \in Disks, NEW lbn, OnDisk(lbn)
  PROVE  LET end == TrackEnd(disk, Home(lbn))
         IN  /\ end = LastOnTrack(lbn) /\ OnDisk(end) /\ end \in Int /\ lbn <= end
             /\ OneTrack(Home(end), Home(lbn))
<1> DEFINE end == TrackEnd(disk, Home(lbn))
           on  == { k \in 0 .. disk.sectors - 1 : OneTrack(Home(k), Home(lbn)) }
<1>1. disk.sectors \in Nat \ {0} /\ lbn \in 0 .. disk.sectors - 1
  BY Disk DEF OnDisk
<1>2. /\ end \in lbn .. disk.sectors - 1
      /\ \A i \in lbn .. disk.sectors - 1 : OneTrack(Home(i), Home(lbn)) <=> i <= end
  <2>1. BoundsTracks(disk)
    BY ServiceAssumption
  <2> QED
    BY <1>1, <2>1 DEF BoundsTracks, Home
<1> HIDE DEF end
<1>3. /\ end \in Int /\ OnDisk(end) /\ lbn <= end /\ OneTrack(Home(end), Home(lbn))
  BY <1>1, <1>2 DEF OnDisk
<1>4. end \in on
  BY <1>3 DEF OnDisk
<1>5. \A j \in on : j <= end
  <2> SUFFICES ASSUME NEW j \in on PROVE j <= end
    OBVIOUS
  <2>1. j \in 0 .. disk.sectors - 1 /\ OneTrack(Home(j), Home(lbn))
    OBVIOUS
  <2> QED
    BY <1>1, <1>2, <2>1
<1>6. LastOnTrack(lbn) = end
  <2> DEFINE c == CHOOSE k \in on : \A j \in on : j <= k
  <2>1. c \in on /\ \A j \in on : j <= c
    BY <1>4, <1>5
  <2>2. LastOnTrack(lbn) = c
    BY DEF LastOnTrack
  <2> HIDE DEF c
  <2>3. c <= end /\ end <= c /\ c \in 0 .. disk.sectors - 1
    BY <1>4, <1>5, <2>1
  <2>4. c = end
    BY <1>1, <1>3, <2>3
  <2> QED
    BY <2>2, <2>4
<1> QED
  BY <1>3, <1>6 DEF end

LEMMA SeekIsNat ==
  ASSUME disk \in Disks, NEW from, NEW to, OnDisk(from), OnDisk(to), in.rw \in {Read, Write}
  PROVE  dm_seek_time(Home(from), Home(to), in.rw) \in Nat
<1>1. Home(from).cyl \in Cylinders(disk) /\ Home(to).cyl \in Cylinders(disk)
  BY HomeType
<1>2. disk.cyls \in Nat /\ SeeksTakeTime(disk)
  BY Disk, ServiceAssumption
<1> QED
  BY <1>1, <1>2, SeekNat

-----------------------------------------------------------------------------
(* The calculation *)

From    == Home(in.from)
Target  == Home(in.to)
SeekOf  == dm_seek_time(From, Target, in.rw)
StartOfSeek == StartAngle(g4_skew(disk, From))
AngleOf == (StartOfSeek + dm_rotate(Turned(SeekOf))) % Circle
WaitOf  == dm_latency(disk, Over(Target, AngleOf), Target.sector, in.len, FALSE)
Answer  == Timed(WithFrom, Target, Over(Target, AngleOf), SeekOf, WaitOf)

\* The times of an access from one LBN to another.
LEMMA Times ==
  ASSUME Typed, Whole
  PROVE  /\ SeekOf \in Nat /\ StartOfSeek \in Int /\ Turned(SeekOf) \in Int
         /\ Cong(dm_rotate(Turned(SeekOf)), Turn(SeekOf + in.start)) /\ dm_rotate(Turned(SeekOf)) \in Int
         /\ AngleOf \in 0 .. Circle - 1 /\ AngleOf \in Int
         /\ (WaitOf.ok <=> in.len <= g4_spt_pbn(disk, Target))
         /\ WaitOf.time = dm_rottime(AngleOf, g4_skew(disk, Target)) /\ WaitOf.time \in Nat
         /\ TransferTime(Target) \in Nat
<1>1. disk \in Disks /\ OnDisk(in.from) /\ OnDisk(in.to) /\ in.rw \in {Read, Write}
      /\ in.start \in Nat /\ in.len \in Nat
  BY DEF Typed, InType, Whole
<1>2. /\ Target \in [cyl : Nat, head : Nat, sector : Nat]
      /\ g4_spt_pbn(disk, Target) = g4_spt_pbn(disk, TrackAt(Target))
      /\ g4_skew(disk, Target) \in Int /\ g4_skew(disk, From) \in Int
      /\ g4_sector_width(disk, TrackAt(Target), 1) \in Int
  BY <1>1, HomeType DEF Target, From
<1>3. SeekOf \in Nat
  BY <1>1, SeekIsNat DEF SeekOf, From, Target
<1>4. StartOfSeek \in Int
  BY <1>2 DEF StartOfSeek, StartAngle
<1>5. /\ Turned(SeekOf) \in 0 .. Period - 1
      /\ Cong(Turn(Turned(SeekOf)), Turn(SeekOf + in.start))
  <2>1. SeekOf + in.start \in Int
    BY <1>1, <1>3
  <2> QED
    BY <2>1, TurnOfPeriod DEF Turned
<1>6. Turned(SeekOf) \in Int
  BY <1>5, AnglesType
<1> DEFINE r == dm_rotate(Turned(SeekOf))
<1>7. r \in Int /\ Cong(r, Turn(Turned(SeekOf))) /\ Turn(Turned(SeekOf)) \in Int
  BY <1>6, RotateIs
<1>8. Turn(SeekOf + in.start) \in Int
  <2>1. SeekOf + in.start \in Int
    BY <1>1, <1>3
  <2> QED
    BY <2>1, RotateIs
<1>9. Cong(r, Turn(SeekOf + in.start))
  BY <1>5, <1>7, <1>8, CongOn
<1>10. AngleOf \in 0 .. Circle - 1
  <2>1. StartOfSeek + r \in Int
    BY <1>4, <1>7
  <2> QED
    BY <2>1, CongMod DEF AngleOf
<1>11. AngleOf \in Int
  BY <1>10, AnglesType
<1> DEFINE a == AngleOf
<1> HIDE DEF r, a
<1>12. WaitOf = [ok |-> in.len <= g4_spt_pbn(disk, TrackAt(Target)),
                 time |-> dm_rottime(AngleOf, g4_skew(disk, Target)), add |-> 0]
  BY <1>2, WaitsForSector DEF WaitOf
<1>13. (WaitOf.ok <=> in.len <= g4_spt_pbn(disk, Target))
       /\ WaitOf.time = dm_rottime(AngleOf, g4_skew(disk, Target))
  BY <1>2, <1>12
<1>14. WaitOf.time \in Nat
  BY <1>2, <1>11, <1>13, RottimeNat
<1>15. TransferTime(Target) \in Nat
  <2>1. dm_xfertime(disk, Over(Target, 0), 1) \in Nat
    BY <1>2, XfertimeNat
  <2>2. dm_xfertime(disk, Target, 1) = dm_xfertime(disk, Over(Target, 0), 1)
    BY OverTrack DEF dm_xfertime
  <2> QED
    BY <1>1, <2>1, <2>2 DEF TransferTime
<1> QED
  BY <1>3, <1>4, <1>6, <1>7, <1>9, <1>10, <1>11, <1>13, <1>14, <1>15 DEF r

\* The output struct after an access that fails no assertion.
LEMMA AnswerIs ==
  ASSUME Typed, Whole
  PROVE  /\ OutType(Answer) /\ Arrives(Answer)
         /\ Answer.last = LastOnTrack(in.to) /\ Answer.addl = 0
<1>1. /\ SeekOf \in Nat /\ StartOfSeek \in Int /\ Turned(SeekOf) \in Int
      /\ Cong(dm_rotate(Turned(SeekOf)), Turn(SeekOf + in.start)) /\ dm_rotate(Turned(SeekOf)) \in Int
      /\ AngleOf \in 0 .. Circle - 1 /\ AngleOf \in Int
      /\ WaitOf.time = dm_rottime(AngleOf, g4_skew(disk, Target)) /\ WaitOf.time \in Nat
      /\ TransferTime(Target) \in Nat
  BY Times
<1>2. disk \in Disks /\ OnDisk(in.from) /\ OnDisk(in.to) /\ in.start \in Nat
  BY DEF Typed, InType, Whole
<1>3. /\ g4_skew(disk, From) \in 0 .. Circle - 1 /\ g4_skew(disk, Target) \in Int
      /\ PlaceOfLbn(in.from).pbn = From
      /\ TrackEnd(disk, Target) = LastOnTrack(in.to)
  BY <1>2, HomeType, EndIsLast DEF From, Target
<1>4. /\ DOMAIN WithFrom = OutFields /\ WithFrom.fromSkew = g4_skew(disk, From)
      /\ WithFrom.error = out.error
  BY <1>3 DEF WithFrom, Typed, OutType, OutFields
<1> DEFINE access == SeekOf + TransferTime(Target) + WaitOf.time
<1>5. access \in Nat
  BY <1>1
<1> HIDE DEF access
<1>6. Over(Target, AngleOf).theta = AngleOf
  BY OverTrack
<1>7. /\ DOMAIN Answer = OutFields /\ Answer.fromSkew = g4_skew(disk, From)
      /\ Answer.last = LastOnTrack(in.to) /\ Answer.afterSeek = AngleOf
      /\ Answer.seek = SeekOf /\ Answer.latency = WaitOf.time /\ Answer.transfer = TransferTime(Target)
      /\ Answer.access = access /\ Answer.addl = 0
  BY <1>3, <1>4, <1>6 DEF Answer, Timed, OutFields, access
<1>8. OutType(Answer)
  BY <1>1, <1>3, <1>5, <1>7 DEF OutType
<1>9. Arrives(Answer)
  <2> DEFINE a     == StartOfSeek
             b     == g4_skew(disk, Target)
             r     == dm_rotate(Turned(SeekOf))
             seek  == SeekOf + in.start
             wait  == WaitOf.time
             total == in.start + SeekOf + WaitOf.time
             r2    == dm_rotate(total % Period)
  <2>1. seek \in Int /\ total \in Int /\ total = seek + wait
    BY <1>1, <1>2
  <2>2. total % Period \in 0 .. Period - 1 /\ Cong(Turn(total % Period), Turn(total))
    BY <2>1, TurnOfPeriod
  <2>3. total % Period \in Int
    BY <2>2, AnglesType
  <2>4. r2 \in Int /\ Cong(r2, Turn(total % Period)) /\ Turn(total % Period) \in Int
    BY <2>3, RotateIs
  <2>5. Turn(total) \in Int
    BY <2>1, RotateIs
  <2>6. Cong(r2, Turn(total))
    BY <2>2, <2>4, <2>5, CongOn
  <2>7. a \in Int /\ b \in Int /\ r \in Int /\ Cong(r, Turn(seek))
    BY <1>1, <1>3
  <2>8. wait = dm_rottime((a + r) % Circle, b)
    BY <1>1 DEF AngleOf
  <2> HIDE DEF a, b, r, seek, wait, total, r2
  <2>9. Cong(r2, Turn(seek + wait))
    BY <2>1, <2>6
  <2>10. Apart(a + r2, b) < Precision
    BY <2>1, <2>4, <2>7, <2>8, <2>9, SeekAndWait
  <2>11. StartAngle(Answer.fromSkew) = a
    BY <1>7 DEF StartOfSeek, a
  <2> QED
    BY <1>7, <2>10, <2>11 DEF Arrives, b, r2, total, Target
<1> QED
  BY <1>7, <1>8, <1>9

\* Going on to the next track, from the last sector of the target's track.
LEMMA OnwardsIs ==
  ASSUME Typed, Whole, NEW o, OutType(o), Arrives(o), o.last = LastOnTrack(in.to),
         OnDisk(o.last + 1)
  PROVE  LET n == OnToNext(o, Target, Home(o.last + 1))
         IN  OutType(n) /\ Arrives(n) /\ GoesOn(n)
<1> DEFINE end  == Home(o.last)
           next == Home(o.last + 1)
           n    == OnToNext(o, Target, next)
           rot  == Gap(end, next)
           seek == dm_seek_time(Target, next, in.rw)
           late == Late(end, next)
<1>1. disk \in Disks /\ OnDisk(in.to) /\ in.rw \in {Read, Write}
  BY DEF Typed, InType, Whole
<1>2. OnDisk(o.last) /\ OneTrack(end, Target)
  BY <1>1, EndIsLast DEF Target
<1>3. g4_skew(disk, end) \in Int /\ g4_skew(disk, next) \in Int /\ PlaceOfLbn(o.last).pbn = end
  BY <1>1, <1>2, HomeType
<1>4. seek \in Nat
  BY <1>1, SeekIsNat DEF Target
<1>5. dm_seek_time(end, next, in.rw) = seek
  BY <1>2 DEF dm_seek_time, OneTrack
<1>6. rot \in Nat
  BY <1>3, RottimeNat DEF Gap
<1>7. late = Larger(0, seek - rot)
  BY <1>5 DEF Late
<1> DEFINE addl == Larger(rot, seek)
<1>8. addl \in Nat /\ late \in Int /\ addl = rot + late
  BY <1>4, <1>6, <1>7 DEF Larger
<1>9. /\ n = [o EXCEPT !.access = @ + addl, !.addl = addl]
  BY <1>3 DEF OnToNext, Additional, Gap
<1> HIDE DEF n, addl, seek
<1>10. /\ DOMAIN n = OutFields /\ n.addl = addl /\ n.access = o.access + addl
       /\ n.fromSkew = o.fromSkew /\ n.afterSeek = o.afterSeek /\ n.last = o.last
       /\ n.seek = o.seek /\ n.latency = o.latency /\ n.transfer = o.transfer
  BY <1>9 DEF OutType, OutFields
<1>11. OutType(n)
  <2>1. o.access \in Nat
    BY DEF OutType
  <2>2. n.access \in Nat
    BY <1>8, <1>10, <2>1
  <2> QED
    BY <1>8, <1>10, <2>2 DEF OutType
<1>12. Arrives(n)
  BY <1>10 DEF Arrives
<1>13. Misses(n, end, next)
  <2> DEFINE a == g4_skew(disk, end)
             b == g4_skew(disk, next)
  <2>1. rot = dm_rottime(a, b)
    BY DEF Gap
  <2> HIDE DEF a, b, rot, late
  <2>2. Apart(a + dm_rotate(rot + late), b + dm_rotate(late)) < Precision
    BY <1>3, <1>8, <2>1, WaitTooLong DEF a, b
  <2> QED
    BY <1>8, <1>10, <2>2 DEF Misses, a, b, late
<1>14. GoesOn(n)
  BY <1>10, <1>13 DEF GoesOn
<1> QED
  BY <1>11, <1>12, <1>14 DEF n

LEMMA EndedIs ==
  ASSUME Typed, Whole, NEW o, OutType(o), Arrives(o), o.last = LastOnTrack(in.to), o.addl = 0,
         Ended(o, Target)
  PROVE  \E n : AnsweredBy(n)
<1>1. /\ disk \in Disks /\ OnDisk(in.to) /\ in.to \in Int /\ in.len \in Nat
      /\ disk.sectors \in Nat
  BY Disk DEF Typed, InType, Whole
<1>2. o.last \in Int /\ OnDisk(o.last)
  BY <1>1, EndIsLast
<1>3. EndLba = After /\ After \in Int
  BY <1>1 DEF EndLba, After
<1>4. (Found(After) <=> OnDisk(After)) /\ (Found(o.last + 1) <=> OnDisk(o.last + 1))
  <2>1. o.last + 1 \in Int
    BY <1>2
  <2> QED
    BY <1>1, <1>3, <2>1, FoundIffOnDisk
<1>5. CASE After <= o.last
  <2>1. Done(o)
    BY <1>3, <1>5 DEF Ended
  <2>2. ~Refused
    BY <1>2, <1>3, <1>5 DEF Refused
  <2>3. AnsweredBy(o)
    BY <2>1, <2>2 DEF AnsweredBy, GoesOn
  <2> QED
    BY <2>3
<1>6. CASE ~(After <= o.last)
  <2>0. After > LastOnTrack(in.to)
    BY <1>2, <1>3, <1>6
  <2>1. OnDisk(After) => OnDisk(o.last + 1)
    BY <1>1, <1>2, <1>3, <1>6 DEF OnDisk
  <2>2. CASE ~OnDisk(After)
    <3>1. Fail(DM_NX, o)
      BY <1>3, <1>4, <1>6, <2>2 DEF Ended
    <3>2. AnsweredBy(o)
      BY <2>0, <2>2, <3>1 DEF AnsweredBy, Refused
    <3> QED
      BY <3>2
  <2>3. CASE OnDisk(After)
    <3> DEFINE next == Home(o.last + 1)
    <3>1. OnDisk(o.last + 1)
      BY <2>1, <2>3
    <3>2. PlaceOfLbn(o.last + 1).pbn = next /\ TrackEnd(disk, next) = LastOnTrack(o.last + 1)
          /\ TrackEnd(disk, next) \in Int
      BY <1>1, <3>1, HomeType, EndIsLast
    <3> HIDE DEF next
    <3>3. IF After > LastOnTrack(o.last + 1) THEN Fail(MORE_THAN_2_TRACK, o)
          ELSE Done(OnToNext(o, Target, next))
      BY <1>3, <1>4, <1>6, <2>3, <3>1, <3>2 DEF Ended
    <3>4. CASE After > LastOnTrack(o.last + 1)
      <4>1. Fail(MORE_THAN_2_TRACK, o) /\ Refused
        BY <2>0, <3>3, <3>4 DEF Refused
      <4>2. AnsweredBy(o)
        BY <4>1 DEF AnsweredBy
      <4> QED
        BY <4>2
    <3>5. CASE ~(After > LastOnTrack(o.last + 1))
      <4> DEFINE n == OnToNext(o, Target, next)
      <4>1. OutType(n) /\ Arrives(n) /\ GoesOn(n)
        BY <3>1, OnwardsIs DEF next
      <4>2. Done(n) /\ ~Refused
        BY <2>3, <3>3, <3>5 DEF Refused
      <4> HIDE DEF n
      <4>3. AnsweredBy(n)
        BY <4>1, <4>2 DEF AnsweredBy
      <4> QED
        BY <4>3
    <3> QED
      BY <3>4, <3>5
  <2> QED
    BY <2>2, <2>3
<1> QED
  BY <1>5, <1>6

LEMMA CalculateOutcome ==
  ASSUME Typed, Calculate
  PROVE  Outcome
<1>1. disk \in Disks /\ in.from \in Int /\ in.to \in Int /\ OutType(out)
  BY DEF Typed, InType
<1>2. (Found(in.from) <=> OnDisk(in.from)) /\ (Found(in.to) <=> OnDisk(in.to))
  BY <1>1, FoundIffOnDisk
<1>3. CASE FromUnmapped
  <2>1. ~Whole /\ Fail(DM_NX, out)
    BY <1>2, <1>3 DEF FromUnmapped, Whole
  <2> QED
    BY <1>1, <2>1 DEF Outcome, RefusedAt
<1>4. CASE TargetUnmapped
  <2>1. ~Whole /\ OnDisk(in.from) /\ Fail(DM_NX, WithFrom)
    BY <1>2, <1>4 DEF TargetUnmapped, Whole
  <2>2. g4_skew(disk, PlaceOfLbn(in.from).pbn) \in 0 .. Circle - 1
    BY <1>1, <2>1, HomeType
  <2>3. OutType(WithFrom)
    BY <1>1, <2>2 DEF WithFrom, OutType, OutFields
  <2> HIDE DEF WithFrom
  <2> QED
    BY <2>1, <2>3 DEF Outcome, RefusedAt
<1>5. CASE Access
  <2>1. Whole
    BY <1>2, <1>5 DEF Access, Whole
  <2>2. /\ PlaceOfLbn(in.from).pbn = From /\ PlaceOfLbn(in.to).pbn = Target
    BY <1>1, <2>1, HomeType DEF Whole, From, Target
  <2>3. SeekedTo(Target, AfterSeek(Target, WithFrom.fromSkew, SeekOf), SeekOf)
    BY <1>5, <2>2 DEF Access, Seeking, SeekOf
  <2>4. WithFrom.fromSkew = g4_skew(disk, From)
    BY <1>1, <2>2 DEF WithFrom, OutType, OutFields
  <2>5. AfterSeek(Target, WithFrom.fromSkew, SeekOf) = Over(Target, AngleOf)
    BY <2>4 DEF AfterSeek, Over, AngleOf, StartOfSeek
  <2>6. Waited(Target, Over(Target, AngleOf), SeekOf, WaitOf)
    BY <2>3, <2>5 DEF SeekedTo, WaitOf
  <2>7. IF WaitOf.ok THEN Ended(Answer, Target) ELSE Stopped
    BY <2>6 DEF Waited, Answer, Stopped
  <2>8. (WaitOf.ok <=> in.len <= g4_spt_pbn(disk, Target)) /\ g4_spt_pbn(disk, Target) \in Nat
        /\ in.len \in Nat
    BY <1>1, <2>1, Times, HomeType DEF Typed, InType, Whole, Target
  <2>9. CASE WaitOf.ok
    <3>1. ~TooLong
      BY <2>8, <2>9 DEF TooLong, Target
    <3>2. Ended(Answer, Target)
      BY <2>7, <2>9
    <3>3. OutType(Answer) /\ Arrives(Answer) /\ Answer.last = LastOnTrack(in.to) /\ Answer.addl = 0
      BY <2>1, AnswerIs
    <3> HIDE DEF Answer
    <3>4. \E n : AnsweredBy(n)
      BY <2>1, <3>2, <3>3, EndedIs
    <3> QED
      BY <2>1, <3>1, <3>4 DEF Outcome
  <2>10. CASE ~WaitOf.ok
    <3>1. TooLong
      BY <2>8, <2>10 DEF TooLong, Target
    <3> QED
      BY <2>1, <2>7, <2>10, <3>1 DEF Outcome
  <2> QED
    BY <2>9, <2>10
<1> QED
  BY <1>3, <1>4, <1>5 DEF Calculate

-----------------------------------------------------------------------------
(* What holds in every state *)

\* A trace is on the disk wherever it goes on from.
TraceOnDisk ==
  driver # "ask" =>
    /\ pc \in {"line", "calc"} => OnDisk(in.from)
    /\ pc = "returned" /\ ret = CALC_OK => OnDisk(After)

\* Spindle energy has been counted up to the end of the last seek, and the last access
\* is over when the next one starts.
PowerInv ==
  driver = "power" =>
    /\ pc = "line" => spun = in.endSeek /\ in.endRW <= in.start + out.access
    /\ pc = "calc" => spun = in.endSeek /\ in.endRW <= in.start
    /\ pc = "returned" => in.endRW <= in.start
    /\ pc = "returned" /\ ret = CALC_OK =>
         /\ spun = in.start + out.seek
         /\ energy.idle = Idle(in.start - in.endRW)

\* What the code refuses and aborts on, the kinds of run RefusesWhen is silent on
\* included.
Refusals ==
  pc \in {"returned", "aborted"} =>
    /\ (pc = "aborted") <=> (Whole /\ TooLong)
    /\ pc = "returned" => (ret = CALC_ERR <=> (~Whole \/ Refused))

CalcInv ==
  /\ Typed /\ TraceOnDisk /\ PowerInv
  /\ Refusals /\ SectorArrives /\ NextSectorMissed

\* Only a calculation's end says anything of what was refused and where the sectors are.
LEMMA NothingTold ==
  ASSUME pc' \notin {"returned", "aborted"}
  PROVE  Refusals' /\ SectorArrives' /\ NextSectorMissed'
BY DEF Refusals, SectorArrives, NextSectorMissed

\* What a calculation is about stays as it was.
LEMMA SameAccess ==
  ASSUME UNCHANGED <<disk, in>>
  PROVE  /\ Whole' <=> Whole
         /\ TooLong' <=> TooLong
         /\ Refused' <=> Refused
         /\ OnDisk(After)' <=> OnDisk(After)
         /\ OnDisk(in.from)' <=> OnDisk(in.from)
         /\ InType' <=> InType
<1>1. (Whole' <=> Whole) /\ (OnDisk(After)' <=> OnDisk(After)) /\ (OnDisk(in.from)' <=> OnDisk(in.from))
  BY DEF Whole, OnDisk, After
<1>2. TooLong' <=> TooLong
  BY DEF TooLong, Home
<1>3. Refused' <=> Refused
  BY DEF Refused, OnDisk, After, LastOnTrack, Home
<1>4. InType' <=> InType
  BY DEF InType
<1> QED
  BY <1>1, <1>2, <1>3, <1>4

LEMMA Arrived ==
  ASSUME UNCHANGED <<disk, driver, in>>, NEW o, Arrives(o),
         out'.fromSkew = o.fromSkew, out'.seek = o.seek, out'.latency = o.latency
  PROVE  SectorArrives'
BY DEF Arrives, SectorArrives, StartAngle, Home

LEMMA WentOn ==
  ASSUME UNCHANGED <<disk, in>>, NEW o, GoesOn(o), out'.addl = o.addl, out'.last = o.last
  PROVE  NextSectorMissed'
BY DEF GoesOn, Misses, Late, Gap, NextSectorMissed, Home

\* A failure is told in the error field alone.
LEMMA FailIs ==
  ASSUME NEW o, OutType(o), NEW code, Fail(code, o)
  PROVE  /\ pc' = "returned" /\ ret' = CALC_ERR /\ OutType(out')
         /\ out'.fromSkew = o.fromSkew /\ out'.seek = o.seek /\ out'.latency = o.latency
         /\ UNCHANGED <<energy, spun>>
BY DEF Fail, OutType, OutFields

LEMMA DoneIs ==
  ASSUME NEW o, Done(o)
  PROVE  /\ pc' = "returned" /\ ret' = CALC_OK /\ out' = o
         /\ driver = "power" => energy' = Energies(o) /\ spun' = spun + Energies(o).spindle
BY DEF Done

\* A run that is not refused ends before the end of the disk.
LEMMA EndsOnDisk ==
  ASSUME Typed, Whole, ~Refused
  PROVE  OnDisk(After)
<1>1. /\ disk \in Disks /\ OnDisk(in.to) /\ in.to \in Int /\ in.len \in Nat
      /\ disk.sectors \in Nat
  BY Disk DEF Typed, InType, Whole
<1>2. LastOnTrack(in.to) \in Int /\ OnDisk(LastOnTrack(in.to))
  BY <1>1, EndIsLast
<1> DEFINE last == LastOnTrack(in.to)
<1> HIDE DEF last
<1>3. After \in Int /\ 0 <= After
  BY <1>1 DEF After, OnDisk
<1>4. After <= last \/ OnDisk(After)
  BY <1>2, <1>3 DEF Refused, last
<1> QED
  BY <1>1, <1>2, <1>3, <1>4 DEF OnDisk, last

-----------------------------------------------------------------------------
(* The calculation keeps it *)

LEMMA PowerAnswered ==
  ASSUME Typed, PowerInv, pc = "calc", UNCHANGED <<disk, driver, in>>, NEW o, OutType(o), Done(o)
  PROVE  PowerInv'
<1> SUFFICES ASSUME driver = "power"
             PROVE  PowerInv'
  BY DEF PowerInv
<1>1. /\ pc' = "returned" /\ out' = o /\ in' = in
      /\ energy' = Energies(o) /\ spun' = spun + Energies(o).spindle
  BY DoneIs
<1>2. /\ Energies(o).spindle = in.start + o.seek - in.endSeek
      /\ Energies(o).idle = Idle(in.start - in.endRW)
  BY DEF Energies
<1>3. spun' = in.start + o.seek
  BY <1>1, <1>2 DEF PowerInv, Typed, InType, OutType
<1>4. Idle(in.start - in.endRW)' = Idle(in.start - in.endRW)
  BY <1>1
<1> QED
  BY <1>1, <1>2, <1>3, <1>4 DEF PowerInv

LEMMA CalculateInv ==
  ASSUME CalcInv, Calculate
  PROVE  CalcInv'
<1>1. Typed /\ TraceOnDisk /\ PowerInv /\ pc = "calc" /\ UNCHANGED <<disk, driver, lines, in, clock>>
  BY DEF CalcInv, Calculate
<1>2. Outcome
  BY <1>1, CalculateOutcome
<1>3. /\ disk' \in Disks /\ driver' \in {"time", "power", "ask"} /\ InType' /\ clock' \in Nat
      /\ OnDisk(in.from)' <=> OnDisk(in.from)
      /\ OnDisk(After)' <=> OnDisk(After)
      /\ Whole' <=> Whole
      /\ TooLong' <=> TooLong
      /\ Refused' <=> Refused
  BY <1>1, SameAccess DEF Typed
<1>4. ASSUME NEW o, OutType(o), NEW code, Fail(code, o)
      PROVE  Typed' /\ TraceOnDisk' /\ PowerInv' /\ NextSectorMissed' /\ pc' = "returned" /\ ret' = CALC_ERR
  <2>1. /\ pc' = "returned" /\ ret' = CALC_ERR /\ OutType(out') /\ UNCHANGED <<energy, spun>>
    BY <1>4, FailIs
  <2>2. OutType(out)'
    BY <2>1 DEF OutType
  <2>3. Typed'
    BY <1>3, <2>1, <2>2 DEF Typed
  <2>4. TraceOnDisk' /\ NextSectorMissed'
    BY <2>1 DEF TraceOnDisk, NextSectorMissed, CALC_OK, CALC_ERR
  <2>5. PowerInv'
    BY <1>1, <2>1 DEF PowerInv, CALC_OK, CALC_ERR
  <2> QED
    BY <2>1, <2>3, <2>4, <2>5
<1>5. CASE ~Whole /\ \E o : RefusedAt(o)
  <2>1. PICK o : RefusedAt(o)
    BY <1>5
  <2>2. PICK code : Fail(code, o)
    BY <2>1 DEF RefusedAt
  <2>3. Typed' /\ TraceOnDisk' /\ PowerInv' /\ NextSectorMissed' /\ pc' = "returned" /\ ret' = CALC_ERR
    BY <1>4, <2>1, <2>2 DEF RefusedAt
  <2>4. Refusals' /\ SectorArrives'
    BY <1>3, <1>5, <2>3 DEF Refusals, SectorArrives
  <2> QED
    BY <2>3, <2>4 DEF CalcInv
<1>6. CASE Whole /\ TooLong /\ Stopped
  <2>1. pc' = "aborted" /\ UNCHANGED <<out, energy, ret, spun>>
    BY <1>6 DEF Stopped
  <2>2. OutType(out)' /\ ret' \in {CALC_OK, CALC_ERR}
    BY <1>1, <2>1 DEF Typed, OutType
  <2>3. Typed'
    BY <1>3, <2>1, <2>2 DEF Typed
  <2>4. TraceOnDisk' /\ PowerInv' /\ SectorArrives' /\ NextSectorMissed'
    BY <2>1 DEF TraceOnDisk, PowerInv, SectorArrives, NextSectorMissed
  <2>5. Refusals'
    BY <1>3, <1>6, <2>1 DEF Refusals
  <2> QED
    BY <2>3, <2>4, <2>5 DEF CalcInv
<1>7. CASE Whole /\ ~TooLong /\ \E o : AnsweredBy(o)
  <2>1. PICK o : AnsweredBy(o)
    BY <1>7
  <2>2. OutType(o) /\ Arrives(o)
    BY <2>1 DEF AnsweredBy
  <2>3. CASE Refused /\ \E code : Fail(code, o)
    <3>1. PICK code : Fail(code, o)
      BY <2>3
    <3>2. Typed' /\ TraceOnDisk' /\ PowerInv' /\ NextSectorMissed' /\ pc' = "returned" /\ ret' = CALC_ERR
      BY <1>4, <2>2, <3>1
    <3>3. out'.fromSkew = o.fromSkew /\ out'.seek = o.seek /\ out'.latency = o.latency
      BY <2>2, <3>1, FailIs
    <3>4. SectorArrives'
      BY <1>1, <2>2, <3>3, Arrived
    <3>5. Refusals'
      BY <1>3, <1>7, <2>3, <3>2 DEF Refusals
    <3> QED
      BY <3>2, <3>4, <3>5 DEF CalcInv
  <2>4. CASE ~Refused /\ GoesOn(o) /\ Done(o)
    <3>1. pc' = "returned" /\ ret' = CALC_OK /\ out' = o
      BY <2>4, DoneIs
    <3>2. OutType(out)'
      BY <2>2, <3>1 DEF OutType
    <3>3. Typed'
      BY <1>3, <3>1, <3>2 DEF Typed
    <3>4. TraceOnDisk'
      BY <1>1, <1>3, <1>7, <2>4, <3>1, EndsOnDisk DEF TraceOnDisk
    <3>5. PowerInv'
      BY <1>1, <2>2, <2>4, PowerAnswered
    <3>6. SectorArrives' /\ NextSectorMissed'
      BY <1>1, <2>2, <2>4, <3>1, Arrived, WentOn
    <3>7. Refusals'
      BY <1>3, <1>7, <2>4, <3>1 DEF Refusals, CALC_OK, CALC_ERR
    <3> QED
      BY <3>3, <3>4, <3>5, <3>6, <3>7 DEF CalcInv
  <2> QED
    BY <2>1, <2>3, <2>4 DEF AnsweredBy
<1> QED
  BY <1>2, <1>5, <1>6, <1>7 DEF Outcome

-----------------------------------------------------------------------------
(* The drivers keep it *)

\* The next access starts when the last is over.
LEMMA RequestInv ==
  ASSUME CalcInv, driver # "ask", pc = "line", NEW r, Request(r),
         r.to \in Int, {r.len, r.load} \subseteq Nat, r.rw \in {Read, Write},
         pc' = "calc", UNCHANGED <<disk, driver, clock, out, energy, ret, spun>>
  PROVE  CalcInv'
<1>1. InType /\ DOMAIN in = InFields /\ OutType(out) /\ OnDisk(in.from)
  BY DEF CalcInv, Typed, InType, TraceOnDisk
<1>2. /\ in.start \in Nat /\ out.access \in Nat
      /\ StartOf(r.load) \in Nat /\ in.start + out.access <= StartOf(r.load)
  BY <1>1 DEF StartOf, Larger, InType, OutType
<1>3. /\ DOMAIN in' = InFields
      /\ in'.to = r.to /\ in'.len = r.len /\ in'.rw = r.rw /\ in'.load = r.load
      /\ in'.start = StartOf(r.load)
      /\ in'.from = in.from /\ in'.endSeek = in.endSeek /\ in'.endRW = in.endRW
  BY <1>1 DEF Request, InFields
<1>4. InType'
  BY <1>1, <1>2, <1>3 DEF InType
<1>5. Typed'
  BY <1>4 DEF CalcInv, Typed, OutType
<1>6. TraceOnDisk'
  BY <1>1, <1>3 DEF TraceOnDisk, OnDisk
<1>7. PowerInv'
  <2>1. driver = "power" => spun = in.endSeek /\ in.endRW <= in.start + out.access
    BY DEF CalcInv, PowerInv
  <2>2. in.endRW \in Nat
    BY <1>1 DEF InType
  <2> QED
    BY <1>2, <1>3, <2>1, <2>2 DEF PowerInv
<1> QED
  BY <1>5, <1>6, <1>7, NothingTold DEF CalcInv

LEMMA FirstInv ==
  ASSUME CalcInv, NEW lbn \in Firsts, First(lbn)
  PROVE  CalcInv'
<1>1. InType /\ DOMAIN in = InFields /\ lbn \in Int
  BY CalcAssumption DEF CalcInv, Typed, InType
<1>2. /\ in' = [in EXCEPT !.to = lbn] /\ driver = "ask" /\ pc' \in {"line", "stuck"}
      /\ UNCHANGED <<disk, driver, clock, out, energy, ret, spun>>
  BY DEF First, Shown
<1>3. InType'
  BY <1>1, <1>2 DEF InType, InFields
<1>4. Typed'
  BY <1>2, <1>3 DEF CalcInv, Typed, OutType
<1> QED
  BY <1>2, <1>4, NothingTold DEF CalcInv, TraceOnDisk, PowerInv

LEMMA TypeInv ==
  ASSUME CalcInv, NEW l \in Lines, Type(l)
  PROVE  CalcInv'
<1>1. /\ InType /\ DOMAIN in = InFields /\ clock \in Nat
      /\ l.load \in Nat /\ l.to \in Int /\ l.len \in Nat /\ l.rw \in {Read, Write}
  BY CalcAssumption DEF CalcInv, Typed, InType
<1>2. /\ in' = [in EXCEPT !.from = in.to + in.len, !.to = l.to, !.len = l.len, !.rw = l.rw,
                          !.load = l.load, !.start = clock]
      /\ driver = "ask" /\ pc' \in {"calc", "stuck"}
      /\ UNCHANGED <<disk, driver, clock, out, energy, ret, spun>>
  BY DEF Type, Shown
<1>3. in.to + in.len \in Int
  BY <1>1 DEF InType
<1>4. InType'
  BY <1>1, <1>2, <1>3 DEF InType, InFields
<1>5. Typed'
  BY <1>2, <1>4 DEF CalcInv, Typed, OutType
<1> QED
  BY <1>2, <1>5, NothingTold DEF CalcInv, TraceOnDisk, PowerInv

LEMMA UseAnswerInv ==
  ASSUME CalcInv, UseAnswer
  PROVE  CalcInv'
<1>1. /\ InType /\ DOMAIN in = InFields /\ OutType(out) /\ FromAfter = After /\ OnDisk(After)
      /\ driver = "power" => spun = in.start + out.seek
  BY DEF CalcInv, Typed, InType, PowerInv, TraceOnDisk, UseAnswer, FromAfter, After
<1>2. FromAfter \in Int
  BY <1>1 DEF FromAfter, InType
<1>3. /\ in' = (IF driver = "power" THEN Registers([in EXCEPT !.from = FromAfter])
                ELSE [in EXCEPT !.from = FromAfter])
      /\ pc' = "line" /\ UNCHANGED <<disk, driver, clock, out, energy, ret, spun>>
  BY DEF UseAnswer
<1>4. /\ DOMAIN in' = InFields
      /\ in'.from = FromAfter /\ in'.to = in.to /\ in'.len = in.len /\ in'.rw = in.rw
      /\ in'.load = in.load /\ in'.start = in.start
      /\ in'.endSeek = IF driver = "power" THEN in.start + out.seek ELSE in.endSeek
      /\ in'.endRW = IF driver = "power" THEN in.start + out.access ELSE in.endRW
  BY <1>1, <1>3 DEF Registers, InFields
<1>5. /\ in.start + out.seek \in Nat /\ in.start + out.access \in Nat
      /\ in.endSeek \in Nat /\ in.endRW \in Nat
  BY <1>1 DEF InType, OutType
<1>6. in'.endSeek \in Nat /\ in'.endRW \in Nat
  BY <1>4, <1>5
<1>7. InType'
  BY <1>1, <1>2, <1>4, <1>6 DEF InType
<1>8. Typed'
  BY <1>3, <1>7 DEF CalcInv, Typed, OutType
<1>9. TraceOnDisk'
  BY <1>1, <1>3, <1>4 DEF TraceOnDisk, OnDisk
<1>10. PowerInv'
  BY <1>1, <1>3, <1>4, <1>5 DEF PowerInv
<1> QED
  BY <1>3, <1>8, <1>9, <1>10, NothingTold DEF CalcInv

LEMMA TellUserInv ==
  ASSUME CalcInv, TellUser
  PROVE  CalcInv'
<1>1. /\ clock' = in.start + out.access /\ pc' = "line" /\ driver = "ask"
      /\ UNCHANGED <<disk, driver, in, out, energy, ret, spun>>
  BY DEF TellUser
<1>2. clock' \in Nat
  BY <1>1 DEF CalcInv, Typed, InType, OutType
<1>3. Typed'
  BY <1>1, <1>2 DEF CalcInv, Typed, InType, OutType
<1> QED
  BY <1>1, <1>3, NothingTold DEF CalcInv, TraceOnDisk, PowerInv

LEMMA CloseInv ==
  ASSUME CalcInv, EndOfTrace \/ GiveUp
  PROVE  CalcInv'
<1>1. /\ pc' \in {"closed", "closedTwice"}
      /\ UNCHANGED <<disk, driver, in, clock, out, energy, ret, spun>>
  BY DEF EndOfTrace, GiveUp
<1>2. Typed'
  BY <1>1 DEF CalcInv, Typed, InType, OutType
<1> QED
  BY <1>1, <1>2, NothingTold DEF CalcInv, TraceOnDisk, PowerInv

LEMMA StutterInv ==
  ASSUME CalcInv, UNCHANGED vars
  PROVE  CalcInv'
<1>1. UNCHANGED <<disk, driver, pc, in, clock, out, energy, ret, spun>>
  BY DEF vars
<1>2. Typed'
  BY <1>1 DEF CalcInv, Typed, InType, OutType
<1>3. (OnDisk(in.from)' <=> OnDisk(in.from)) /\ (OnDisk(After)' <=> OnDisk(After))
  BY <1>1 DEF OnDisk, After
<1>4. TraceOnDisk'
  BY <1>1, <1>3 DEF CalcInv, TraceOnDisk
<1>5. PowerInv'
  <2>1. Idle(in.start - in.endRW)' = Idle(in.start - in.endRW)
    BY <1>1
  <2> QED
    BY <1>1, <2>1 DEF CalcInv, PowerInv
<1>6. Refusals'
  BY <1>1 DEF CalcInv, Refusals, Whole, TooLong, Refused, OnDisk, After, LastOnTrack, Home
<1>7. SectorArrives' /\ NextSectorMissed'
  BY <1>1 DEF CalcInv, SectorArrives, NextSectorMissed, Whole, OnDisk, StartAngle, Home
<1> QED
  BY <1>2, <1>4, <1>5, <1>6, <1>7 DEF CalcInv

LEMMA NextInv == CalcInv /\ [Next]_vars => CalcInv'
<1> SUFFICES ASSUME CalcInv, [Next]_vars
             PROVE  CalcInv'
  OBVIOUS
<1>1. CASE \E l \in Lines : ReadLine(l)
  <2>1. PICK l \in Lines : ReadLine(l)
    BY <1>1
  <2>2. l.load \in Nat /\ l.to \in Int /\ l.len \in Nat /\ l.rw \in {Read, Write}
    BY CalcAssumption
  <2> QED
    BY <2>1, <2>2, RequestInv DEF ReadLine
<1>2. CASE \E l \in Lines : Type(l)
  BY <1>2, TypeInv
<1>3. CASE LastLineAgain
  <2>1. Request(in) /\ InType
    BY <1>3 DEF LastLineAgain, CalcInv, Typed
  <2> QED
    BY <1>3, <2>1, RequestInv DEF LastLineAgain, InType
<1>4. CASE \E lbn \in Firsts : First(lbn)
  BY <1>4, FirstInv
<1>5. CASE Calculate
  BY <1>5, CalculateInv
<1>6. CASE UseAnswer
  BY <1>6, UseAnswerInv
<1>7. CASE TellUser
  BY <1>7, TellUserInv
<1>8. CASE EndOfTrace \/ GiveUp
  BY <1>8, CloseInv
<1>9. CASE UNCHANGED vars
  BY <1>9, StutterInv
<1> QED
  BY <1>1, <1>2, <1>3, <1>4, <1>5, <1>6, <1>7, <1>8, <1>9 DEF Next

LEMMA InitInv == Init => CalcInv
<1> SUFFICES ASSUME Init
             PROVE  CalcInv
  OBVIOUS
<1>1. InType
  BY DEF Init, InType, InFields
<1>2. \E access \in Nat : out = NoOut(access)
  BY CalcAssumption DEF Init
<1>3. 0 \in 0 .. Circle - 1
  BY CircleAssumption
<1>4. OutType(out)
  BY <1>2, <1>3 DEF NoOut, OutType, OutFields
<1>5. Typed
  BY <1>1, <1>4, CalcAssumption DEF Init, Typed, CALC_OK
<1>6. TraceOnDisk
  <2>1. disk.sectors \in Nat \ {0}
    BY <1>5, Disk DEF Typed
  <2> QED
    BY <2>1 DEF Init, TraceOnDisk, OnDisk
<1>7. PowerInv
  <2>1. out.access \in Nat
    BY <1>4 DEF OutType
  <2> QED
    BY <2>1 DEF Init, PowerInv
<1> QED
  BY <1>5, <1>6, <1>7 DEF Init, CalcInv, Refusals, SectorArrives, NextSectorMissed

LEMMA CalcInvAlways == Spec => []CalcInv
BY InitInv, NextInv, PTL DEF Spec

-----------------------------------------------------------------------------
(* What it shows *)

\* The runs RefusesWhen speaks of are among those the code refuses or answers.
LEMMA RefusedAsMeant ==
  ASSUME Typed, Refusals
  PROVE  RefusesWhen
<1> DEFINE end      == LastOnTrack(in.to)
           overlong == in.len > g4_spt_pbn(disk, Home(in.to))
           fits     == /\ OnDisk(After)
                       /\ After > end => After <= LastOnTrack(end + 1)
           tooFar   == /\ After - 1 > end
                       /\ OnDisk(After - 1) => After - 1 > LastOnTrack(end + 1)
<1>1. pc = "aborted" => Whole /\ overlong
  BY DEF Refusals, TooLong
<1>2. pc = "returned" /\ ~Whole => ret = CALC_ERR
  BY DEF Refusals
<1>3. ASSUME pc = "returned", Whole
      PROVE  (fits => ret = CALC_OK) /\ (tooFar => ret = CALC_ERR)
  <2>1. /\ disk \in Disks /\ OnDisk(in.to) /\ in.to \in Int /\ in.len \in Nat
        /\ ret \in {CALC_OK, CALC_ERR} /\ disk.sectors \in Nat \ {0}
    BY <1>3, Disk DEF Typed, InType, Whole
  <2>2. After \in Int /\ end \in Int /\ OnDisk(end)
    BY <2>1, EndIsLast DEF After
  <2>3. ret = CALC_ERR <=> Refused
    BY <1>3 DEF Refusals
  <2>4. OnDisk(end + 1) => LastOnTrack(end + 1) \in Int
    BY <2>1, EndIsLast
  <2> HIDE DEF end
  <2>5. ASSUME fits PROVE ~Refused
    <3>1. CASE ~(After > end)
      BY <3>1 DEF Refused, end
    <3>2. CASE After > end
      <4>1. OnDisk(end + 1)
        BY <2>1, <2>2, <2>5, <3>2 DEF OnDisk
      <4> QED
        BY <2>2, <2>4, <2>5, <3>2, <4>1 DEF Refused, end
    <3> QED
      BY <3>1, <3>2
  <2>6. ASSUME tooFar PROVE Refused
    <3>1. After > end
      BY <2>2, <2>6
    <3>2. CASE ~OnDisk(After)
      BY <3>1, <3>2 DEF Refused, end
    <3>3. CASE OnDisk(After)
      <4>1. OnDisk(After - 1) /\ OnDisk(end + 1)
        BY <2>1, <2>2, <2>6, <3>3 DEF OnDisk
      <4>2. After > LastOnTrack(end + 1)
        BY <2>2, <2>4, <2>6, <4>1
      <4> QED
        BY <3>1, <4>2 DEF Refused, end
    <3> QED
      BY <3>2, <3>3
  <2> QED
    BY <2>1, <2>3, <2>5, <2>6
<1> QED
  BY <1>1, <1>2, <1>3 DEF RefusesWhen

\* For any trace and any user: a run that is not on the disk or goes on past the next
\* track is refused, one with the LBN after it on the target's track or the next is
\* not, and only one longer than the target's track is stopped by an assertion; a
\* trace goes on from the LBN after a run on the disk (hdd_calc_app.c:75-224).
THEOREM CalculatorRefuses == Spec => []RefusesAsMeant
<1>1. CalcInv => RefusesAsMeant
  <2> SUFFICES ASSUME CalcInv
               PROVE  RefusesAsMeant
    OBVIOUS
  <2>1. TypeOK
    BY DEF CalcInv, Typed, InType, OutType, TypeOK
  <2>2. FromAfterRun
    <3>1. disk.sectors \in Nat \ {0}
      BY Disk DEF CalcInv, Typed
    <3> QED
      BY <3>1 DEF CalcInv, TraceOnDisk, FromAfterRun, OnDisk
  <2>3. RefusesWhen
    BY RefusedAsMeant DEF CalcInv
  <2> QED
    BY <2>1, <2>2, <2>3 DEF RefusesAsMeant
<1> QED
  BY <1>1, CalcInvAlways, PTL

\* For any trace, layout and seek curve: at the time a calculation tells the first
\* sector of the target is under the head, up to the precision of the arithmetic, and
\* when the run goes on to the next track its first sector has gone by exactly as far
\* as the seek takes longer than the turn (hdd_calc_app.c:118-219).
THEOREM CalculatorTurns == Spec => []SectorsArrive
<1>1. CalcInv => SectorsArrive
  BY DEF CalcInv, SectorsArrive
<1> QED
  BY <1>1, CalcInvAlways, PTL

\* Outside standby mode the idle energy of an access is for the time waited for it
\* (hdd_model_calculator.c:251-339).
LEMMA IdleSums ==
  ASSUME NEW wait \in Int, Idle(wait).mode # 4
  PROVE  SumOfIdle(Idle(wait)) = wait
BY CalcAssumption DEF Idle, UpTo, NoIdle, SumOfIdle

\* For any trace, disk and drive no access of test_hdd_model_power_trace_io starts
\* before the last has ended, spindle energy is counted once for every moment up to
\* the last seek, and idle energy for the whole wait of an access for which the disk
\* does not go into standby (hdd_model_calculator.c:76-339).
THEOREM PowerTimesTile == Spec => []TimesTile
<1>1. CalcInv => TimesTile
  <2> SUFFICES ASSUME CalcInv
               PROVE  TimesTile
    OBVIOUS
  <2>1. NoNegativeIdle /\ WindowsTile
    BY DEF CalcInv, PowerInv, NoNegativeIdle, WindowsTile, Typed, InType
  <2>2. IdleAddsUp
    <3> SUFFICES ASSUME driver = "power", pc = "returned", ret = CALC_OK, energy.idle.mode # 4
                 PROVE  IdleAddsUp
      BY DEF IdleAddsUp
    <3>1. energy.idle = Idle(in.start - in.endRW) /\ in.start - in.endRW \in Int
      BY DEF CalcInv, PowerInv, Typed, InType
    <3> QED
      BY <3>1, IdleSums DEF IdleAddsUp
  <2> QED
    BY <2>1, <2>2 DEF TimesTile
<1> QED
  BY <1>1, CalcInvAlways, PTL
=============================================================================

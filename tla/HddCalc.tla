------------------------------ MODULE HddCalc -------------------------------
(***************************************************************************)
(* The access calculators and the drivers that replay a trace with them:   *)
(*                                                                         *)
(*   "time"   test_hdd_model_trace_io and hdd_model_calculate_access_time  *)
(*   "power"  test_hdd_model_power_trace_io and                            *)
(*            hdd_model_calculate_access_time_and_power                    *)
(*   "ask"    test_hdd_model_one_lba, which asks the first calculator for  *)
(*            what a user types                                            *)
(*                                                                         *)
(* Times are whole units of dm_time_t, arrivals too.  An energy is kept as *)
(* the times it is a sum over, by the power each is multiplied with.       *)
(***************************************************************************)
EXTENDS MechService

CONSTANTS Disks,     \* the disks
          Lines,     \* accesses: [load, to, len, rw]
          MaxLines,  \* bound: accesses in a trace
          Firsts,    \* LBNs a user starts from
          Offset,    \* OFFSET_SIM_START_TIME
          Uninit,    \* what an output struct may hold before its first use
          IdleCfg    \* stPowerIdleModeSystemCfg: waits, recovery times, timer

ASSUME CalcAssumption ==
  /\ MaxLines \in Nat /\ Offset \in Nat /\ Uninit \subseteq Nat
  /\ Firsts \subseteq Int
  /\ \A l \in Lines : l.load \in Nat /\ l.to \in Int /\ l.len \in Nat \ {0} /\ l.rw \in {Read, Write}
  /\ {IdleCfg.wait1, IdleCfg.wait2, IdleCfg.wait3, IdleCfg.timer} \subseteq Nat
  /\ {IdleCfg.recover1, IdleCfg.recover2, IdleCfg.recover3, IdleCfg.recover4} \subseteq Nat

\* What the calculators take for granted of layout and mechanics.
ASSUME ServiceAssumption ==
  \A d \in Disks : FindsLbns(d) /\ BoundsTracks(d) /\ EvenTracks(d) /\ SeeksTakeTime(d)

VARIABLES disk, driver, pc,
          lines,     \* accesses read, whether the last was read again, and whether
                     \* the user's target struct holds a place yet
          in,        \* the input struct: from, to, len, rw, start, and the last
                     \* zone, end of seek and end of transfer
          clock,     \* tCompletionTime_ms of "ask"
          out,       \* the output struct
          energy,    \* its energies
          ret,       \* what the last call returned
          spun       \* history: the time spindle energy was counted for
vars == <<disk, driver, pc, lines, in, clock, out, energy, ret, spun>>

CALC_OK  == 0
CALC_ERR == 1
MORE_THAN_2_TRACK == DM_NX - 1

NoIdle   == [active |-> 0, idle1 |-> 0, idle2 |-> 0, idle3 |-> 0, standby |-> 0, mode |-> 0]
NoEnergy == [zone |-> 0, spindle |-> 0, bias |-> 0, seek |-> 0, head |-> 0, servo |-> 0, idle |-> NoIdle]
NoOut(access) ==
  [fromSkew |-> 0, first |-> 0, last |-> 0, afterSeek |-> 0, seek |-> 0, latency |-> 0,
   transfer |-> 0, access |-> access, addl |-> 0, error |-> 0]

Init ==
  /\ disk \in Disks /\ driver \in {"time", "power", "ask"}
  /\ pc = "line" /\ lines = [read |-> 0, again |-> FALSE, held |-> FALSE]
  /\ in = [from |-> 0, to |-> 0, len |-> 0, rw |-> Read, start |-> 0, load |-> 0,
           zone |-> 0, endSeek |-> 0, endRW |-> 0]
  /\ clock = Offset
  /\ \E access \in (IF driver = "ask" THEN Uninit ELSE {0}) : out = NoOut(access)
  /\ energy = NoEnergy /\ ret = CALC_OK /\ spun = 0

-----------------------------------------------------------------------------
(* Reading the trace *)

\* Faulty variant: an access waits for its arrival only.
StartOfArrival(load) == load

\* The access starts when it has arrived and the one before is over.
StartOf(load) == Larger(load, in.start + out.access)

Request(l) ==
  in' = [in EXCEPT !.to = l.to, !.len = l.len, !.rw = l.rw, !.load = l.load, !.start = StartOf(l.load)]

ReadLine(l) ==
  /\ pc = "line" /\ driver # "ask" /\ lines.read < MaxLines /\ ~lines.again
  /\ lines' = [lines EXCEPT !.read = @ + 1]
  /\ Request(l)
  /\ pc' = "calc"
  /\ UNCHANGED <<disk, driver, clock, out, energy, ret, spun>>

\* A newline after the last line: fgets fails and the line it left is scanned again.
LastLineAgain ==
  /\ pc = "line" /\ driver # "ask" /\ lines.read > 0 /\ ~lines.again
  /\ lines' = [lines EXCEPT !.again = TRUE]
  /\ Request(in)
  /\ pc' = "calc"
  /\ UNCHANGED <<disk, driver, clock, out, energy, ret, spun>>

EndOfTrace ==
  /\ pc = "line" /\ lines.read > 0
  /\ pc' = "closed"
  /\ UNCHANGED <<disk, driver, lines, in, clock, out, energy, ret, spun>>

PlaceOfLbn(lbn) == ltop(disk, lbn, Origin)
Found(lbn) == PlaceOfLbn(lbn).status = DM_OK

\* The user is shown place and track of the LBN typed.  For one that is not on the
\* disk these are those of the last that was; before there was one the struct holds
\* anything, and the search for the bounds of its track need not end.
Shown(lbn, next) ==
  /\ lines' = [lines EXCEPT !.read = @ + 1, !.held = @ \/ Found(lbn)]
  /\ \/ pc' = next
     \/ ~Found(lbn) /\ ~lines.held /\ pc' = "stuck"

\* The user types an LBN to start from, then accesses: each is made from the end
\* of the one before.
First(lbn) ==
  /\ pc = "line" /\ driver = "ask" /\ lines.read = 0
  /\ in' = [in EXCEPT !.to = lbn]
  /\ Shown(lbn, "line")
  /\ UNCHANGED <<disk, driver, clock, out, energy, ret, spun>>

Type(l) ==
  /\ pc = "line" /\ driver = "ask" /\ lines.read \in 1 .. MaxLines
  /\ in' = [in EXCEPT !.from = in.to + in.len, !.to = l.to, !.len = l.len, !.rw = l.rw,
                      !.load = l.load, !.start = clock]
  /\ Shown(l.to, "calc")
  /\ UNCHANGED <<disk, driver, clock, out, energy, ret, spun>>

-----------------------------------------------------------------------------
(* The calculation *)

\* g4_track_bound: the first LBN of the track of a sector that has one.
FirstOn(p) == ptol(disk, [p EXCEPT !.sector =
  CHOOSE k \in 0 .. p.sector : /\ ptol(disk, [p EXCEPT !.sector = k]) >= 0
                               /\ \A j \in 0 .. k - 1 : ptol(disk, [p EXCEPT !.sector = j]) < 0])

Fail(code, o) ==
  /\ ret' = CALC_ERR /\ out' = [o EXCEPT !.error = code]
  /\ pc' = "returned"
  /\ UNCHANGED <<energy, spun>>

FromUnmapped == ~Found(in.from) /\ Fail(DM_NX, out)

WithFrom == [out EXCEPT !.fromSkew = g4_skew(disk, PlaceOfLbn(in.from).pbn)]

TargetUnmapped == Found(in.from) /\ ~Found(in.to) /\ Fail(DM_NX, WithFrom)

\* Faulty variant: the time the seek starts at is left out.
TurnedBySeek(seek) == seek % Period

\* The time the disk has turned for when the seek ends.
Turned(seek) == (seek + in.start) % Period

\* The disk is at angle 0 at time 0, or where the last access left the head.
StartAngle(fromSkew) == IF driver = "power" THEN fromSkew ELSE 0

AfterSeek(p, fromSkew, seek) ==
  [cyl |-> p.cyl, head |-> p.head,
   theta |-> (StartAngle(fromSkew) + dm_rotate(Turned(seek))) % Circle]

TransferTime(p) == dm_xfertime(disk, p, 1) * in.len

Timed(o, p, s, seek, wait) ==
  [o EXCEPT !.first = FirstOn(p), !.last = TrackEnd(disk, p), !.afterSeek = s.theta,
            !.seek = seek, !.latency = wait.time, !.transfer = TransferTime(p),
            !.access = seek + TransferTime(p) + wait.time, !.addl = 0]

\* Faulty variant: the end is counted from where the head comes from.
EndLbaOfFrom == in.from + in.len

EndLba == in.to + in.len

Additional(rot, seek) == Larger(rot, seek)

\* From the last sector of the target's track to the first of the next.
OnToNext(o, target, next) ==
  LET addl == Additional(dm_rottime(g4_skew(disk, PlaceOfLbn(o.last).pbn), g4_skew(disk, next)),
                         dm_seek_time(target, next, in.rw))
  IN  [o EXCEPT !.access = @ + addl, !.addl = addl]

\* The time spent in the modes before mode n.
UpTo(n) ==
  [NoIdle EXCEPT !.mode   = n,
                 !.active = IF n >= 1 THEN IdleCfg.wait1 ELSE 0,
                 !.idle1  = IF n >= 2 THEN IdleCfg.wait2 ELSE 0,
                 !.idle2  = IF n >= 3 THEN IdleCfg.wait3 ELSE 0]

\* Where the wait before an access was spent; i1, i2, ... are what is left of it
\* after the waits of modes 1, 2, ...
Idle(wait) ==
  LET i1 == wait - IdleCfg.wait1
      i2 == i1 - IdleCfg.wait2
      i3 == i2 - IdleCfg.wait3
      i4 == i3 - IdleCfg.timer
  IN  IF i1 < IdleCfg.recover1 THEN [UpTo(0) EXCEPT !.active = wait]
      ELSE IF i2 < IdleCfg.recover2 THEN [UpTo(1) EXCEPT !.idle1 = i1]
      ELSE IF i3 < IdleCfg.recover3 THEN [UpTo(2) EXCEPT !.idle2 = i2]
      ELSE IF i4 < IdleCfg.recover4 THEN [UpTo(3) EXCEPT !.idle3 = i3]
      ELSE [UpTo(4) EXCEPT !.idle3 = IdleCfg.recover4, !.standby = i4]

\* The second calculator goes on to the energies; its registers are in out.
Energies(o) ==
  [zone    |-> g4_get_zone_id_by_lbn(disk, in.to),
   spindle |-> in.start + o.seek - in.endSeek,
   bias    |-> in.start + o.seek - in.endSeek,
   seek    |-> o.seek,
   head    |-> o.transfer,
   servo   |-> o.transfer + o.latency + o.seek,
   idle    |-> Idle(in.start - in.endRW)]

Done(o) ==
  /\ ret' = CALC_OK /\ out' = o
  /\ IF driver = "power"
     THEN energy' = Energies(o) /\ spun' = spun + Energies(o).spindle
     ELSE UNCHANGED <<energy, spun>>
  /\ pc' = "returned"

\* The run stays on the track, or goes on to the next, or further.
Ended(o, target) ==
  IF EndLba <= o.last THEN Done(o)
  ELSE IF ~Found(EndLba) \/ ~Found(o.last + 1) THEN Fail(DM_NX, o)
  ELSE IF EndLba > TrackEnd(disk, PlaceOfLbn(o.last + 1).pbn) THEN Fail(MORE_THAN_2_TRACK, o)
  ELSE Done(OnToNext(o, target, PlaceOfLbn(o.last + 1).pbn))

Waited(target, s, seek, wait) ==
  IF wait.ok THEN Ended(Timed(WithFrom, target, s, seek, wait), target)
  ELSE pc' = "aborted" /\ UNCHANGED <<out, energy, ret, spun>>

SeekedTo(target, s, seek) ==
  Waited(target, s, seek, dm_latency(disk, s, target.sector, in.len, FALSE))

Seeking(target, seek) == SeekedTo(target, AfterSeek(target, WithFrom.fromSkew, seek), seek)

Access ==
  /\ Found(in.from) /\ Found(in.to)
  /\ Seeking(PlaceOfLbn(in.to).pbn, dm_seek_time(PlaceOfLbn(in.from).pbn, PlaceOfLbn(in.to).pbn, in.rw))

Calculate ==
  /\ pc = "calc"
  /\ (FromUnmapped \/ TargetUnmapped \/ Access)
  /\ UNCHANGED <<disk, driver, lines, in, clock>>

-----------------------------------------------------------------------------
(* What the drivers do with the answer *)

\* The registers a trace hands from one call to the next.
Registers(i) ==
  [i EXCEPT !.zone = energy.zone, !.endSeek = in.start + out.seek, !.endRW = in.start + out.access]

FromAfter == in.to + in.len

UseAnswer ==
  /\ pc = "returned" /\ driver # "ask" /\ ret = CALC_OK
  /\ in' = (IF driver = "power" THEN Registers([in EXCEPT !.from = FromAfter])
            ELSE [in EXCEPT !.from = FromAfter])
  /\ pc' = "line"
  /\ UNCHANGED <<disk, driver, lines, clock, out, energy, ret, spun>>

\* The output file is closed on leaving the loop and again after it.
GiveUp ==
  /\ pc = "returned" /\ driver # "ask" /\ ret = CALC_ERR
  /\ pc' = "closedTwice"
  /\ UNCHANGED <<disk, driver, lines, in, clock, out, energy, ret, spun>>

\* test_hdd_model_one_lba does not look at what the call returned.
TellUser ==
  /\ pc = "returned" /\ driver = "ask"
  /\ clock' = in.start + out.access
  /\ pc' = "line"
  /\ UNCHANGED <<disk, driver, lines, in, out, energy, ret, spun>>

Next ==
  \/ \E l \in Lines : ReadLine(l) \/ Type(l)
  \/ LastLineAgain \/ EndOfTrace
  \/ \E lbn \in Firsts : First(lbn)
  \/ Calculate
  \/ UseAnswer \/ GiveUp \/ TellUser

Spec == Init /\ [][Next]_vars

-----------------------------------------------------------------------------
(* What is refused *)

Home(lbn)   == SectorOf(disk, lbn)
OnDisk(lbn) == lbn \in 0 .. disk.sectors - 1
Whole == OnDisk(in.from) /\ OnDisk(in.to)
After == in.to + in.len

\* The last LBN on the track of an LBN.
LastOnTrack(lbn) ==
  LET on == { k \in 0 .. disk.sectors - 1 : OneTrack(Home(k), Home(lbn)) }
  IN  CHOOSE k \in on : \A j \in on : j <= k

\* The one type invariant: angles on the circle, times not negative.
TypeOK ==
  /\ pc \in {"line", "calc", "returned", "closed", "closedTwice", "aborted", "stuck"}
  /\ out.afterSeek \in 0 .. Circle - 1 /\ out.fromSkew \in 0 .. Circle - 1
  /\ \A f \in {"seek", "latency", "transfer", "access", "addl"} : out[f] \in Nat
  /\ ret \in {CALC_OK, CALC_ERR}
  /\ in.start \in Nat /\ clock \in Nat

\* A run is refused when it is not on the disk or goes on past the next track, and
\* only then; none is stopped by an assertion unless it is longer than the target's
\* track.  Nothing is said of two kinds of run the code treats unlike what is said of
\* it: one longer than the target's track, of which dm_latency is to read what the
\* track holds (dm.h:409-414) and fails an assertion, and one that just ends with the
\* next track or the disk, which takes no more than two tracks (dm.h:568-569) and is
\* refused for the LBN after it.
RefusesWhen ==
  pc \in {"returned", "aborted"} =>
    LET last     == After - 1
        overlong == in.len > g4_spt_pbn(disk, Home(in.to))
        fits     == /\ OnDisk(After)
                    /\ After > LastOnTrack(in.to) => After <= LastOnTrack(LastOnTrack(in.to) + 1)
        tooFar   == /\ last > LastOnTrack(in.to)
                    /\ OnDisk(last) => last > LastOnTrack(LastOnTrack(in.to) + 1)
    IN  /\ pc = "aborted" => Whole /\ overlong
        /\ pc = "returned" /\ ~Whole => ret = CALC_ERR
        /\ pc = "returned" /\ Whole /\ ~overlong /\ fits => ret = CALC_OK
        /\ pc = "returned" /\ Whole /\ ~overlong /\ tooFar => ret = CALC_ERR

\* A trace goes on from the LBN after a run on the disk.
FromAfterRun == driver # "ask" /\ pc = "calc" => in.from \in 0 .. disk.sectors

\* What a calculation refuses or aborts on, and where a trace goes on from
\* (hdd_calc_app.c:75-224; the parts are above).
RefusesAsMeant == TypeOK /\ RefusesWhen /\ FromAfterRun

-----------------------------------------------------------------------------
(* Where the sectors are *)

\* The seek and the latency bring the first sector of the target under the head,
\* by the time since the disk was at the angle the calculator starts from: angle 0
\* for one, the angle of the last access for the other.
SectorArrives ==
  pc = "returned" /\ Whole =>
    Apart(StartAngle(out.fromSkew) + dm_rotate((in.start + out.seek + out.latency) % Period),
          g4_skew(disk, Home(in.to))) < Precision

\* Going on to the next track, the head is over its first sector at the end of the
\* additional latency unless the seek takes longer than the disk needs to bring it
\* there: then it has gone by, as far as the disk turns in the time the seek takes
\* longer, and the turn until it comes back is not counted.
NextSectorMissed ==
  pc = "returned" /\ ret = CALC_OK /\ out.addl # 0 =>
    LET a    == Home(out.last)
        b    == Home(out.last + 1)
        gap  == dm_rottime(g4_skew(disk, a), g4_skew(disk, b))
        late == Larger(0, dm_seek_time(a, b, in.rw) - gap)
    IN  Apart(g4_skew(disk, a) + dm_rotate(out.addl), g4_skew(disk, b) + dm_rotate(late))
          < Precision

\* The sector a calculation is for comes under the head when it says, on the
\* target's track and on the next (hdd_calc_app.c:118-219; the parts are above).
SectorsArrive == SectorArrives /\ NextSectorMissed

-----------------------------------------------------------------------------
(* The times of a power trace *)

SumOfIdle(i) == i.active + i.idle1 + i.idle2 + i.idle3 + i.standby

\* No access of a trace starts before the last has ended: the wait that idle
\* energy is counted for is never negative.
NoNegativeIdle == driver = "power" /\ pc \in {"calc", "returned"} => in.start >= in.endRW

\* Spindle energy is counted once for every moment up to the end of the last seek.
WindowsTile == driver = "power" /\ pc = "line" => spun = in.endSeek

\* The wait is divided up among the modes.  Of standby mode nothing is said: its
\* comment has the time before it be that of the timer (hdd_model_calculator.c:356-360)
\* and the code counts the time it takes to recover.
IdleAddsUp ==
  driver = "power" /\ pc = "returned" /\ ret = CALC_OK /\ energy.idle.mode # 4 =>
    SumOfIdle(energy.idle) = in.start - in.endRW

\* The times of a power trace: no wait is negative, spindle energy covers every
\* moment once, and idle energy the whole wait unless the disk goes into standby
\* (hdd_model_calculator.c:76-395, test_disksim_mechanical_model.c:254-367).
TimesTile == NoNegativeIdle /\ WindowsTile /\ IdleAddsUp
=============================================================================

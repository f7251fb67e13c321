------------------------------- MODULE Access -------------------------------
(***************************************************************************)
(* Access times: a client of struct dm_mech_if asks dm_acctime_g1 how long *)
(* it takes to read or write a run of LBNs from a given state of the       *)
(* mechanics, and dm_pos_time_g1 how long until the transfer starts.       *)
(* dm_acctime_g1 cuts the run into the parts that lie on one track; a part *)
(* is one step.  The layout's track boundaries are those of LayoutG4, with *)
(* no place for the first LBN.                                             *)
(***************************************************************************)
EXTENDS MechService

CONSTANTS Disks,      \* the disks a layout file may describe
          States,     \* the mechanical states a client may start from
          MaxLen      \* the longest run a client asks for

VARIABLES disk,      \* the layout and its disk
          pc,        \* "idle", "loop", "done" or, for good, "aborted"
          req,       \* the call: first LBN, its sector, length and flags
          istate,    \* the initial state it was given
          pbn,       \* the sector of l
          l, lastlbn, \* first LBN still to be accessed, last LBN to access
          s,         \* the state after the parts accessed so far
          result,    \* the time they took
          breakdown,
          parts      \* history: the LBNs and the track of each part

call == <<disk, req, istate>>
loop == <<pbn, l, lastlbn, s, result, breakdown, parts>>
vars == <<call, pc, loop>>

\* What dm_acctime_g1 takes for granted of layout and mechanics.
ASSUME AccessAssumption ==
  /\ MaxLen \in Nat
  /\ \A m \in States : m.theta \in 0 .. Circle - 1
  /\ \A d \in Disks :
       FindsLbns(d) /\ BoundsTracks(d) /\ EvenTracks(d) /\ TracksHaveWidth(d) /\ SeeksTakeTime(d)

AtRest == [cyl |-> 0, head |-> 0, theta |-> 0]
NoTime == [seektime |-> 0, initial_latency |-> 0, initial_xfer |-> 0,
           addl_latency |-> 0, addl_xfer |-> 0]
NoReq  == [op |-> "none", first |-> 0, start |-> Origin, len |-> 0, rw |-> Read, immed |-> FALSE]

Cleared ==
  /\ pbn' = Origin /\ l' = 0 /\ lastlbn' = 0 /\ s' = AtRest
  /\ result' = 0 /\ breakdown' = NoTime /\ parts' = <<>>

Init ==
  /\ disk \in Disks
  /\ pc = "idle" /\ req = NoReq /\ istate = AtRest
  /\ pbn = Origin /\ l = 0 /\ lastlbn = 0 /\ s = AtRest
  /\ result = 0 /\ breakdown = NoTime /\ parts = <<>>

\* The client has used the results.
Use == pc = "done" /\ pc' = "idle" /\ req' = NoReq /\ istate' = AtRest /\ Cleared
       /\ UNCHANGED disk

\* A request for n LBNs from f on, whose sector ltop gave.
Request(op, f, n, w, im) ==
  [op |-> op, first |-> f, start |-> SectorOf(disk, f), len |-> n, rw |-> w, immed |-> im]

\* The mechanics are on a cylinder of the disk.
StatesOn(d) == { m \in States : m.cyl \in Cylinders(d) }

-----------------------------------------------------------------------------
(* dm_pos_time_g1, which a client must not ask about more than a track. *)

PosTimeIs(r, m, t) ==
  /\ pc = "idle"
  /\ r.len <= g4_spt_pbn(disk, r.start)
  /\ req' = r /\ istate' = m
  /\ result' = t.time /\ breakdown' = t.breakdown
  /\ pc' = IF t.ok THEN "done" ELSE "aborted"
  /\ UNCHANGED <<disk, pbn, l, lastlbn, s, parts>>

PosTime(r, m) == PosTimeIs(r, m, dm_pos_time(disk, m, r.start, r.len, r.rw, r.immed))

-----------------------------------------------------------------------------
(* dm_acctime_g1 *)

Begin(r, m) ==
  /\ pc = "idle"
  /\ req' = r /\ istate' = m
  /\ pbn' = r.start
  /\ l' = ptol(disk, r.start)
  /\ lastlbn' = l' + r.len - 1
  /\ s' = m
  /\ pc' = "loop"
  /\ UNCHANGED <<disk, result, breakdown, parts>>

\* Faulty variants: the end of the track is not cut down to the end of the access,
\* or taken for the first LBN after it.
PartEndUncut(end) == end
PartEndShort(end) == Lesser(end, lastlbn) - 1

PartEnd(end) == Lesser(end, lastlbn)

\* The access from l to high on its track, from p on.
Timed(p, high) ==
  IF req.immed
  THEN dm_acctime_track_immed(disk, s, p, high - l + 1, req.rw, l, lastlbn)
  ELSE dm_acctime_track(disk, s, p, high - l + 1, req.rw)

\* The part that starts where the access does is broken down; the others are not.
BrokenDown(p, high, part) ==
  IF p # req.start THEN breakdown
  ELSE IF high = lastlbn THEN part
  ELSE [breakdown EXCEPT !.seektime        = part.seektime,
                         !.initial_latency = part.initial_latency,
                         !.initial_xfer    = part.initial_xfer + part.addl_latency + part.addl_xfer]

\* Faulty variant: each part starts from the initial state of the access.
HeadNotMoved(t) == istate

HeadAfter(t) == t.state

\* One turn of the loop: from l to the end of its track or of the access.  What
\* ltop and g4_track_bound return is not looked at.
PartFrom(p, end, high, t) ==
  /\ pbn' = p
  /\ result' = result + t.time
  /\ s' = HeadAfter(t)
  /\ l' = high + 1
  /\ breakdown' = BrokenDown(p, high, t.breakdown)
  /\ parts' = Append(parts, [from |-> l, to |-> high, cyl |-> p.cyl, head |-> p.head])
  /\ pc' = IF end < 0 \/ ~t.ok THEN "aborted" ELSE IF lastlbn > high THEN "loop" ELSE "done"
  /\ UNCHANGED <<call, lastlbn>>

PartUpTo(p, end, high) == PartFrom(p, end, high, Timed(p, high))
PartOn(p, end) == PartUpTo(p, end, PartEnd(end))
PartAt(p) == PartOn(p, TrackEnd(disk, p))

Part == pc = "loop" /\ PartAt(ltop(disk, l, pbn).pbn)

Next ==
  \/ \E f \in 0 .. disk.sectors - 1, w \in {Read, Write}, im \in BOOLEAN, m \in StatesOn(disk) :
       \E n \in 1 .. Lesser(MaxLen, disk.sectors - f) :
         \/ Begin(Request("access", f, n, w, im), m)
         \/ PosTime(Request("pos", f, n, w, im), m)
  \/ Part
  \/ Use

Spec == Init /\ [][Next]_vars

-----------------------------------------------------------------------------
(* Properties *)

Answered(op) == pc = "done" /\ req.op = op
LastPart == parts[Len(parts)]
SumOfTimes(b) ==
  b.seektime + b.initial_latency + b.initial_xfer + b.addl_latency + b.addl_xfer

\* The variables of dm_acctime_g1 have their C types; the angles are angles.
TypeOK ==
  /\ disk \in Disks
  /\ pc \in {"idle", "loop", "done", "aborted"}
  /\ req.first \in 0 .. disk.sectors - 1 /\ req.len \in 0 .. MaxLen
  /\ istate \in States \cup {AtRest}
  /\ pbn \in [cyl : Cylinders(disk), head : 0 .. disk.heads - 1, sector : Nat]
  /\ l \in 0 .. disk.sectors /\ lastlbn \in 0 .. disk.sectors - 1
  /\ s.theta \in 0 .. Circle - 1
  /\ result \in Nat
  /\ \A f \in DOMAIN breakdown : breakdown[f] \in Int

\* No assertion of the latency functions or of g4_track_bound fails, and g4_atop
\* divides by no zero width (mech_g1.c:515, :582, :692; layout_g4.c:656).
NeverAborts == pc # "aborted"

\* The parts of an access follow each other without gap or overlap from the first
\* LBN asked for, and the last ends with the run (mech_g1.c:410-486: l, lastlbn and
\* the end of the track are in terms of what ptol and the bounds return).
PartsInOrder ==
  /\ \A k \in DOMAIN parts :
       /\ parts[k].from = IF k = 1 THEN req.first ELSE parts[k - 1].to + 1
       /\ parts[k].from <= parts[k].to
  /\ pc = "done" /\ req.op = "access" =>
       parts # <<>> /\ parts[Len(parts)].to = req.first + req.len - 1

\* Each part is on its track, and no two neighbours share one (mech_g1.c:421-429).
PartsOnTracks ==
  \A k \in DOMAIN parts :
    /\ \A i \in parts[k].from .. parts[k].to : OneTrack(SectorOf(disk, i), parts[k])
    /\ k > 1 => ~OneTrack(parts[k], parts[k - 1])

\* dm_acctime_g1 covers the run it was asked about, track by track, failing no
\* assertion (mech_g1.c:374-491).
CoversTheRun == TypeOK /\ NeverAborts /\ PartsInOrder /\ PartsOnTracks

\* The state the next part is timed from: the head is on the track of the part before,
\* and the disk has turned for as long as the parts so far took, but for one angle lost
\* to rounding at each of them (mech_g1.c:385-459, s and s2).  Where the head is at the
\* end is told to nobody: dm_acctime_g1 does not write result_state.
HeadKeepsTime ==
  pc = "loop" /\ parts # <<>> =>
    /\ OneTrack(s, LastPart)
    /\ (istate.theta + dm_rotate(result) - s.theta) % Circle < Len(parts) * AngleGrain

\* mech_g1.c:376: "single track accesses are normal": their breakdown adds up.
OneTrackAddsUp == Answered("access") /\ Len(parts) = 1 => SumOfTimes(breakdown) = result

\* A part is timed from where and when the part before it ended, and the breakdown
\* of an access to one track says where the time went (mech_g1.c:374-491).
TimeAddsUp == HeadKeepsTime /\ OneTrackAddsUp

\* The seek and the rotational latency together bring the first sector under the
\* head, to the precision of dm_rottime and dm_rotate, in less than one turn
\* (mech_g1.c:138-187, :463-484).
SectorUnderHead ==
  pc = "done" /\ ~req.immed =>
    /\ breakdown.initial_latency \in 0 .. Period - 1
    /\ Apart(istate.theta + dm_rotate(breakdown.seektime + breakdown.initial_latency),
             g4_skew(disk, req.start)) < Precision

\* Reading a track from where the head is never waits longer than waiting for
\* the first sector (mech_g1.c:494-600).
ImmedNotLater ==
  Answered("pos") /\ req.immed =>
    result <= dm_pos_time(disk, istate, req.start, req.len, req.rw, FALSE).time

\* The latency of dm_pos_time_g1 serves: the sector waited for is under the head
\* after it, and reading at once does not wait longer (mech_g1.c:138-187).
LatencyServes == SectorUnderHead /\ ImmedNotLater

\* Every turn of the loop over tracks comes closer to the end of the access, and
\* none goes past it, so the loop ends (mech_g1.c:486).
TurnsForward == [][pc = "loop" => l < l' /\ l' <= lastlbn + 1]_vars
=============================================================================

------------------------------ MODULE LayoutG4 ------------------------------
(***************************************************************************)
(* A G4 layout serving a client through struct dm_layout_if.  The client   *)
(* keeps a struct dm_pbn, which ltop and atop fill and which the client    *)
(* may also fill itself; a call is one step, except g4_track_bound, whose  *)
(* two loops look for the first and last mapped sector one ptol at a time. *)
(***************************************************************************)
EXTENDS G4Map

CONSTANTS Disks,      \* the disks a layout file may describe
          Heads, Cyls, Sectors, \* the parts of the dm_pbn a client may make up
          Thetas,     \* the angles a client may ask about
          BlindBounds, \* whether a client asks for the bounds of a made-up pbn
          IntMax      \* the largest int the sector counters reach

ASSUME ClientAssumption ==
  /\ Heads \subseteq Nat /\ Cyls \subseteq Nat /\ Sectors \subseteq Nat
  /\ Thetas \subseteq 0 .. Circle - 1
  /\ BlindBounds \in BOOLEAN
  /\ IntMax \in Nat

\* A track has no more sectors than the int that counts them can say.
ASSUME CounterAssumption ==
  \A d \in Disks : \A k \in DOMAIN d.track : d.track[k].spt <= IntMax

ASSUME DisksAssumption == \A d \in Disks : WellFormed(d)

VARIABLES disk, \* the layout and its disk
          pc,   \* "idle", the loop of g4_track_bound, "done" or, for good, "aborted"
          call, \* the interface function called last
          arg,  \* its LBN, zone, track number or angle
          pbn,  \* the client's struct dm_pbn
          from, \* the LBN ltop filled pbn for, or -1
          ret,  \* the value returned
          out,  \* what a call stores besides
          want, \* whether g4_track_bound's caller passed l0 and ln
          pi,   \* g4_track_bound's sector counter
          l0, ln

client == <<pbn, from>>
result == <<call, arg, ret, out>>
bounds == <<want, pi, l0, ln>>
vars   == <<disk, pc, client, result, bounds>>

Pbns == [cyl : Cyls, head : Heads, sector : Sectors]

Init ==
  /\ disk \in Disks
  /\ pc = "idle"
  /\ call = "none" /\ arg = 0 /\ ret = 0 /\ out = 0
  /\ pbn = [cyl |-> 0, head |-> 0, sector |-> 0] /\ from = -1
  /\ want = [l0 |-> FALSE, ln |-> FALSE] /\ pi = 0
  /\ l0 = 0 /\ ln = 0

NoCall ==
  /\ call' = "none" /\ arg' = 0 /\ ret' = 0 /\ out' = 0
  /\ want' = [l0 |-> FALSE, ln |-> FALSE] /\ pi' = 0
  /\ l0' = 0 /\ ln' = 0

\* A call without loops, from its start to its return.
Returns(f, a, r, o) ==
  /\ pc = "idle"
  /\ pc' = "done"
  /\ call' = f /\ arg' = a /\ ret' = r /\ out' = o
  /\ UNCHANGED <<disk, bounds>>

\* The client has used the results; its dm_pbn stays.
Use == pc = "done" /\ pc' = "idle" /\ NoCall /\ UNCHANGED <<disk, client>>

-----------------------------------------------------------------------------
\* The client fills its dm_pbn.
Point(p) ==
  /\ pc = "idle"
  /\ pbn' = p
  /\ from' = -1
  /\ UNCHANGED <<disk, pc, result, bounds>>

LtopReturns(l, t) ==
  /\ pbn' = t.pbn
  /\ from' = IF t.status = DM_OK THEN l ELSE -1
  /\ Returns("ltop", l, t.status, t.moved)

Ltop(l) == LtopReturns(l, ltop(disk, l, pbn))

Ptol ==
  /\ Returns("ptol", 0, ptol(disk, pbn), 0)
  /\ UNCHANGED client

SectorsLbn(l) == Returns("spt_lbn", l, g4_spt_lbn(disk, l), 0) /\ UNCHANGED client

SectorsPbn == Returns("spt_pbn", 0, g4_spt_pbn(disk, pbn), 0) /\ UNCHANGED client

SectorWidth(num) ==
  Returns("width", num, g4_sector_width(disk, pbn, num), 0) /\ UNCHANGED client

Skew == Returns("skew", 0, g4_skew(disk, pbn), 0) /\ UNCHANGED client

ZoneIdByLbn(l) ==
  Returns("zone", l, g4_get_zone_id_by_lbn(disk, l), 0) /\ UNCHANGED client

\* A track inside no zone reads past the zone tables and is not asked for.
PbnByAbsCyl(c) ==
  /\ \E n \in Zones(disk) : HasTrack(disk, n, c)
  /\ LET a == g4_get_pbn_by_abs_cyl(disk, c)
     IN  pbn' = a.pbn /\ Returns("abs_cyl", c, a.zone, a.start)
  /\ from' = -1

\* g4_atop at an angle of the track the client's dm_pbn is on, as g1_access_block
\* calls it: only when that dm_pbn has a sector width (mech_g1.c:672-677).  The
\* division is by the width of sector 0, and traps when that is zero.
AtopBy(width, theta) ==
  /\ pc = "idle"
  /\ g4_sector_width(disk, pbn, 1) # 0
  /\ pc' = IF width = 0 THEN "aborted" ELSE "done"
  /\ call' = "atop"
  /\ arg' = theta
  /\ pbn' = [pbn EXCEPT !.sector = IF width = 0 THEN 0 ELSE theta \div width]
  /\ ret' = IF width = 0 THEN 0 ELSE ptol(disk, pbn')
  /\ from' = -1
  /\ UNCHANGED <<disk, out, bounds>>

Atop(theta) == AtopBy(g4_sector_width(disk, [pbn EXCEPT !.sector = 0], 1), theta)

-----------------------------------------------------------------------------
(* g4_track_bound *)

\* Faulty variant: the last sector of the track is left out.
LastSectorShort(spt) == spt - 2

LastSector(spt) == spt - 1

ErrorOrOk(lbn) == IF lbn < 0 THEN lbn ELSE DM_OK

TrackBound(w) ==
  /\ pc = "idle"
  /\ BlindBounds \/ from # -1
  /\ call' = "bound" /\ arg' = 0
  /\ want' = w
  /\ ret' = ErrorOrOk(ptol(disk, pbn))
  /\ out' = g4_spt_pbn(disk, pbn)
  /\ l0' = 0 /\ ln' = 0
  /\ pc' = IF w.l0 THEN "first" ELSE "last"
  /\ pi' = IF w.l0 THEN 0 ELSE LastSector(out')
  /\ UNCHANGED <<disk, client>>

\* ptol for every sector g4_track_bound can try, worked out once: the fairness of
\* its loops asks for it over and over.
PtolTable ==
  UNION { { <<d, p, ptol(d, p)>> :
              p \in [cyl : -1 .. d.cyls, head : 0 .. d.heads - 1, sector : -IntMax - 1 .. IntMax] } :
          d \in Disks }

Tried == (CHOOSE t \in PtolTable : t[1] = disk /\ t[2] = [pbn EXCEPT !.sector = pi])[3]

\* Faulty variant: the counter is not advanced.
FirstLoopStuck ==
  /\ pc = "first"
  /\ Tried < 0
  /\ l0' = Tried
  /\ UNCHANGED <<disk, pc, client, result, want, pi, ln>>

\* while((*l0 = ptol(d, &pi, 0)) < 0) pi.sector++, the counter wrapping around.
FirstLoop ==
  /\ pc = "first"
  /\ Tried < 0
  /\ l0' = Tried
  /\ pi' = IF pi = IntMax THEN -IntMax - 1 ELSE pi + 1
  /\ UNCHANGED <<disk, pc, client, result, want, ln>>

FirstFound ==
  /\ pc = "first"
  /\ Tried >= 0
  /\ l0' = Tried
  /\ pc' = IF Tried >= disk.sectors THEN "aborted" ELSE IF want.ln THEN "last" ELSE "done"
  /\ pi' = IF pc' = "last" THEN LastSector(out) ELSE 0
  /\ UNCHANGED <<disk, client, result, want, ln>>

\* while((*ln = ptol(d, &pi, 0)) < 0), which asserts that sectors are left.
LastLoop ==
  /\ pc = "last"
  /\ Tried < 0
  /\ ln' = Tried
  /\ pi' = pi - 1
  /\ pc' = IF pi' >= 0 THEN "last" ELSE "aborted"
  /\ UNCHANGED <<disk, client, result, want, l0>>

LastFound ==
  /\ pc = "last"
  /\ Tried >= 0
  /\ ln' = Tried
  /\ pc' = IF Tried >= disk.sectors \/ (want.l0 /\ l0 > Tried) THEN "aborted" ELSE "done"
  /\ pi' = 0
  /\ UNCHANGED <<disk, client, result, want, l0>>

BoundStep == FirstLoop \/ FirstFound \/ LastLoop \/ LastFound

Wanted == { w \in [l0 : BOOLEAN, ln : BOOLEAN] : w.l0 \/ w.ln }

Next ==
  \/ \E p \in Pbns : Point(p)
  \/ \E l \in -1 .. disk.sectors : Ltop(l)
  \/ \E l \in 0 .. disk.sectors - 1 : SectorsLbn(l) \/ ZoneIdByLbn(l)
  \/ \E c \in 0 .. disk.cyls * disk.heads - 1 : PbnByAbsCyl(c)
  \/ \E num \in Sectors : SectorWidth(num)
  \/ \E theta \in Thetas : Atop(theta)
  \/ Ptol \/ SectorsPbn \/ Skew \/ Use
  \/ \E w \in Wanted : TrackBound(w)
  \/ BoundStep

Spec == Init /\ [][Next]_vars

\* The loops run on; nobody has to make a call.
FairSpec == Spec /\ WF_vars(BoundStep)

-----------------------------------------------------------------------------
(* Properties *)

Done(f) == pc = "done" /\ call = f

\* The head over the start of a sector, g4_skew on from the start of the track,
\* is found over that sector by g4_atop: the step g1_access_block relies on.
AtopUndoesSkew ==
  Done("skew") /\ ptol(disk, pbn) >= 0 /\ ~PbnRemapped(disk, pbn) =>
    LET start == g4_skew(disk, [pbn EXCEPT !.sector = 0])
    IN  ((ret - start) % Circle) \div g4_sector_width(disk, pbn, 1) = pbn.sector

\* The LBNs that ltop puts on the track of p.
TrackLbns(p) ==
  { l \in 0 .. disk.sectors - 1 :
      LET t == ltop(disk, l, p)
      IN  t.status = DM_OK /\ t.pbn.cyl = p.cyl /\ t.pbn.head = p.head }

IsFirst(l, S) == l \in S /\ \A m \in S : l <= m
IsLast(l, S)  == l \in S /\ \A m \in S : m <= l

\* dm.h: "last_lbn is that of the last sector on the given track", and the
\* first likewise, whatever is slipped at either end of the track; a spare
\* track's bounds hold the LBN that led there.
BoundsOfTrack ==
  Done("bound") =>
    /\ want.l0 => (disk.remaps = <<>> => IsFirst(l0, TrackLbns(pbn))) /\ (from # -1 => l0 <= from)
    /\ want.ln => (disk.remaps = <<>> => IsLast(ln, TrackLbns(pbn))) /\ (from # -1 => from <= ln)

\* None of g4_track_bound's assertions fails, and g4_atop's division is never
\* by zero on a track ltop led to or one inside the tree.
NeverAborts == pc # "aborted"

\* g4_track_bound answers with the bounds of the track, failing no assertion on
\* the way.
BoundsAnswer == BoundsOfTrack /\ NeverAborts

\* dm_testsuite.c "translate the lbn space forwards and backwards": ptol of the
\* sector ltop gave is the LBN ltop was given, slipped, remapped or not.
RoundTrip == Done("ptol") /\ from # -1 => ret = from
=============================================================================

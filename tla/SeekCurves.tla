----------------------------- MODULE SeekCurves -----------------------------
(***************************************************************************)
(* The seek half of mech_g1: the loaders of its parameters, one action     *)
(* each, and the seek functions they choose from.  lp_loadparams calls the *)
(* loaders in an order the block decides, after those they depend on       *)
(* (LoadParams).  A failed TEST of a modspec does nothing: the loader goes *)
(* on, or is left half done by the function that returned an error.        *)
(*                                                                         *)
(* Times in a block are in units of dm_time_t, Msec of them a millisecond. *)
(* The struct comes from malloc: a field no loader wrote is Unset.         *)
(***************************************************************************)
EXTENDS TableLookup

CONSTANTS Blocks,      \* parameter blocks: a function from parameters to values
          Msec,        \* DM_TIME_MSEC
          HalfBits,    \* half the width of an integer that sqrt32 takes: 16
          RootBits,    \* the fraction bits of a root in the HPL curves: 16
          HeadSwitch,  \* m->headswitch
          WriteDelta,  \* m->seekwritedelta
          Dists        \* bound: the distances of seeks

ASSUME SeekAssumption ==
  /\ {Msec, HalfBits, RootBits} \subseteq Nat \ {0} /\ Dists \subseteq Nat
  /\ HeadSwitch \in Nat /\ WriteDelta \in Nat

\* disk_seek_t, and the names of Seek type.
SeekTypes == <<"constant", "linear", "curve", "hpl", "hplplus10", "extracted">>
CodeOf(type) == (CHOOSE i \in DOMAIN SeekTypes : SeekTypes[i] = type) - 1

Unset == -1000000

\* A double of milliseconds stored as it is, for lack of dm_time_dtoi.
StoredTime(d) == TruncDiv(d, Msec)

SeekTimes == {"constant", "one", "avg", "full"}
SeekLists == {"ten", "hpl"}
Element   == [t : STRING, v : Int \ {Unset}]
CurveRow  == [ok : BOOLEAN, d : Nat, r : Nat, w : Nat]

\* What the parser and the table loader let through: the type is required, a list has
\* elements of any type, and no number is the mark of memory nobody wrote.
ASSUME BlocksAssumption ==
  \A b \in Blocks :
    /\ DOMAIN b \subseteq SeekTimes \cup SeekLists \cup {"type", "curve"}
    /\ "type" \in DOMAIN b /\ \E i \in DOMAIN SeekTypes : b["type"] = SeekTypes[i]
    /\ \A p \in SeekTimes \cap DOMAIN b : b[p] \in Int /\ StoredTime(b[p]) # Unset
    /\ \A p \in SeekLists \cap DOMAIN b : b[p] \in Seq(Element) /\ b[p] # <<>>
    /\ "curve" \in DOMAIN b =>
         b["curve"] \in [rows : Seq(CurveRow), dual : {0, 1}] /\ b["curve"].rows # <<>>

VARIABLES block,   \* the parameters of the block
          m,       \* the fields of struct dm_mech_g1
          loaded,  \* the parameters loaded, in order
          stage, seek, took
seekVars == <<block, m, loaded, stage, seek, took>>

-----------------------------------------------------------------------------
(* Loading *)

SeekInit ==
  /\ block \in Blocks
  /\ m = [seektime |-> Unset, seekfn |-> "none", one |-> Unset, avg |-> Unset, full |-> Unset,
          v1 |-> Unset, hp |-> [e \in 1 .. 5 |-> Unset], ten |-> [e \in 1 .. 10 |-> Unset],
          curve |-> <<Junk>>, dual |-> Unset]
  /\ loaded = <<>> /\ stage = "loading"
  /\ seek = [dist |-> 0, heads |-> FALSE, rw |-> "read"] /\ took = Zeros

IsLoaded(p) == \E i \in DOMAIN loaded : loaded[i] = p

\* Parameters with a DEPEND line on Seek type.
NeedType == {"curve", "ten", "hpl"}

CanLoad(p) ==
  /\ stage = "loading" /\ p \in DOMAIN block /\ ~IsLoaded(p)
  /\ p \in NeedType => IsLoaded("type")

Loads(p, fields) ==
  /\ CanLoad(p)
  /\ loaded' = Append(loaded, p)
  /\ m' = fields
  /\ UNCHANGED <<block, stage, seek, took>>

LoadType == Loads("type", [m EXCEPT !.seektime = CodeOf(block["type"]), !.seekfn = block["type"]])

LoadTime(p, f) == p \in DOMAIN block /\ Loads(p, [m EXCEPT ![f] = StoredTime(block[p])])

LoadCurve ==
  "curve" \in DOMAIN block
  /\ Loads("curve", [m EXCEPT !.seektime = CodeOf("extracted"), !.curve = block["curve"].rows,
                              !.dual = block["curve"].dual])

\* The room of a list of n values, doubled from eight; the rest is NULL.
Room(n) == IF n <= 8 THEN 8 ELSE IF n <= 16 THEN 16 ELSE 32

\* Elements of a list: [t, v].  One that stops the loop over them.
IsBad(l, e, free) == e > Len(l) \/ l[e].t # "D" \/ (l[e].v < 0 /\ e # free)

\* The first of the places 1 .. n that does; n + 1 if none.
Stop(l, n, free) ==
  IF \E e \in 1 .. n : IsBad(l, e, free)
  THEN CHOOSE e \in 1 .. n : IsBad(l, e, free) /\ \A k \in 1 .. e - 1 : ~IsBad(l, k, free)
  ELSE n + 1

\* A loader that ran into a NULL slot.
Crash(p) == CanLoad(p) /\ stage' = "crashed" /\ UNCHANGED <<block, m, loaded, seek, took>>

Ignored(p) == Loads(p, m)

Ten == block["ten"]

\* do_1st10_seeks
LoadTen ==
  /\ "ten" \in DOMAIN block /\ CanLoad("ten")
  /\ LET stop == Stop(Ten, 10, 0) IN
     IF m.seektime # CodeOf("hplplus10") \/ Room(Len(Ten)) < 10 THEN Ignored("ten")
     ELSE IF stop <= 10 /\ stop > Len(Ten) THEN Crash("ten")
     ELSE Loads("ten", [m EXCEPT !.ten = [e \in 1 .. 10 |-> IF e < stop THEN Ten[e].v ELSE @[e]]])

Hpl == block["hpl"]

\* Faulty variant: only the plain HPL type takes the parameters.
TakesHplPlain == m.seektime = CodeOf("hpl")

\* The test of do_hpl_seek, on the field Seek type shares with others.
TakesHpl == m.seektime \in {CodeOf("hpl"), CodeOf("hplplus10")}

\* do_hpl_seek; -1 milliseconds as the last value is -1 as it is.
LoadHpl ==
  /\ "hpl" \in DOMAIN block /\ CanLoad("hpl")
  /\ LET rest == Tail(Hpl)
         stop == Stop(rest, 5, 5)
         last == IF Hpl[6].v = -Msec THEN -1 ELSE Hpl[6].v
         hp   == [e \in 1 .. 5 |-> IF e >= stop THEN m.hp[e] ELSE IF e = 5 THEN last ELSE rest[e].v]
     IN  IF ~TakesHpl \/ Hpl[1].t # "I" \/ Hpl[1].v < 0 THEN Ignored("hpl")
         ELSE IF stop <= 5 /\ stop > Len(rest) THEN Crash("hpl")
         ELSE Loads("hpl", [m EXCEPT !.v1 = Hpl[1].v, !.hp = hp,
                                     !.one = IF stop = 6 /\ last # -1 THEN last ELSE @])

Ready ==
  /\ stage = "loading" /\ \A p \in DOMAIN block : IsLoaded(p)
  /\ stage' = "ready"
  /\ UNCHANGED <<block, m, loaded, seek, took>>

-----------------------------------------------------------------------------
(* Seeking over a distance.  An answer is a row; Junk if memory nobody   *)
(* wrote decides it.                                                       *)

\* sqrt32 and sqrt64: from 2^(bits-1) - 1, a bit down or up each turn, until
\* the root is met; at cap it goes no further up.  Squares wrap.
Root(x, bits, cap) ==
  LET wide   == 2 ^ (2 * bits)
      met(r) == (r * r) % wide <= x /\ ((r + 1) * (r + 1)) % wide > x
      step[c \in 0 .. bits + 1] ==
        IF c = 0 THEN 2 ^ (bits - 1) - 1
        ELSE LET r   == step[c - 1]
                 bit == IF c <= bits THEN 2 ^ (bits - c) ELSE 0
             IN  IF met(r) THEN r
                 ELSE IF (r * r) % wide > x THEN (r - bit) % wide
                 ELSE IF r = cap THEN r ELSE (r + bit) % wide
  IN  IF x <= 1 THEN x ELSE step[bits + 1]

\* Faulty variant: the distance is kept in three bits.
sqrt32_narrow(x) == Root(x % 8, HalfBits, 2 ^ HalfBits - 1)

sqrt32(x) == Root(x, HalfBits, 2 ^ HalfBits - 1)

\* The cap is half way.
sqrt64(x) == Root(x, 2 * HalfBits, 2 ^ (2 * HalfBits - 1) - 1)

Time(t) == Row(0, t, t)
Known(S) == Unset \notin S

\* The assertion on seektype reads a field nobody writes.
dm_mech_g1_seek_const(dist) == Junk

dm_mech_g1_seek_3pt_curve(dist) ==
  IF dist = 0 THEN Time(0)
  ELSE IF ~Known({m.one, m.avg, m.full}) THEN Junk
  ELSE Time(m.one + m.avg * (dist - 1) + m.full * sqrt32(dist - 1))

\* numcyls is set to the distance.
Numcyls(dist) == dist

dm_mech_g1_seek_3pt_line(dist) ==
  LET n == Numcyls(dist) IN
  CASE dist = 0 -> Time(0)
    [] dist = 1 -> IF Known({m.one}) THEN Time(m.one) ELSE Junk
    [] dist > 1 /\ dist <= n \div 3 ->
         IF Known({m.one, m.avg}) THEN Time(m.one + ((3 * (dist - 1)) \div n) * (m.avg - m.one)) ELSE Junk
    [] OTHER ->
         IF Known({m.avg, m.full}) THEN Time(m.avg + TruncDiv(3 * dist - n, 2 * n) * (m.full - m.avg)) ELSE Junk

\* The root of a distance, with RootBits of fraction.
RootPart(dist) == Time(((sqrt64(dist * 2 ^ (2 * RootBits)) * m.hp[2]) \div 2 ^ RootBits) + m.hp[1])
LinePart(dist) == Time(m.hp[4] * dist + m.hp[3])

\* The division point is looked for in hpseek[0], which no loader writes.
dm_mech_g1_seek_hpl(dist) ==
  IF dist = 0 THEN Time(0)
  ELSE IF dist = 1 /\ m.hp[5] \notin {Unset, -1} /\ Known({m.one}) THEN Time(m.one)
  ELSE Junk

dm_mech_g1_seek_1st10_plus_hpl(dist) ==
  IF dist = 0 THEN Time(0)
  ELSE IF dist <= 10 THEN IF Known({m.ten[dist]}) THEN Time(m.ten[dist]) ELSE Junk
  ELSE IF ~Known({m.v1, m.hp[1], m.hp[2], m.hp[3], m.hp[4]}) THEN Junk
  ELSE IF dist < m.v1 THEN RootPart(dist)
  ELSE LinePart(dist)

\* m->seekfn
Sought(dist, rw) ==
  CASE m.seekfn = "constant"  -> dm_mech_g1_seek_const(dist)
    [] m.seekfn = "linear"    -> dm_mech_g1_seek_3pt_line(dist)
    [] m.seekfn = "curve"     -> dm_mech_g1_seek_3pt_curve(dist)
    [] m.seekfn = "hpl"       -> dm_mech_g1_seek_hpl(dist)
    [] m.seekfn = "hplplus10" -> dm_mech_g1_seek_1st10_plus_hpl(dist)
    [] OTHER                  ->
         dm_mech_g1_seek_extracted(m.curve, Len(m.curve), dist, IF m.dual = 1 /\ rw = "write" THEN "w" ELSE "r")

\* Settling for a write; whether the profile is dual only a curve's loader says.
Settled(move, rw) ==
  IF rw = "read" \/ ~move.ok THEN move
  ELSE IF m.dual = Unset THEN (IF move.r = 0 THEN move ELSE Junk)
  ELSE IF move.r # 0 /\ m.dual = 0 THEN Time(move.r + WriteDelta)
  ELSE move

\* The larger of the seek and the head switch.
Moved(move, heads) == IF move.ok /\ heads /\ HeadSwitch > move.r THEN Time(HeadSwitch) ELSE move

dm_seek_time_g1(dist, heads, rw) == Settled(Moved(Sought(dist, rw), heads), rw)

SeekTime(dist, heads, rw) ==
  /\ stage = "ready"
  /\ seek' = [dist |-> dist, heads |-> heads, rw |-> rw]
  /\ took' = dm_seek_time_g1(dist, heads, rw)
  /\ stage' = "sought"
  /\ UNCHANGED <<block, m, loaded>>

SeekNext ==
  \/ LoadType
  \/ LoadTime("constant", "seektime")
  \/ LoadTime("one", "one")
  \/ LoadTime("avg", "avg")
  \/ LoadTime("full", "full")
  \/ LoadCurve
  \/ LoadTen
  \/ LoadHpl
  \/ Ready
  \/ \E dist \in Dists, heads \in BOOLEAN, rw \in {"read", "write"} : SeekTime(dist, heads, rw)

SeekSpec == SeekInit /\ [][SeekNext]_seekVars

-----------------------------------------------------------------------------
(* What the loaders leave behind *)

Has(p) == p \in DOMAIN block
Type   == block["type"]

\* What each type needs, by mech_g1.modspec.
Needs == [linear |-> {"one", "avg", "full"}, curve |-> {"one", "avg", "full"},
          hplplus10 |-> {"ten", "hpl"}, extracted |-> {"curve"}]

\* Nothing in the lists stops their loaders, and a search of the curve for a distance
\* ends between two points or after two.
GoodLists ==
  /\ Has("ten") => \A e \in 1 .. 10 : ~IsBad(Ten, e, 0)
  /\ Has("hpl") => Hpl[1].t = "I" /\ Hpl[1].v >= 0 /\ \A e \in 1 .. 5 : ~IsBad(Tail(Hpl), e, 5)
  /\ Has("curve") =>
       LET rows == block["curve"].rows IN
       /\ Len(rows) > 1 /\ \A i \in DOMAIN rows : rows[i].ok
       /\ rows[1].d = 0 /\ rows[Len(rows) - 1].d # rows[Len(rows)].d

PositionOf(p) == CHOOSE i \in DOMAIN loaded : loaded[i] = p

\* The value the first n loaders left in the field that Seek type, Constant seek
\* time and Full seek curve share.
TypeAfter(n) ==
  LET writers == { i \in 1 .. n : loaded[i] \in {"type", "constant", "curve"} }
      last    == loaded[CHOOSE i \in writers : \A j \in writers : j <= i]
  IN  IF writers = {} THEN Unset
      ELSE CASE last = "type"     -> CodeOf(Type)
             [] last = "constant" -> StoredTime(block["constant"])
             [] OTHER             -> CodeOf("extracted")

TypeSeenBy(p) == TypeAfter(PositionOf(p) - 1)

\* The one type invariant: the function is a seek function once Seek type is
\* loaded, distances are in bounds, and no parameter is loaded twice.
SeekTypeOK ==
  /\ m.seekfn \in {"none"} \cup { SeekTypes[i] : i \in DOMAIN SeekTypes }
  /\ IsLoaded("type") <=> m.seekfn # "none"
  /\ \A i, j \in DOMAIN loaded : loaded[i] = loaded[j] => i = j
  /\ \A i \in DOMAIN loaded : Has(loaded[i])
  /\ stage = "sought" => seek.dist \in Dists
  /\ stage \in {"loading", "ready", "sought", "crashed"}

\* The seeks of a block that has what its type needs read only what was
\* loaded, in whatever order that was: reads always, writes that move if there is
\* a seek curve too, for only its loader says whether the profile is dual.
\* Constant seek time is not among what these types need, and Seek type hpl
\* and constant are not among them.
CompleteReadsLoaded ==
  stage = "sought" /\ Type \in DOMAIN Needs /\ Needs[Type] \subseteq DOMAIN block /\ GoodLists
    /\ ~Has("constant") /\ (Type = "hplplus10" => ~Has("curve"))
  => (took.ok <=> \/ seek.rw = "read" \/ Has("curve")
                  \/ dm_seek_time_g1(seek.dist, seek.heads, "read").r = 0)

\* One of the first ten seeks is answered from the list exactly when the
\* field three loaders write said hplplus10 when the list was loaded, the list has
\* more than eight places, and no element up to that distance stops the loader;
\* the others stay unset.
FirstTenAnswered ==
  stage = "sought" /\ Type = "hplplus10" /\ Has("ten") /\ seek.rw = "read" /\ seek.dist \in 1 .. 10 =>
    (took.ok <=> /\ TypeSeenBy("ten") = CodeOf("hplplus10")
                 /\ Len(Ten) > 8
                 /\ \A e \in 1 .. seek.dist : Ten[e].t = "D" /\ Ten[e].v >= 0)

\* A NULL slot is only met in a list of nine seek times, one of fewer has no
\* room for ten, or in one of fewer than six HPL parameters.
CrashesOnShortLists ==
  stage = "crashed" => (Has("ten") /\ Len(Ten) = 9) \/ (Has("hpl") /\ Len(Hpl) < 6)

\* What the loaders leave in the fields, the shared one among them, decides
\* what a seek reads, in every order of loading (mech_g1_load.c:323-403,
\* modules/mech_g1.modspec:70-230; the parts are above).
FieldsDecide ==
  /\ SeekTypeOK
  /\ CompleteReadsLoaded
  /\ FirstTenAnswered
  /\ CrashesOnShortLists
=============================================================================

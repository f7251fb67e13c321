---------------------------- MODULE MCSeekCurves ----------------------------
(***************************************************************************)
(* Model checking SeekCurves: blocks of every seek type, complete or not,  *)
(* with the parameters of other types beside them, and lists that are      *)
(* short or hold a wrong element; loaded in every order.                   *)
(***************************************************************************)
EXTENDS SeekCurves, TLC
LOCAL INSTANCE SequencesExt

Dbl(v) == [t |-> "D", v |-> v]
Whole(v) == [t |-> "I", v |-> v]

TenSeeks == [e \in 1 .. 10 |-> Dbl(4 + e)]
Tens == { TenSeeks, SubSeq(TenSeeks, 1, 9), SubSeq(TenSeeks, 1, 3),
          [SubSeq(TenSeeks, 1, 9) EXCEPT ![3] = Whole(7)],
          [TenSeeks EXCEPT ![3] = Whole(7)], [TenSeeks EXCEPT ![10] = Dbl(-2)] }

HplSeeks == <<Whole(13), Dbl(3), Dbl(4), Dbl(11), Dbl(2), Dbl(6)>>
Hpls == { HplSeeks, [HplSeeks EXCEPT ![6] = Dbl(-Msec)], SubSeq(HplSeeks, 1, 5),
          [HplSeeks EXCEPT ![4] = Dbl(-2)], [HplSeeks EXCEPT ![1] = Dbl(13)] }

\* Seek curves as Tables loads them: one of reads, and one of both.
DualCurve == [rows |-> <<Zeros, Row(1, 5, 7), Row(3, 9, 9)>>, dual |-> 1]
Curves    == { DualCurve, [rows |-> <<Zeros, Row(1, 5, 0), Row(3, 9, 0)>>, dual |-> 0] }

\* No parameter, or one with a value of S.
Maybe(p, S) == { [q \in {} |-> 0] } \cup { p :> v : v \in S }

Three == "one" :> 12 @@ "avg" :> 25 @@ "full" :> 31

Merged(A, B) == { a @@ b : a \in A, b \in B }

\* 40 and 70: four and seven milliseconds; four is the code of a type.
BlocksOf(type, times, consts, curves, lists) ==
  Merged(Merged(Merged({"type" :> type}, times), Maybe("constant", consts)),
         Merged(Maybe("curve", curves), lists))

\* One list is as it should be when the other is not.
Lists == Merged(Maybe("ten", {TenSeeks}), Maybe("hpl", Hpls)) \cup Merged(Maybe("ten", Tens), {"hpl" :> HplSeeks})

MCDists == {0, 1, 2, 3, 4, 9, 10, 11, 14}

MCBlocks ==
     UNION { BlocksOf(t, {Three, "one" :> 12}, {40, 70}, Curves, {<<>>}) : t \in {"constant", "linear", "curve"} }
  \cup BlocksOf("extracted", {<<>>}, {70}, Curves, {<<>>})
  \cup UNION { BlocksOf(t, {"one" :> 12}, {40}, {DualCurve}, Lists) : t \in {"hpl", "hplplus10"} }

-----------------------------------------------------------------------------
(* Properties *)

\* A seek by the three point curve takes no less time than a shorter one.
CurveGrows ==
  stage = "sought" /\ Type = "curve" /\ seek.dist > 0 /\ ~seek.heads /\ seek.rw = "read" /\ took.ok =>
    dm_mech_g1_seek_3pt_curve(seek.dist - 1).r <= took.r

\* The roots taken of distances are the integers below them.
RootsAreFloors ==
  LET floor(r, x) == r * r <= x /\ x < (r + 1) * (r + 1)
      fine == seek.dist * 2 ^ (2 * RootBits)
  IN  stage = "sought" => floor(sqrt32(seek.dist), seek.dist) /\ floor(sqrt64(fine), fine)

\* The times of the types that calculate them (mech_g1_seektime.c:119-221,
\* sqrt.c; the parts are above).
SeeksGrow ==
  /\ CurveGrows
  /\ RootsAreFloors
=============================================================================

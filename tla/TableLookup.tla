---------------------------- MODULE TableLookup ----------------------------
(***************************************************************************)
(* Searching a measured table: the loop in dm_mech_g1_seek_extracted that  *)
(* dm_spindle_power_g4, dm_vcm_bias_power and dm_vcm_seek_energy_g4 copy.  *)
(* It goes from the front, answers a point it meets, interpolates between  *)
(* points, and extrapolates past the last.                                 *)
(*                                                                         *)
(* Values are integers, in units small enough for the measurements; what   *)
(* an interpolation leaves below a unit is dropped, as dm_time_t does (the *)
(* power tables keep doubles).  Memory nobody wrote is Junk.               *)
(***************************************************************************)
EXTENDS Integers, Sequences

\* A slot of the arrays: [ok, d, r, w].
Row(d, r, w) == [ok |-> TRUE, d |-> d, r |-> r, w |-> w]
Zeros        == Row(0, 0, 0)
Junk         == [ok |-> FALSE, d |-> 0, r |-> 0, w |-> 0]

Magn(a) == IF a >= 0 THEN a ELSE -a

\* Division as C does it, towards zero.
TruncDiv(a, b) == IF (a >= 0) = (b > 0) THEN Magn(a) \div Magn(b) ELSE -(Magn(a) \div Magn(b))

Value(row, col) == IF col = "w" THEN row.w ELSE row.r

\* Faulty variant: a point is passed when place is one before the next.
StopsAtNext(rows, i, total, place) == \/ rows[i].ok => place < rows[i].d + 2
                                      \/ i = total

\* The search stops at the first point not before place, or at the last.
StopsAt(rows, i, total, place) == \/ rows[i].ok => place <= rows[i].d
                                  \/ i = total

\* An interpolation starts from the read value, for writes too.
Base(row, col) == Value(row, "r")

\* From the points a and b; a difference of doubles over equal distances is
\* not a number.
Interpolated(a, b, place, col) ==
  IF ~a.ok \/ ~b.ok \/ a.d = b.d THEN Junk
  ELSE LET v == TruncDiv(Base(a, col) * (b.d - a.d) + (place - a.d) * (Value(b, col) - Value(a, col)), b.d - a.d)
       IN  Row(place, v, v)

\* The point before the first is memory in front of the arrays.
Before(rows, i) == IF i = 1 THEN Junk ELSE rows[i - 1]

Found(rows, i, place, col) ==
  IF \E j \in 1 .. i : ~rows[j].ok THEN Junk
  ELSE IF rows[i].d = place THEN Row(place, Value(rows[i], col), Value(rows[i], col))
  ELSE Interpolated(Before(rows, i), rows[i], place, col)

\* The answer for place among the first total rows; with none it is 0.
Searched(rows, total, place, col) ==
  IF total = 0 THEN Row(place, 0, 0)
  ELSE LET i == CHOOSE i \in 1 .. total :
                  /\ StopsAt(rows, i, total, place)
                  /\ \A j \in 1 .. i - 1 : ~StopsAt(rows, j, total, place)
       IN  Found(rows, i, place, col)

\* Seeking by the first n rows of a curve; distance 0 is no seek.
dm_mech_g1_seek_extracted(curve, n, dist, col) ==
  IF dist = 0 THEN Zeros ELSE Searched(curve, n, dist, col)
=============================================================================

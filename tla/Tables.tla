------------------------------- MODULE Tables -------------------------------
(***************************************************************************)
(* Measured tables: the extracted seek curve of mech_g1 and the energy and *)
(* power tables of mech_power.  A file holds an optional header with the   *)
(* number of points and then one point per line; it is read into arrays    *)
(* that are doubled as they fill, and then searched.                       *)
(***************************************************************************)
EXTENDS TableLookup, FiniteSets

CONSTANTS Lines,     \* lines of a file: [fields, d, r, w]
          MaxLines,  \* bound: lines after the header
          Counts,    \* the counts a header may give
          BufLen,    \* room when there is no header: 128 in the code
          Places     \* distances and zones asked about

ASSUME TablesAssumption ==
  /\ MaxLines \in Nat /\ BufLen \in Nat \ {0} /\ Counts \subseteq Nat /\ Places \subseteq Nat
  /\ \A l \in Lines : l.fields \in 0 .. 4 /\ {l.d, l.r, l.w} \subseteq Nat

VARIABLES loader, header,                    \* the file: its loader and header,
          file,                              \* and the lines read
          rows, count, total, dual,          \* the arrays, counters and flag
          asked, answer,                     \* a look-up and what it returned
          pc
vars == <<loader, header, file, rows, count, total, dual, asked, answer, pc>>

NoHeader == -1

\* How a loader differs from the others: what it asks sscanf for, which
\* numbers of fields it stores, and whether it counts a line before it looks
\* at it.
dm_mech_g1_read_write_extracted_seek_curve == [wanted |-> 4, stores |-> {2, 3, 4}, before |-> FALSE]
dm_mech_g1_read_extracted_seek_curve       == [wanted |-> 4, stores |-> 0 .. 4,    before |-> FALSE]
dm_mech_power_load_spindle_zone_curve      == [wanted |-> 2, stores |-> {2},       before |-> FALSE]
dm_mech_power_load_vcm_seek_dual_energy_curve == [wanted |-> 3, stores |-> {2, 3}, before |-> TRUE]
dm_mech_power_load_vcm_seek_energy_curve   == [wanted |-> 2, stores |-> {2},       before |-> TRUE]
dm_mech_power_load_vcm_bias_current_zone   == [wanted |-> 2, stores |-> {2},       before |-> TRUE]

Format == [seek    |-> dm_mech_g1_read_write_extracted_seek_curve,
           oldseek |-> dm_mech_g1_read_extracted_seek_curve,
           spindle |-> dm_mech_power_load_spindle_zone_curve,
           dual    |-> dm_mech_power_load_vcm_seek_dual_energy_curve,
           energy  |-> dm_mech_power_load_vcm_seek_energy_curve,
           bias    |-> dm_mech_power_load_vcm_bias_current_zone]

Loaders     == DOMAIN Format
SeekLoaders == {"seek", "oldseek"}

Matched(l) == IF l.fields < Format[loader].wanted THEN l.fields ELSE Format[loader].wanted

\* The row a line makes.  The old loader stores what sscanf left alone; the
\* energy loader scans a double as a float.
RowOf(l) ==
  CASE loader = "seek"    -> Row(l.d, l.r, IF Matched(l) = 4 THEN l.w ELSE 0)
    [] loader = "oldseek" -> IF Matched(l) >= 2 THEN Row(l.d, l.r, 0) ELSE Junk
    [] loader = "dual"    -> Row(l.d, l.r, IF Matched(l) = 3 THEN l.w ELSE l.r)
    [] loader = "energy"  -> Junk
    [] OTHER              -> Row(l.d, l.r, 0)

-----------------------------------------------------------------------------
(* Loading.  rows[i + 1] is element i of the arrays. *)

Init ==
  /\ loader \in Loaders
  /\ header \in Counts \cup {NoHeader}
  /\ rows = [i \in 1 .. (IF header = NoHeader THEN BufLen ELSE header) |-> Zeros]
  /\ count = (IF header # NoHeader /\ loader \in SeekLoaders THEN header ELSE 0)
  /\ total = (IF header = NoHeader THEN 0 ELSE header)
  /\ file = <<>> /\ dual = FALSE /\ pc = "read"
  /\ asked = [place |-> 0, rw |-> "read"] /\ answer = Zeros

\* Faulty variant: grown only once the arrays are full, counted from one.
GrownLate(n) == IF n >= Len(rows) + 1 THEN rows \o [i \in 1 .. Len(rows) |-> Junk] ELSE rows

\* realloc to twice the room when the next slot is the last.
Grown(n) == IF n >= Len(rows) - 1 THEN rows \o [i \in 1 .. Len(rows) |-> Junk] ELSE rows

\* Element n is written, inside the arrays or past their end.
Store(room, n, l) ==
  IF n < Len(room)
  THEN rows' = [room EXCEPT ![n + 1] = RowOf(l)] /\ pc' = pc
  ELSE rows' = room /\ pc' = "overrun"

\* The element a line is stored at.
LineNumber(l) == IF Format[loader].before THEN count + 1 ELSE count

\* The count after a point is stored.
Counted(n) == n + 1

Stored(l) == Matched(l) \in Format[loader].stores

ReadLine(l) ==
  /\ pc = "read" /\ Len(file) < MaxLines
  /\ file' = Append(file, l)
  /\ IF Stored(l)
     THEN /\ Store(Grown(LineNumber(l)), LineNumber(l), l)
          /\ count' = Counted(count)
          /\ total' = Counted(count)
          /\ dual' = (IF loader = "dual" THEN Matched(l) = 3 ELSE dual)
     ELSE /\ count' = (IF Format[loader].before THEN count + 1 ELSE count)
          /\ UNCHANGED <<rows, total, dual, pc>>
  /\ UNCHANGED <<loader, header, asked, answer>>

\* iSeekProfileType: what the last line of the file was.
LastDual == file # <<>> /\ Matched(file[Len(file)]) = 4

EndOfFile ==
  /\ pc = "read"
  /\ pc' = "loaded"
  /\ dual' = (IF loader = "seek" THEN LastDual ELSE dual)
  /\ UNCHANGED <<loader, header, file, rows, count, total, asked, answer>>

-----------------------------------------------------------------------------
(* Looking up *)

\* The write column is read for writes, if there is one.
Column(rw) == IF dual /\ rw = "write" THEN "w" ELSE "r"

dm_spindle_power_g4(zone) == Searched(rows, total, zone, "r")
dm_vcm_bias_power(zone)   == Searched(rows, total, zone, "r")

\* Distance 0 is no seek.
dm_vcm_seek_energy_g4(dist, rw) ==
  IF dist = 0 THEN Row(dist, 0, 0) ELSE Searched(rows, total, dist, Column(rw))

Lookup(place, rw) ==
  CASE loader = "spindle"      -> dm_spindle_power_g4(place)
    [] loader = "bias"         -> dm_vcm_bias_power(place)
    [] loader \in SeekLoaders  -> dm_mech_g1_seek_extracted(rows, total, place, Column(rw))
    [] OTHER                   -> dm_vcm_seek_energy_g4(place, rw)

Ask(place, rw) ==
  /\ pc = "loaded"
  /\ rw = "write" => loader \in SeekLoaders \cup {"dual", "energy"}
  /\ asked' = [place |-> place, rw |-> rw]
  /\ answer' = Lookup(place, rw)
  /\ pc' = "answered"
  /\ UNCHANGED <<loader, header, file, rows, count, total, dual>>

Next ==
  \/ \E l \in Lines : ReadLine(l)
  \/ EndOfFile
  \/ \E place \in Places, rw \in {"read", "write"} : Ask(place, rw)

Spec == Init /\ [][Next]_vars

-----------------------------------------------------------------------------
(* What a table holds *)

\* Every line is a point.
Clean == \A i \in DOMAIN file : Stored(file[i])

CountsFirst == Format[loader].before

\* The lines among the first n that are points.
Points(n) == { i \in 1 .. n : Stored(file[i]) }

\* The rows in front of the points: those a header of a seek curve counts, or the
\* one that a loader leaves out that counts before it stores.
Lead == IF CountsFirst THEN 1 ELSE IF loader \in SeekLoaders /\ header > 0 THEN header ELSE 0

\* The row of line i: behind those of the points, or of the lines, before it.
Slot(i) == Lead + (IF CountsFirst THEN i ELSE Cardinality(Points(i)))

\* The one type invariant: rows are rows, and the points counted lie inside
\* the arrays.
TypeOK ==
  /\ loader \in Loaders /\ header \in Counts \cup {NoHeader}
  /\ \A i \in DOMAIN rows : rows[i].ok \in BOOLEAN /\ {rows[i].d, rows[i].r, rows[i].w} \subseteq Nat
  /\ count \in Nat /\ total \in Nat /\ (pc # "overrun" => total <= Len(rows))
  /\ dual \in BOOLEAN /\ answer.ok \in BOOLEAN
  /\ pc \in {"read", "loaded", "answered", "overrun"}

\* The points of the file are in the arrays in their order, whatever lines stand
\* between them and however often the arrays have grown, behind rows of zeros.
PointsInOrder ==
  pc # "overrun" =>
    /\ \A i \in Points(Len(file)) : Slot(i) \in DOMAIN rows /\ rows[Slot(i)] = RowOf(file[i])
    /\ \A k \in DOMAIN rows : k <= Lead => rows[k] = Zeros

\* The rows that are looked at end with the last point; but with the last but one,
\* where a loader counts a line before it stores it (mech_power_load.c:209, 314, 399).
CountedToTheLast ==
  pc # "overrun" =>
    \A last \in Points(Len(file)) :
      (\A i \in Points(Len(file)) : i <= last) =>
        total = (IF CountsFirst THEN Slot(last) - 1 ELSE Slot(last))

\* Writing stays inside the arrays, if the header does not say 0 and no line
\* is counted without being stored (those skip the test that doubles;
\* mech_g1_load.c:204-213, mech_power_load.c:216-226).
StoresInside ==
  header # 0 /\ (Format[loader].before => Clean) => pc # "overrun"

\* The points of the file are in the arrays in their order, inside them and
\* counted to the last, or to the last but one where a loader counts first,
\* whatever lines stand between them (mech_g1_load.c:143-319,
\* mech_power_load.c:62-427; the parts are above).
StoresAsRead == TypeOK /\ PointsInOrder /\ CountedToTheLast /\ StoresInside

-----------------------------------------------------------------------------
(* What a look-up answers *)

\* Every row that is looked at was written, and they are in order.
Ascending ==
  /\ \A i \in 1 .. total : rows[i].ok
  /\ \A i, j \in 1 .. total : i <= j => rows[i].d <= rows[j].d

\* The first point at place.
IsFirstAt(i, place) == rows[i].d = place /\ \A j \in 1 .. i - 1 : rows[j].d < place

\* The curve at place is the line through row i and the next: place is between
\* them, or past the last two.
IsOnLineFrom(i, place) ==
  /\ rows[i].d < place /\ rows[i].d < rows[i + 1].d
  /\ place < rows[i + 1].d \/ (i + 1 = total /\ rows[total].d < place)

HasCurve(place) ==
  \/ \E i \in 1 .. total : IsFirstAt(i, place)
  \/ \E i \in 1 .. total - 1 : IsOnLineFrom(i, place)

\* v is less than a unit off the line through the points a and b.
LessThanOneOff(v, a, b, place, col) ==
  Magn((v - Value(a, col)) * (b.d - a.d) - (place - a.d) * (Value(b, col) - Value(a, col))) < b.d - a.d

\* Asked about distance 0, the seek tables are not looked at.
LooksUp == pc = "answered" /\ total > 0 /\ (asked.place > 0 \/ loader \in {"spindle", "bias"})

\* A table in order answers a point with its value and a place between two points,
\* or past the last, from the line through the two next to it; where there is
\* neither, such as before the first point, the answer is made from memory nobody
\* wrote (mech_g1_seektime.c:297-392, mech_power_load.c:429-601).  Left out: between
\* the points, a write in a table of two columns that differ at the point before
\* it, for which the code starts from the read column (:375).
AnswersFromCurve ==
  LooksUp /\ Ascending =>
    LET place == asked.place
        col   == Column(asked.rw)
    IN  /\ answer.ok <=> HasCurve(place)
        /\ \A i \in 1 .. total : IsFirstAt(i, place) => answer.r = Value(rows[i], col)
        /\ \A i \in 1 .. total - 1 :
             IsOnLineFrom(i, place) /\ Value(rows[i], col) = Value(rows[i], "r") =>
               LessThanOneOff(answer.r, rows[i], rows[i + 1], place, col)
=============================================================================

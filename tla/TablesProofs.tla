---------------------------- MODULE TablesProofs ----------------------------
(***************************************************************************)
(* The readers of tables write inside their arrays, for files of any       *)
(* length, any header but 0 and any room to begin with; what they leave    *)
(* there is the points of the file, and a look-up answers from the curve   *)
(* through them.  And the parameters of seeks, loaded in any order the     *)
(* dependencies allow, leave in the fields what decides what a seek reads. *)
(***************************************************************************)
EXTENDS Tables, SeekCurves, FiniteSetTheorems, SequenceTheorems, WellFoundedInduction, TLAPS

Reader == [wanted : Nat, stores : SUBSET Nat, before : BOOLEAN]

\* The arrays are grown when the next element is the last of them, so that the one
\* after it has room, too.
RoomInv ==
  /\ loader \in Loaders
  /\ \E R : rows \in Seq(R)
  /\ \E L : file \in Seq(L)
  /\ count \in Nat
  /\ header # 0 /\ (Format[loader].before => Clean) =>
       /\ pc # "overrun"
       /\ Len(rows) \in Nat \ {0}
       /\ IF Format[loader].before THEN count < Len(rows) ELSE count <= Len(rows)

-----------------------------------------------------------------------------
\* Storing an element next to the last, or the last, of grown arrays.
LEMMA GrownHolds ==
  ASSUME NEW R, rows \in Seq(R), NEW n \in Nat
  PROVE  /\ \E S : Grown(n) \in Seq(S)
         /\ Len(rows) # 0 /\ n <= Len(rows) => n < Len(Grown(n))
<1> DEFINE more == [i \in 1 .. Len(rows) |-> Junk]
<1>1. more \in Seq({Junk}) /\ Len(more) = Len(rows)
  OBVIOUS
<1>2. rows \in Seq(R \cup {Junk}) /\ more \in Seq(R \cup {Junk})
  BY <1>1
<1> HIDE DEF more
<1>3. rows \o more \in Seq(R \cup {Junk}) /\ Len(rows \o more) = Len(rows) + Len(rows)
  BY <1>1, <1>2
<1>4. CASE n >= Len(rows) - 1
  BY <1>3, <1>4 DEF Grown, more
<1>5. CASE ~(n >= Len(rows) - 1)
  BY <1>5 DEF Grown
<1> QED
  BY <1>4, <1>5

\* Lines before the last are points when all are.
LEMMA CleanBefore ==
  ASSUME NEW L, file \in Seq(L), NEW l, file' = Append(file, l), loader' = loader
  PROVE  Clean' => Clean /\ Stored(l)
<1>1. file \in Seq(L \cup {l})
  OBVIOUS
<1>2. /\ DOMAIN file = 1 .. Len(file) /\ DOMAIN file' = 1 .. Len(file) + 1 /\ Len(file) \in Nat
      /\ \A i \in 1 .. Len(file) : file'[i] = file[i]
      /\ file'[Len(file) + 1] = l
  BY <1>1
<1>3. \A x : Stored(x)' <=> Stored(x)
  BY DEF Stored, Matched
<1> QED
  BY <1>2, <1>3 DEF Clean

\* Writing an element of a sequence keeps its length.
LEMMA WrittenHolds ==
  ASSUME NEW T, NEW s \in Seq(T), NEW n \in Nat, n < Len(s), NEW v \in T
  PROVE  [s EXCEPT ![n + 1] = v] \in Seq(T) /\ Len([s EXCEPT ![n + 1] = v]) = Len(s)
<1>1. n + 1 \in 1 .. Len(s)
  OBVIOUS
<1> QED
  BY <1>1, ExceptSeq

LEMMA ReadInv ==
  ASSUME RoomInv, NEW l, ReadLine(l)
  PROVE  RoomInv'
<1> DEFINE n == LineNumber(l)
<1>1. PICK R : rows \in Seq(R)
  BY DEF RoomInv
<1>2. PICK L : file \in Seq(L)
  BY DEF RoomInv
<1>3. /\ count \in Nat /\ loader \in Loaders /\ loader' = loader /\ header' = header
      /\ pc = "read" /\ file' = Append(file, l)
  BY DEF RoomInv, ReadLine
<1>4. file' \in Seq(L \cup {l})
  BY <1>2, <1>3
<1>5. n = (IF Format[loader].before THEN count + 1 ELSE count)
  BY DEF LineNumber
<1>6. n \in Nat
  BY <1>3, <1>5
<1>7. Clean' => Clean /\ Stored(l)
  BY <1>2, <1>3, CleanBefore
<1>8. CASE Stored(l)
  <2> DEFINE room == Grown(n)
  <2>1. PICK S : room \in Seq(S)
    BY <1>1, <1>6, GrownHolds
  <2>2. Len(rows) # 0 /\ n <= Len(rows) => n < Len(room)
    BY <1>1, <1>6, GrownHolds
  <2>3. Store(room, n, l) /\ count' = count + 1
    BY <1>8 DEF ReadLine, Counted
  <2> HIDE DEF room, n
  <2>4. CASE n < Len(room)
    <3>1. rows' = [room EXCEPT ![n + 1] = RowOf(l)] /\ pc' = "read"
      BY <2>3, <2>4, <1>3 DEF Store
    <3>2. room \in Seq(S \cup {RowOf(l)})
      BY <2>1
    <3>3. rows' \in Seq(S \cup {RowOf(l)}) /\ Len(rows') = Len(room)
      BY <3>1, <3>2, <2>4, <1>6, WrittenHolds DEF n
    <3>4. Len(room) \in Nat
      BY <2>1
    <3> QED
      BY <1>3, <1>4, <1>5, <1>6, <1>7, <2>3, <2>4, <3>1, <3>3, <3>4 DEF RoomInv
  <2>5. CASE ~(n < Len(room))
    <3>1. rows' = room
      BY <2>3, <2>5 DEF Store
    <3>2. ~(header # 0 /\ (Format[loader].before => Clean'))
      BY <1>5, <1>6, <1>7, <2>2, <2>5 DEF RoomInv
    <3> QED
      BY <1>3, <1>4, <2>1, <2>3, <3>1, <3>2 DEF RoomInv
  <2> QED
    BY <2>4, <2>5
<1>9. CASE ~Stored(l)
  <2>1. /\ count' = (IF Format[loader].before THEN count + 1 ELSE count)
        /\ rows' = rows /\ pc' = pc
    BY <1>9 DEF ReadLine
  <2> QED
    BY <1>1, <1>3, <1>4, <1>7, <1>9, <2>1 DEF RoomInv
<1> QED
  BY <1>8, <1>9

LEMMA RoomStep == RoomInv /\ [Next]_vars => RoomInv'
<1> SUFFICES ASSUME RoomInv, [Next]_vars
             PROVE  RoomInv'
  OBVIOUS
<1>1. ASSUME NEW l \in Lines, ReadLine(l)
      PROVE  RoomInv'
  BY <1>1, ReadInv
<1>2. ASSUME /\ UNCHANGED <<loader, header, file, rows, count>>
             /\ pc' # "overrun" \/ pc' = pc
      PROVE  RoomInv'
  BY <1>2 DEF RoomInv, Clean, Stored, Matched
<1>3. CASE EndOfFile
  BY <1>2, <1>3 DEF EndOfFile
<1>4. ASSUME NEW place \in Places, NEW rw \in {"read", "write"}, Ask(place, rw)
      PROVE  RoomInv'
  BY <1>2, <1>4 DEF Ask
<1>5. CASE UNCHANGED vars
  BY <1>2, <1>5 DEF vars
<1> QED
  BY <1>1, <1>3, <1>4, <1>5 DEF Next

LEMMA RoomInit == Init => RoomInv
<1> SUFFICES ASSUME Init
             PROVE  RoomInv
  OBVIOUS
<1> DEFINE room == IF header = NoHeader THEN BufLen ELSE header
<1>1. room \in Nat /\ (header # 0 => room # 0)
  BY TablesAssumption DEF Init
<1> HIDE DEF room
<1>2. rows = [i \in 1 .. room |-> Zeros] /\ file = <<>> /\ pc = "read" /\ loader \in Loaders
  BY DEF Init, room
<1>3. rows \in Seq({Zeros}) /\ Len(rows) = room
  BY <1>1, <1>2
<1>4. file \in Seq({})
  BY <1>2
<1>5. count \in Nat /\ (Format[loader].before => count = 0) /\ count <= room
  BY <1>1, TablesAssumption
     DEF Init, room, SeekLoaders, Format, dm_mech_g1_read_write_extracted_seek_curve,
         dm_mech_g1_read_extracted_seek_curve, NoHeader
<1>6. (\E R : rows \in Seq(R)) /\ (\E L : file \in Seq(L))
  BY <1>3, <1>4
<1>7. ASSUME header # 0
      PROVE  /\ pc # "overrun" /\ Len(rows) \in Nat \ {0}
             /\ IF Format[loader].before THEN count < Len(rows) ELSE count <= Len(rows)
  BY <1>1, <1>2, <1>3, <1>5, <1>7
<1> QED
  BY <1>2, <1>5, <1>6, <1>7 DEF RoomInv

\* No reader of a table writes past the end of its arrays, whatever the number of
\* lines and the room it starts with, unless a header says 0 or lines that are no
\* points are counted (mech_g1_load.c:143-319, mech_power_load.c:62-427).
THEOREM WritesStayInside == Spec => []StoresInside
<1>1. RoomInv => StoresInside
  BY DEF RoomInv, StoresInside
<1> QED
  BY <1>1, RoomInit, RoomStep, PTL DEF Spec

-----------------------------------------------------------------------------
(* Counting lines *)

RowType == [ok : BOOLEAN, d : Nat, r : Nat, w : Nat]

\* The lines among the first n of a file that are points.
PointsOf(lines, n) == { i \in 1 .. n : Stored(lines[i]) }

LEMMA PointsFinite ==
  ASSUME NEW lines, NEW n \in Nat
  PROVE  IsFiniteSet(PointsOf(lines, n)) /\ Cardinality(PointsOf(lines, n)) \in Nat
<1>1. IsFiniteSet(1 .. n)
  BY FS_Interval
<1>2. PointsOf(lines, n) \in SUBSET (1 .. n)
  BY DEF PointsOf
<1> HIDE DEF PointsOf
<1> QED
  BY <1>1, <1>2, FS_Subset, FS_CardinalityType

\* One more line is one more point or none.
LEMMA PointsStep ==
  ASSUME NEW lines, NEW n \in Nat
  PROVE  Cardinality(PointsOf(lines, n + 1))
           = Cardinality(PointsOf(lines, n)) + (IF Stored(lines[n + 1]) THEN 1 ELSE 0)
<1> DEFINE P == PointsOf(lines, n)
           Q == PointsOf(lines, n + 1)
<1>1. IsFiniteSet(P) /\ Cardinality(P) \in Nat
  BY PointsFinite
<1>2. n + 1 \notin P
  BY DEF PointsOf
<1>3. 1 .. n + 1 = (1 .. n) \cup {n + 1}
  OBVIOUS
<1>4. CASE Stored(lines[n + 1])
  <2>1. Q = P \cup {n + 1}
    BY <1>3, <1>4 DEF PointsOf
  <2> HIDE DEF P, Q
  <2>2. Cardinality(Q) = Cardinality(P) + 1
    BY <1>1, <1>2, <2>1, FS_AddElement
  <2> QED
    BY <1>4, <2>2 DEF P, Q
<1>5. CASE ~Stored(lines[n + 1])
  <2>1. Q = P
    BY <1>3, <1>5 DEF PointsOf
  <2> QED
    BY <1>1, <1>5, <2>1
<1> QED
  BY <1>4, <1>5

\* And fewer lines are no more points.
LEMMA PointsGrow ==
  ASSUME NEW lines, NEW k \in Nat, NEW n \in Nat, k <= n
  PROVE  Cardinality(PointsOf(lines, k)) <= Cardinality(PointsOf(lines, n))
<1>1. PointsOf(lines, k) \in SUBSET PointsOf(lines, n)
  BY DEF PointsOf
<1> HIDE DEF PointsOf
<1> QED
  BY <1>1, PointsFinite, FS_Subset

\* The points of a file do not change when a line is appended.
LEMMA PointsKept ==
  ASSUME NEW L, NEW lines \in Seq(L), NEW l, NEW n \in 0 .. Len(lines)
  PROVE  /\ PointsOf(Append(lines, l), n) = PointsOf(lines, n)
         /\ Len(lines) \in Nat /\ Len(Append(lines, l)) = Len(lines) + 1
         /\ Append(lines, l)[Len(lines) + 1] = l
         /\ \A i \in 1 .. Len(lines) : Append(lines, l)[i] = lines[i]
<1>1. lines \in Seq(L \cup {l})
  OBVIOUS
<1>2. /\ Len(lines) \in Nat /\ Len(Append(lines, l)) = Len(lines) + 1
      /\ Append(lines, l)[Len(lines) + 1] = l
      /\ \A i \in 1 .. Len(lines) : Append(lines, l)[i] = lines[i]
  BY <1>1
<1>3. \A i \in 1 .. n : Append(lines, l)[i] = lines[i]
  BY <1>2
<1>4. PointsOf(Append(lines, l), n) = PointsOf(lines, n)
  BY <1>3 DEF PointsOf
<1> QED
  BY <1>2, <1>4

\* Where the rows go: behind the lead, as far as the file has been read.
LEMMA SlotIs ==
  ASSUME loader \in Loaders, header \in Counts \cup {NoHeader}, NEW i \in Nat
  PROVE  /\ Points(i) = PointsOf(file, i)
         /\ Cardinality(Points(i)) \in Nat /\ Lead \in Nat /\ Slot(i) \in Nat
         /\ Slot(i) = Lead + (IF CountsFirst THEN i ELSE Cardinality(Points(i)))
<1>1. Points(i) = PointsOf(file, i)
  BY DEF Points, PointsOf
<1>2. Cardinality(Points(i)) \in Nat
  BY <1>1, PointsFinite
<1>3. Lead \in Nat
  BY TablesAssumption DEF Lead, NoHeader
<1> QED
  BY <1>1, <1>2, <1>3 DEF Slot

-----------------------------------------------------------------------------
(* Loading *)

TableInv ==
  /\ RoomInv
  /\ header \in Counts \cup {NoHeader}
  /\ rows \in Seq(RowType) /\ file \in Seq(Lines)
  /\ total \in Nat /\ dual \in BOOLEAN /\ answer.ok \in BOOLEAN
  /\ pc \in {"read", "loaded", "answered", "overrun"}
  /\ loader \in {"spindle", "bias"} => ~dual
  /\ Len(rows) # 0 => Lead <= Len(rows)
  /\ pc # "overrun" =>
       /\ total <= Len(rows)
       /\ count = (IF CountsFirst THEN Len(file) ELSE Slot(Len(file)))
  /\ PointsInOrder /\ CountedToTheLast

\* What a line makes is a row.
LEMMA RowOfLine ==
  ASSUME NEW l \in Lines
  PROVE  RowOf(l) \in RowType
<1>1. l.fields \in 0 .. 4 /\ l.d \in Nat /\ l.r \in Nat /\ l.w \in Nat
  BY TablesAssumption
<1>2. \A d, r, w \in Nat : Row(d, r, w) \in RowType
  BY DEF Row, RowType
<1>3. Junk \in RowType
  BY DEF Junk, RowType
<1> QED
  BY <1>1, <1>2, <1>3 DEF RowOf

\* Growing keeps the rows.
LEMMA GrownKeeps ==
  ASSUME rows \in Seq(RowType), NEW n \in Nat
  PROVE  /\ Grown(n) \in Seq(RowType) /\ Len(Grown(n)) \in Nat /\ Len(rows) <= Len(Grown(n))
         /\ Len(rows) = 0 => Len(Grown(n)) = 0
         /\ \A k \in 1 .. Len(rows) : Grown(n)[k] = rows[k]
<1> DEFINE more == [i \in 1 .. Len(rows) |-> Junk]
<1>1. Junk \in RowType
  BY DEF Junk, RowType
<1>2. more \in Seq(RowType) /\ Len(more) = Len(rows) /\ Len(rows) \in Nat
  BY <1>1
<1> HIDE DEF more
<1>3. /\ rows \o more \in Seq(RowType) /\ Len(rows \o more) = Len(rows) + Len(rows)
      /\ \A k \in 1 .. Len(rows) : (rows \o more)[k] = rows[k]
  BY <1>2
<1>4. CASE n >= Len(rows) - 1
  BY <1>2, <1>3, <1>4 DEF Grown, more
<1>5. CASE ~(n >= Len(rows) - 1)
  BY <1>2, <1>5 DEF Grown
<1> QED
  BY <1>4, <1>5

\* The slot of the next line is behind all that are filled, and is the one that is
\* written.
LEMMA NextSlot ==
  ASSUME TableInv, NEW l \in Lines, ReadLine(l), NEW n0 \in Nat, n0 = Len(file)
  PROVE  /\ Len(file') = n0 + 1 /\ n0 + 1 \in Nat
         /\ file' \in Seq(Lines) /\ file'[n0 + 1] = l
         /\ \A i \in 1 .. n0 : file'[i] = file[i]
         /\ UNCHANGED <<loader, header>>
         /\ \A x : Stored(x)' <=> Stored(x)
         /\ Lead' = Lead /\ (CountsFirst' <=> CountsFirst) /\ Lead \in Nat
         /\ \A i \in 0 .. n0 : Points(i)' = Points(i) /\ Slot(i)' = Slot(i) /\ Slot(i) \in Nat
         /\ Points(n0 + 1)' = Points(n0) \cup (IF Stored(l) THEN {n0 + 1} ELSE {})
         /\ Slot(n0 + 1)' = Slot(n0) + (IF CountsFirst \/ Stored(l) THEN 1 ELSE 0)
         /\ \A i \in Points(n0) : i \in 1 .. n0 /\ Slot(i) <= Slot(n0) /\ Slot(i) \in Nat
<1>1. file \in Seq(Lines) /\ file' = Append(file, l) /\ loader' = loader /\ header' = header
      /\ loader \in Loaders /\ header \in Counts \cup {NoHeader}
  BY DEF TableInv, RoomInv, ReadLine
<1>2. /\ n0 \in Nat /\ Len(file') = n0 + 1 /\ n0 + 1 \in Nat /\ file'[n0 + 1] = l
      /\ file' \in Seq(Lines)
      /\ \A i \in 1 .. n0 : file'[i] = file[i]
  BY <1>1, PointsKept
<1>3. \A x : Stored(x)' <=> Stored(x)
  BY <1>1 DEF Stored, Matched
<1>4. \A i \in Nat : Points(i)' = PointsOf(file', i)
  BY <1>3 DEF Points, PointsOf
<1>5. Lead' = Lead /\ (CountsFirst' <=> CountsFirst)
  BY <1>1 DEF Lead, CountsFirst
<1>6. Lead \in Nat
  BY <1>1, SlotIs
<1>7. ASSUME NEW i \in 0 .. n0
      PROVE  Points(i)' = Points(i) /\ Slot(i)' = Slot(i) /\ Slot(i) \in Nat
  <2>1. i \in Nat
    OBVIOUS
  <2>2. PointsOf(file', i) = PointsOf(file, i)
    BY <1>1, PointsKept
  <2>3. Points(i)' = Points(i)
    BY <1>1, <1>4, <2>1, <2>2, SlotIs
  <2> QED
    BY <1>1, <1>5, <2>1, <2>3, SlotIs DEF Slot
<1>8. Points(n0 + 1)' = Points(n0) \cup (IF Stored(l) THEN {n0 + 1} ELSE {})
  <2>1. Points(n0 + 1)' = PointsOf(file', n0 + 1) /\ Points(n0) = PointsOf(file', n0)
    <3>1. n0 \in 0 .. n0
      BY <1>2
    <3> QED
      BY <1>2, <1>4, <1>7, <3>1
  <2>2. 1 .. n0 + 1 = (1 .. n0) \cup {n0 + 1}
    BY <1>2
  <2> QED
    BY <1>2, <2>1, <2>2 DEF PointsOf
<1>9. Slot(n0 + 1)' = Slot(n0) + (IF CountsFirst \/ Stored(l) THEN 1 ELSE 0)
  <2>1. n0 \in 0 .. n0 /\ n0 \in Nat
    BY <1>2
  <2>2. Cardinality(Points(n0 + 1)') = Cardinality(Points(n0)) + (IF Stored(l) THEN 1 ELSE 0)
    <3>1. Cardinality(PointsOf(file', n0 + 1))
            = Cardinality(PointsOf(file', n0)) + (IF Stored(file'[n0 + 1]) THEN 1 ELSE 0)
      BY <1>2, PointsStep
    <3>2. PointsOf(file', n0) = Points(n0) /\ PointsOf(file', n0 + 1) = Points(n0 + 1)'
      BY <1>2, <1>4, <1>7, <2>1
    <3> QED
      BY <1>2, <3>1, <3>2
  <2>3. Slot(n0 + 1)' = Lead + (IF CountsFirst THEN n0 + 1 ELSE Cardinality(Points(n0 + 1)'))
    BY <1>5 DEF Slot
  <2>4. Slot(n0) = Lead + (IF CountsFirst THEN n0 ELSE Cardinality(Points(n0)))
        /\ Cardinality(Points(n0)) \in Nat /\ Lead \in Nat
    BY <1>1, <2>1, SlotIs
  <2> QED
    BY <1>2, <1>6, <2>2, <2>3, <2>4
<1>10. ASSUME NEW i \in Points(n0)
       PROVE  i \in 1 .. n0 /\ Slot(i) <= Slot(n0) /\ Slot(i) \in Nat
  <2>1. i \in 1 .. n0 /\ i \in Nat /\ i <= n0
    BY <1>2 DEF Points
  <2>2. Cardinality(Points(i)) <= Cardinality(Points(n0))
    BY <1>1, <1>2, <2>1, PointsGrow, SlotIs
  <2>3. Slot(i) = Lead + (IF CountsFirst THEN i ELSE Cardinality(Points(i)))
        /\ Slot(n0) = Lead + (IF CountsFirst THEN n0 ELSE Cardinality(Points(n0)))
        /\ Cardinality(Points(i)) \in Nat /\ Cardinality(Points(n0)) \in Nat /\ Slot(i) \in Nat
    BY <1>1, <1>2, <2>1, SlotIs
  <2> QED
    BY <1>2, <1>6, <2>1, <2>2, <2>3
<1> QED
  BY <1>1, <1>2, <1>3, <1>5, <1>6, <1>7, <1>8, <1>9, <1>10

\* Where a row is written: behind the rows of the points before it.
LEMMA NextRow ==
  ASSUME TableInv, NEW l \in Lines, ReadLine(l), Stored(l), NEW n0 \in Nat, n0 = Len(file),
         NEW n, n = LineNumber(l)
  PROVE  /\ n \in Nat /\ n + 1 = Slot(n0 + 1)' /\ Slot(n0) < n + 1 /\ Lead < n + 1
         /\ count + 1 = (IF CountsFirst THEN n ELSE n + 1)
<1>1. /\ pc = "read" /\ count \in Nat /\ loader \in Loaders /\ header \in Counts \cup {NoHeader}
  BY DEF TableInv, RoomInv, ReadLine
<1>2. count = (IF CountsFirst THEN n0 ELSE Slot(n0))
  BY <1>1 DEF TableInv
<1>3. n = (IF CountsFirst THEN count + 1 ELSE count)
  BY DEF LineNumber, CountsFirst
<1>4. Slot(n0 + 1)' = Slot(n0) + 1
  BY NextSlot
<1>5. /\ Slot(n0) = Lead + (IF CountsFirst THEN n0 ELSE Cardinality(Points(n0)))
      /\ Cardinality(Points(n0)) \in Nat /\ Lead \in Nat
  BY <1>1, SlotIs
<1>6. CountsFirst => Lead = 1
  BY DEF Lead
<1> HIDE DEF Lead
<1> QED
  BY <1>1, <1>2, <1>3, <1>4, <1>5, <1>6

\* A stored line is the last point, and its row is behind the others.
LEMMA StoredLine ==
  ASSUME TableInv, NEW l \in Lines, ReadLine(l), Stored(l), NEW n0 \in Nat, n0 = Len(file),
         pc' # "overrun"
  PROVE  /\ rows' \in Seq(RowType) /\ (Len(rows') # 0 => Lead' <= Len(rows'))
         /\ total' \in Nat /\ total' <= Len(rows') /\ total' = count'
         /\ count' = (IF CountsFirst' THEN Len(file') ELSE Slot(Len(file))')
         /\ PointsInOrder' /\ CountedToTheLast'
<1> DEFINE n == LineNumber(l)
           room == Grown(n)
<1>1. /\ pc = "read" /\ count \in Nat /\ rows \in Seq(RowType)
      /\ PointsInOrder /\ (Len(rows) # 0 => Lead <= Len(rows)) /\ Len(rows) \in Nat
  BY DEF TableInv, RoomInv, ReadLine
<1>2. /\ n \in Nat /\ n + 1 = Slot(n0 + 1)' /\ Slot(n0) < n + 1 /\ Lead < n + 1
      /\ count + 1 = (IF CountsFirst THEN n ELSE n + 1)
  BY NextRow
<1>3. Store(room, n, l) /\ count' = count + 1 /\ total' = count + 1
  BY DEF ReadLine, Counted
<1>4. /\ room \in Seq(RowType) /\ Len(room) \in Nat /\ Len(rows) <= Len(room)
      /\ Len(rows) = 0 => Len(room) = 0
      /\ \A k \in 1 .. Len(rows) : room[k] = rows[k]
  BY <1>1, <1>2, GrownKeeps
<1> HIDE DEF room, n
<1>5. n < Len(room) /\ rows' = [room EXCEPT ![n + 1] = RowOf(l)]
  BY <1>3 DEF Store
<1>6. rows' \in Seq(RowType) /\ Len(rows') = Len(room)
  BY <1>2, <1>4, <1>5, RowOfLine, WrittenHolds
<1>7. /\ DOMAIN rows' = 1 .. Len(room) /\ DOMAIN rows = 1 .. Len(rows)
      /\ DOMAIN room = 1 .. Len(room)
  BY <1>1, <1>4, <1>6
<1>8. n + 1 \in 1 .. Len(room) /\ rows'[n + 1] = RowOf(l)
  BY <1>2, <1>4, <1>5, <1>7
<1>9. \A k \in 1 .. Len(rows) : k # n + 1 => rows'[k] = rows[k]
  BY <1>4, <1>5, <1>7
<1>10. /\ Len(file') = n0 + 1 /\ file'[n0 + 1] = l
       /\ \A i \in 1 .. n0 : file'[i] = file[i]
       /\ Lead' = Lead /\ (CountsFirst' <=> CountsFirst) /\ Lead \in Nat
       /\ \A i \in 0 .. n0 : Points(i)' = Points(i) /\ Slot(i)' = Slot(i) /\ Slot(i) \in Nat
       /\ Points(n0 + 1)' = Points(n0) \cup {n0 + 1}
       /\ \A i \in Points(n0) : i \in 1 .. n0 /\ Slot(i) <= Slot(n0) /\ Slot(i) \in Nat
  BY NextSlot
<1>11. Slot(n0) \in Nat
  <2>1. n0 \in 0 .. n0
    OBVIOUS
  <2> QED
    BY <1>10, <2>1
<1>12. \A x : RowOf(x)' = RowOf(x)
  BY DEF RowOf, Matched, ReadLine
<1>13. Lead' <= Len(rows')
  BY <1>2, <1>4, <1>5, <1>6, <1>10
<1>14. total' \in Nat /\ total' <= Len(rows')
  BY <1>1, <1>2, <1>3, <1>4, <1>5, <1>6
<1>15. count' = (IF CountsFirst' THEN Len(file') ELSE Slot(Len(file))')
  <2>1. CountsFirst => count = n0
    BY <1>1 DEF TableInv
  <2>2. Slot(Len(file))' = Slot(n0 + 1)'
    BY <1>10 DEF Slot, Points
  <2> QED
    BY <1>2, <1>3, <1>10, <2>1, <2>2
<1>16. Points(Len(file))' = Points(n0) \cup {n0 + 1}
  BY <1>10 DEF Points
<1>17. ASSUME NEW i \in Points(n0) \cup {n0 + 1}
       PROVE  Slot(i)' \in DOMAIN rows' /\ rows'[Slot(i)'] = RowOf(file[i])'
  <2>1. CASE i = n0 + 1
    BY <2>1, <1>2, <1>7, <1>8, <1>10, <1>12
  <2>2. CASE i \in Points(n0)
    <3>1. i \in 1 .. n0 /\ Slot(i) <= Slot(n0) /\ Slot(i) \in Nat /\ Slot(i)' = Slot(i)
      BY <2>2, <1>10
    <3>2. Slot(i) \in DOMAIN rows /\ rows[Slot(i)] = RowOf(file[i])
      BY <1>1, <2>2 DEF PointsInOrder
    <3>3. Slot(i) # n + 1
      BY <1>2, <1>11, <3>1
    <3> QED
      BY <1>4, <1>7, <1>9, <1>10, <1>12, <3>1, <3>2, <3>3
  <2> QED
    BY <2>1, <2>2
<1>18. ASSUME NEW k \in DOMAIN rows', k <= Lead'
       PROVE  rows'[k] = Zeros
  <2>1. k \in 1 .. Len(rows) /\ k # n + 1 /\ k <= Lead
    BY <1>1, <1>2, <1>4, <1>5, <1>7, <1>10, <1>18
  <2>2. rows[k] = Zeros
    BY <1>1, <1>7, <2>1 DEF PointsInOrder
  <2> QED
    BY <1>9, <2>1, <2>2
<1>19. PointsInOrder'
  BY <1>16, <1>17, <1>18 DEF PointsInOrder
<1>20. ASSUME NEW last \in Points(n0) \cup {n0 + 1},
              \A i \in Points(n0) \cup {n0 + 1} : i <= last
       PROVE  total' = (IF CountsFirst' THEN Slot(last)' - 1 ELSE Slot(last)')
  <2>1. last = n0 + 1
    <3>1. \A i \in Points(n0) : i \in 1 .. n0
      BY <1>10
    <3> QED
      BY <1>20, <3>1
  <2> QED
    BY <2>1, <1>1, <1>2, <1>3, <1>10
<1>21. CountedToTheLast'
  BY <1>16, <1>20 DEF CountedToTheLast
<1> QED
  BY <1>3, <1>6, <1>13, <1>14, <1>15, <1>19, <1>21

\* A line that is no point leaves the rows alone.
LEMMA SkippedLine ==
  ASSUME TableInv, NEW l \in Lines, ReadLine(l), ~Stored(l), NEW n0 \in Nat, n0 = Len(file)
  PROVE  /\ rows' = rows /\ total' = total /\ Lead' = Lead /\ dual' = dual
         /\ count' = (IF CountsFirst' THEN Len(file') ELSE Slot(Len(file))')
         /\ PointsInOrder' /\ CountedToTheLast'
<1>1. /\ pc = "read" /\ rows' = rows /\ total' = total /\ pc' = pc /\ dual' = dual
      /\ count' = (IF CountsFirst THEN count + 1 ELSE count)
      /\ count = (IF CountsFirst THEN n0 ELSE Slot(n0))
      /\ PointsInOrder /\ CountedToTheLast
  BY DEF TableInv, ReadLine, CountsFirst
<1>2. /\ Len(file') = n0 + 1
      /\ \A i \in 1 .. n0 : file'[i] = file[i]
      /\ Lead' = Lead /\ (CountsFirst' <=> CountsFirst)
      /\ \A i \in 0 .. n0 : Points(i)' = Points(i) /\ Slot(i)' = Slot(i) /\ Slot(i) \in Nat
      /\ Points(n0 + 1)' = Points(n0) \cup (IF Stored(l) THEN {n0 + 1} ELSE {})
      /\ Slot(n0 + 1)' = Slot(n0) + (IF CountsFirst \/ Stored(l) THEN 1 ELSE 0)
      /\ \A i \in Points(n0) : i \in 1 .. n0
  BY NextSlot
<1>3. \A x : RowOf(x)' = RowOf(x)
  BY DEF RowOf, Matched, ReadLine
<1>4. Slot(Len(file))' = Slot(n0 + 1)' /\ Points(Len(file))' = Points(n0)
  <2>1. Points(n0 + 1)' = Points(n0)
    BY <1>2
  <2> QED
    BY <1>2, <2>1 DEF Slot, Points
<1>5. Slot(n0) \in Nat
  <2>1. n0 \in 0 .. n0
    OBVIOUS
  <2> QED
    BY <1>2, <2>1
<1>6. count' = (IF CountsFirst' THEN Len(file') ELSE Slot(Len(file))')
  BY <1>1, <1>2, <1>4, <1>5
<1>7. \A i \in Points(n0) : Slot(i)' = Slot(i) /\ file'[i] = file[i]
  BY <1>2
<1>8. PointsInOrder'
  BY <1>1, <1>2, <1>3, <1>4, <1>7 DEF PointsInOrder
<1>9. CountedToTheLast'
  BY <1>1, <1>2, <1>4, <1>7 DEF CountedToTheLast
<1> QED
  BY <1>1, <1>2, <1>6, <1>8, <1>9

\* What a look-up returns has a flag.
LEMMA AnswerFlag ==
  ASSUME NEW place, NEW rw, NEW n \in Nat, NEW s \in Seq(RowType), NEW col
  PROVE  Searched(s, n, place, col).ok \in BOOLEAN
<1>1. Junk.ok \in BOOLEAN /\ \A d, r, w : Row(d, r, w).ok \in BOOLEAN
  BY DEF Junk, Row
<1>2. \A i : Found(s, i, place, col).ok \in BOOLEAN
  BY <1>1 DEF Found, Interpolated
<1> QED
  BY <1>1, <1>2 DEF Searched

LEMMA TableStep == TableInv /\ [Next]_vars => TableInv'
<1> SUFFICES ASSUME TableInv, [Next]_vars
             PROVE  TableInv'
  OBVIOUS
<1>1. RoomInv'
  BY RoomStep DEF TableInv
<1>2. ASSUME NEW l \in Lines, ReadLine(l)
      PROVE  TableInv'
  <2> DEFINE n0 == Len(file)
  <2>1. n0 \in Nat /\ pc = "read" /\ UNCHANGED <<loader, header, asked, answer>>
        /\ rows \in Seq(RowType) /\ file \in Seq(Lines) /\ total \in Nat /\ dual \in BOOLEAN
        /\ answer.ok \in BOOLEAN /\ header \in Counts \cup {NoHeader}
        /\ (loader \in {"spindle", "bias"} => ~dual)
        /\ (Len(rows) # 0 => Lead <= Len(rows)) /\ total <= Len(rows)
    BY <1>2 DEF TableInv, ReadLine
  <2>2. file' \in Seq(Lines) /\ Lead' = Lead
    BY <1>2, <2>1, NextSlot
  <2>3. CASE Stored(l) /\ pc' # "overrun"
    <3>1. /\ rows' \in Seq(RowType) /\ (Len(rows') # 0 => Lead' <= Len(rows'))
          /\ total' \in Nat /\ total' <= Len(rows')
          /\ count' = (IF CountsFirst' THEN Len(file') ELSE Slot(Len(file))')
          /\ PointsInOrder' /\ CountedToTheLast'
      BY <1>2, <2>1, <2>3, StoredLine
    <3>2. dual' \in BOOLEAN /\ (loader \in {"spindle", "bias"} => ~dual') /\ pc' = "read"
      BY <1>2, <2>1, <2>3 DEF ReadLine, Store
    <3> QED
      BY <1>1, <2>1, <2>2, <3>1, <3>2 DEF TableInv
  <2>4. CASE Stored(l) /\ pc' = "overrun"
    <3>1. LineNumber(l) \in Nat
      BY <1>2, <2>1, <2>4, NextRow
    <3>2. Grown(LineNumber(l)) \in Seq(RowType) /\ Len(Grown(LineNumber(l))) \in Nat
          /\ Len(rows) <= Len(Grown(LineNumber(l)))
          /\ (Len(rows) = 0 => Len(Grown(LineNumber(l))) = 0)
      BY <2>1, <3>1, GrownKeeps
    <3>3. rows' = Grown(LineNumber(l))
      BY <1>2, <2>1, <2>4 DEF ReadLine, Store
    <3>4. total' \in Nat /\ dual' \in BOOLEAN /\ (loader \in {"spindle", "bias"} => ~dual')
      <4>1. count \in Nat
        BY DEF TableInv, RoomInv
      <4>2. total' = count + 1 /\ dual' = (IF loader = "dual" THEN Matched(l) = 3 ELSE dual)
        BY <1>2, <2>4 DEF ReadLine, Counted
      <4>3. CASE loader = "dual"
        <5>1. dual' = (Matched(l) = 3)
          BY <4>2, <4>3
        <5>2. dual' \in BOOLEAN
          BY ONLY <5>1
        <5> QED
          BY <2>1, <4>1, <4>2, <4>3, <5>2
      <4>4. CASE loader # "dual"
        BY <2>1, <4>1, <4>2, <4>4
      <4> QED
        BY <4>3, <4>4
    <3>5. PointsInOrder' /\ CountedToTheLast'
      BY <2>4 DEF PointsInOrder, CountedToTheLast
    <3>6. Lead \in Nat
      BY <1>2, <2>1, NextSlot
    <3>7. Len(rows') # 0 => Lead' <= Len(rows')
      <4>1. Len(rows) \in Nat
        BY <2>1
      <4> QED
        BY <2>1, <2>2, <3>2, <3>3, <3>6, <4>1
    <3> QED
      BY <1>1, <2>1, <2>2, <2>4, <3>2, <3>3, <3>4, <3>5, <3>7 DEF TableInv
  <2>5. CASE ~Stored(l)
    <3>1. /\ rows' = rows /\ total' = total /\ Lead' = Lead /\ dual' = dual
          /\ count' = (IF CountsFirst' THEN Len(file') ELSE Slot(Len(file))')
          /\ PointsInOrder' /\ CountedToTheLast'
      BY <1>2, <2>1, <2>5, SkippedLine
    <3>2. pc' = pc
      BY <1>2, <2>5 DEF ReadLine
    <3> QED
      BY <1>1, <2>1, <2>2, <3>1, <3>2 DEF TableInv
  <2> QED
    BY <2>3, <2>4, <2>5
<1>3. ASSUME UNCHANGED <<loader, header, file, rows, count, total>>
      PROVE  /\ Lead' = Lead /\ (CountsFirst' <=> CountsFirst)
             /\ \A i : Slot(i)' = Slot(i) /\ Points(i)' = Points(i)
             /\ \A x : RowOf(x)' = RowOf(x)
             /\ Slot(Len(file))' = Slot(Len(file)) /\ Points(Len(file))' = Points(Len(file))
  <2>1. \A x : RowOf(x)' = RowOf(x) /\ Matched(x)' = Matched(x) /\ (Stored(x)' <=> Stored(x))
    BY <1>3 DEF RowOf, Matched, Stored
  <2>2. \A i : Points(i)' = Points(i)
    BY <1>3, <2>1 DEF Points
  <2>3. Lead' = Lead /\ (CountsFirst' <=> CountsFirst)
    BY <1>3 DEF Lead, CountsFirst
  <2>4. \A i : Slot(i)' = Slot(i)
    BY <2>2, <2>3 DEF Slot
  <2>5. Points(Len(file))' = Points(Len(file))
    BY <1>3, <2>1 DEF Points
  <2>6. Slot(Len(file))' = Slot(Len(file))
    BY <1>3, <2>3, <2>5 DEF Slot
  <2> QED
    BY <2>1, <2>2, <2>3, <2>4, <2>5, <2>6
<1>4. ASSUME UNCHANGED <<loader, header, file, rows, count, total>>, pc' # "overrun" => pc # "overrun",
             pc' \in {"read", "loaded", "answered", "overrun"}, dual' \in BOOLEAN,
             loader \in {"spindle", "bias"} => ~dual', answer'.ok \in BOOLEAN
      PROVE  TableInv'
  <2>1. /\ Lead' = Lead /\ (CountsFirst' <=> CountsFirst)
        /\ \A i : Slot(i)' = Slot(i) /\ Points(i)' = Points(i)
        /\ \A x : RowOf(x)' = RowOf(x)
        /\ Slot(Len(file))' = Slot(Len(file)) /\ Points(Len(file))' = Points(Len(file))
    BY <1>3, <1>4
  <2>2. PointsInOrder'
    BY <1>4, <2>1 DEF PointsInOrder, TableInv
  <2>3. CountedToTheLast'
    BY <1>4, <2>1 DEF CountedToTheLast, TableInv
  <2> QED
    BY <1>1, <1>4, <2>1, <2>2, <2>3 DEF TableInv
<1>5. CASE EndOfFile
  <2>1. LastDual \in BOOLEAN
    BY DEF LastDual
  <2>2. dual' \in BOOLEAN /\ (loader \in {"spindle", "bias"} => ~dual')
    BY <1>5, <2>1 DEF EndOfFile, TableInv
  <2> QED
    BY <1>4, <1>5, <2>2 DEF EndOfFile, TableInv
<1>6. ASSUME NEW place \in Places, NEW rw \in {"read", "write"}, Ask(place, rw)
      PROVE  TableInv'
  <2>1. rows \in Seq(RowType) /\ total \in Nat
    BY DEF TableInv
  <2>2. \A col : Searched(rows, total, place, col).ok \in BOOLEAN
    BY <2>1, AnswerFlag
  <2>3. Row(place, 0, 0).ok \in BOOLEAN /\ Zeros.ok \in BOOLEAN
    BY DEF Row, Zeros
  <2>4. Lookup(place, rw).ok \in BOOLEAN
    BY <2>2, <2>3 DEF Lookup, dm_spindle_power_g4, dm_vcm_bias_power, dm_mech_g1_seek_extracted,
                      dm_vcm_seek_energy_g4
  <2> QED
    BY <1>4, <1>6, <2>4 DEF Ask, TableInv
<1>7. CASE UNCHANGED vars
  BY <1>4, <1>7 DEF vars, TableInv
<1> QED
  BY <1>2, <1>5, <1>6, <1>7 DEF Next

LEMMA TableInit == Init => TableInv
<1> SUFFICES ASSUME Init
             PROVE  TableInv
  OBVIOUS
<1> DEFINE room == IF header = NoHeader THEN BufLen ELSE header
<1>1. /\ loader \in Loaders /\ header \in Counts \cup {NoHeader}
      /\ room \in Nat /\ rows = [i \in 1 .. room |-> Zeros]
      /\ file = <<>> /\ dual = FALSE /\ pc = "read" /\ answer = Zeros
      /\ total \in Nat /\ total <= room
  BY TablesAssumption DEF Init, NoHeader
<1>2. count = (IF header # NoHeader /\ loader \in SeekLoaders THEN header ELSE 0)
  BY DEF Init
<1> HIDE DEF room
<1>3. RoomInv
  BY RoomInit
<1>4. Zeros \in RowType /\ Zeros.ok \in BOOLEAN
  BY DEF Zeros, Row, RowType
<1>5. rows \in Seq(RowType) /\ Len(rows) = room /\ DOMAIN rows = 1 .. room
      /\ \A k \in 1 .. room : rows[k] = Zeros
  BY <1>1, <1>4
<1>6. Len(file) = 0 /\ file \in Seq(Lines)
  BY <1>1
<1>7. Points(Len(file)) = {}
  BY <1>6 DEF Points
<1>8. Slot(Len(file)) = Lead + 0 /\ Lead \in Nat
  <2>1. Cardinality({}) = 0
    BY FS_EmptySet
  <2> QED
    BY <1>1, <1>6, <1>7, <2>1, SlotIs DEF Slot
<1>9. CountsFirst => loader \notin SeekLoaders
  BY DEF CountsFirst, SeekLoaders, Format, dm_mech_g1_read_write_extracted_seek_curve,
         dm_mech_g1_read_extracted_seek_curve
<1>10. count = (IF CountsFirst THEN Len(file) ELSE Slot(Len(file)))
  <2>1. header # NoHeader => header \in Nat
    BY <1>1, TablesAssumption
  <2>2. header = NoHeader => ~(header > 0)
    BY DEF NoHeader
  <2> QED
    BY <1>2, <1>6, <1>8, <1>9, <2>1, <2>2 DEF Lead
<1>11. Len(rows) # 0 => Lead <= Len(rows)
  <2>1. Lead \in {0, 1, room}
    BY <1>1 DEF Lead, room, NoHeader
  <2> QED
    BY <1>1, <1>5, <2>1
<1>12. PointsInOrder /\ CountedToTheLast
  BY <1>5, <1>7 DEF PointsInOrder, CountedToTheLast
<1> QED
  BY <1>1, <1>3, <1>4, <1>5, <1>6, <1>10, <1>11, <1>12 DEF TableInv

\* What a reader leaves in its arrays is the points of the file, in their order,
\* inside the arrays, and it counts them to the last, or to the last but one if it
\* is one of the three that count first (mech_g1_load.c:143-319,
\* mech_power_load.c:62-427).
THEOREM TablesHoldThePoints == Spec => []StoresAsRead
<1>1. TableInv => TypeOK
  <2> SUFFICES ASSUME TableInv
               PROVE  TypeOK
    OBVIOUS
  <2>1. rows \in Seq(RowType) /\ loader \in Loaders /\ count \in Nat
    BY DEF TableInv, RoomInv
  <2>2. \A i \in DOMAIN rows : rows[i] \in RowType
    BY <2>1
  <2>3. \A i \in DOMAIN rows : rows[i].ok \in BOOLEAN /\ {rows[i].d, rows[i].r, rows[i].w} \subseteq Nat
    BY <2>2 DEF RowType
  <2> QED
    BY <2>1, <2>3 DEF TypeOK, TableInv
<1>2. TableInv => StoresAsRead
  <2>1. RoomInv => StoresInside
    BY DEF RoomInv, StoresInside
  <2> QED
    BY <1>1, <2>1 DEF TableInv, StoresAsRead
<1> QED
  BY <1>2, TableInit, TableStep, PTL DEF Spec

-----------------------------------------------------------------------------
(* Looking up *)

\* A search goes on to a place that is there.
LEMMA LeastOf ==
  ASSUME NEW T, T \subseteq Nat, T # {}
  PROVE  \E least \in T : \A k \in T : least <= k
<1> DEFINE R == OpToRel(<, Nat)
<1>1. IsWellFoundedOn(R, Nat)
  BY NatLessThanWellFounded, Zenon
<1>2. ASSUME NEW a \in Nat, NEW b \in Nat, a < b PROVE <<a, b>> \in R
  BY <1>2, Zenon DEF OpToRel
<1> HIDE DEF R
<1>3. PICK least \in T : \A k \in T : ~(<<k, least>> \in R)
  BY <1>1, WFMin, Zenon
<1>4. ASSUME NEW k \in T PROVE least <= k
  <2>1. least \in Nat /\ k \in Nat
    OBVIOUS
  <2>2. ~(k < least)
    BY <1>2, <1>3, <2>1
  <2> QED
    BY <2>1, <2>2
<1> QED
  BY <1>3, <1>4

\* The loop over the rows ends at the first that is not before the place, or the last.
LEMMA SearchStops ==
  ASSUME NEW s \in Seq(RowType), NEW n \in Nat \ {0}, n <= Len(s),
         \A i \in 1 .. n : s[i].ok, NEW place \in Nat, NEW col
  PROVE  \E i \in 1 .. n : /\ Searched(s, n, place, col) = Found(s, i, place, col)
                           /\ place <= s[i].d \/ i = n
                           /\ \A j \in 1 .. i - 1 : s[j].d < place
<1> DEFINE Stops(i) == StopsAt(s, i, n, place)
           T == { i \in 1 .. n : Stops(i) }
           First(i) == Stops(i) /\ \A j \in 1 .. i - 1 : ~Stops(j)
<1>1. ASSUME NEW i \in 1 .. n
      PROVE  (Stops(i) <=> place <= s[i].d \/ i = n) /\ s[i].d \in Nat
  <2>1. i \in 1 .. Len(s)
    OBVIOUS
  <2>2. s[i] \in RowType
    BY <2>1
  <2> QED
    BY <2>2 DEF StopsAt, RowType
<1> HIDE DEF Stops
<1>2. n \in T
  BY <1>1
<1>3. T \subseteq Nat /\ T # {}
  BY <1>2
<1>4. PICK least \in T : \A k \in T : least <= k
  BY <1>3, LeastOf, Zenon
<1>5. least \in 1 .. n /\ First(least)
  <2>1. least \in 1 .. n /\ Stops(least)
    OBVIOUS
  <2>2. ASSUME NEW j \in 1 .. least - 1, Stops(j)
        PROVE  FALSE
    <3>1. j \in T /\ j < least
      BY <2>1, <2>2
    <3> QED
      BY <1>4, <2>1, <3>1
  <2> QED
    BY <2>1, <2>2
<1> DEFINE c == CHOOSE i \in 1 .. n : First(i)
<1>6. c \in 1 .. n /\ First(c)
  BY <1>5
<1>7. Searched(s, n, place, col) = Found(s, c, place, col)
  BY DEF Searched, Stops
<1> HIDE DEF c
<1>8. ASSUME NEW j \in 1 .. c - 1
      PROVE  s[j].d < place
  <2>1. j \in 1 .. n /\ ~Stops(j)
    BY <1>6
  <2> QED
    BY <1>1, <2>1
<1> QED
  BY <1>1, <1>6, <1>7, <1>8

\* Division towards zero leaves less than the divisor.
LEMMA TruncDivLeaves ==
  ASSUME NEW a \in Int, NEW b \in Nat, b > 0
  PROVE  TruncDiv(a, b) \in Int /\ Magn(TruncDiv(a, b) * b - a) < b
<1> DEFINE q(x) == x \div b
<1>1. ASSUME NEW x \in Nat
      PROVE  q(x) \in Int /\ q(x) * b <= x /\ x - q(x) * b < b
  OBVIOUS
<1>2. Magn(b) = b
  BY DEF Magn
<1>3. CASE a >= 0
  <2>1. TruncDiv(a, b) = q(a) /\ a \in Nat
    BY <1>2, <1>3 DEF TruncDiv, Magn
  <2>2. q(a) \in Int /\ q(a) * b <= a /\ a - q(a) * b < b
    BY <1>1, <2>1
  <2> HIDE DEF q
  <2>3. q(a) * b \in Int
    BY <2>2
  <2> QED
    BY <2>1, <2>2, <2>3 DEF Magn
<1>4. CASE a < 0
  <2>1. TruncDiv(a, b) = -q(-a) /\ -a \in Nat
    BY <1>2, <1>4 DEF TruncDiv, Magn
  <2>2. q(-a) \in Int /\ q(-a) * b <= -a /\ -a - q(-a) * b < b
    BY <1>1, <2>1
  <2> HIDE DEF q
  <2>3. (-q(-a)) * b = -(q(-a) * b) /\ q(-a) * b \in Int
    BY <2>2
  <2> QED
    BY <2>1, <2>2, <2>3 DEF Magn
<1> QED
  BY <1>3, <1>4

\* An interpolation that starts on the line is off it by less than a unit.
LEMMA LineHolds ==
  ASSUME NEW a \in RowType, NEW b \in RowType, a.d < b.d, a.ok, b.ok, NEW place \in Nat, NEW col
  PROVE  /\ Interpolated(a, b, place, col).ok
         /\ Value(a, col) = Value(a, "r") =>
              LessThanOneOff(Interpolated(a, b, place, col).r, a, b, place, col)
<1> DEFINE w == b.d - a.d
           p == place - a.d
           u == Value(b, col) - Value(a, col)
           base == Value(a, "r")
           v == TruncDiv(base * w + p * u, w)
<1>1. \A x \in RowType : \A c : Value(x, c) \in Nat /\ x.d \in Nat
  BY DEF Value, RowType
<1>2. w \in Nat /\ w > 0 /\ p \in Int /\ u \in Int /\ base \in Int
  BY <1>1
<1>3. Interpolated(a, b, place, col) = Row(place, v, v)
  BY <1>1 DEF Interpolated, Base
<1> HIDE DEF w, p, u, base, v
<1>4. /\ base * w \in Int /\ p * u \in Int
      /\ base * w + p * u \in Int
  BY <1>2
<1>5. v \in Int /\ Magn(v * w - (base * w + p * u)) < w
  BY <1>2, <1>4, TruncDivLeaves DEF v
<1>6. (v - base) * w - p * u = v * w - (base * w + p * u)
  <2>1. (v - base) * w = v * w - base * w /\ v * w \in Int
    BY <1>2, <1>5
  <2> QED
    BY <1>4, <2>1
<1>7. Value(a, col) = Value(a, "r") => LessThanOneOff(v, a, b, place, col)
  BY <1>5, <1>6 DEF LessThanOneOff, w, p, u, base
<1> QED
  BY <1>3, <1>7 DEF Row

\* A look-up follows the curve that the rows are.
LEMMA CurveHolds ==
  ASSUME TableInv, Ascending, total > 0, total <= Len(rows), NEW place \in Nat, NEW col,
         NEW v, v = Searched(rows, total, place, col)
  PROVE  /\ v.ok <=> HasCurve(place)
         /\ \A i \in 1 .. total : IsFirstAt(i, place) => v.r = Value(rows[i], col)
         /\ \A i \in 1 .. total - 1 :
              IsOnLineFrom(i, place) /\ Value(rows[i], col) = Value(rows[i], "r") =>
                LessThanOneOff(v.r, rows[i], rows[i + 1], place, col)
<1>1. rows \in Seq(RowType) /\ total \in Nat \ {0}
  BY DEF TableInv
<1>2. \A i \in 1 .. total : rows[i] \in RowType /\ rows[i].d \in Nat /\ rows[i].ok
  <2>1. \A i \in 1 .. total : i \in 1 .. Len(rows)
    BY <1>1
  <2>2. \A i \in 1 .. total : rows[i] \in RowType
    BY <1>1, <2>1
  <2> QED
    BY <2>2 DEF RowType, Ascending
<1>3. \A i, j \in 1 .. total : i <= j => rows[i].d <= rows[j].d
  BY DEF Ascending
<1>4. PICK i \in 1 .. total : /\ v = Found(rows, i, place, col)
                              /\ place <= rows[i].d \/ i = total
                              /\ \A j \in 1 .. i - 1 : rows[j].d < place
  BY <1>1, <1>2, SearchStops
<1>5. v = (IF rows[i].d = place THEN Row(place, Value(rows[i], col), Value(rows[i], col))
           ELSE Interpolated(Before(rows, i), rows[i], place, col))
  <2>1. \A j \in 1 .. i : rows[j].ok
    BY <1>1, <1>2
  <2> QED
    BY <1>4, <2>1 DEF Found
<1>6. \A j \in 1 .. i - 1 : j \in 1 .. total /\ rows[j].d < place
  BY <1>1, <1>4
<1>7. CASE rows[i].d = place
  <2>1. IsFirstAt(i, place)
    BY <1>4, <1>7 DEF IsFirstAt
  <2>2. ASSUME NEW k \in 1 .. total, IsFirstAt(k, place)
        PROVE  k = i
    <3>1. rows[k].d = place /\ \A j \in 1 .. k - 1 : rows[j].d < place
      BY <2>2 DEF IsFirstAt
    <3>2. ~(k < i) /\ ~(i < k)
      BY <1>1, <1>2, <1>4, <1>7, <3>1
    <3> QED
      BY <3>2
  <2>3. ASSUME NEW k \in 1 .. total - 1, IsOnLineFrom(k, place)
        PROVE  FALSE
    <3>1. /\ k \in 1 .. total /\ k + 1 \in 1 .. total /\ rows[k].d < place
          /\ place < rows[k + 1].d \/ rows[total].d < place
      BY <1>1, <2>3 DEF IsOnLineFrom
    <3>2. k < i
      BY <1>2, <1>3, <1>7, <3>1
    <3>3. total \in 1 .. total /\ rows[i].d <= rows[total].d /\ rows[k + 1].d <= rows[i].d
      BY <1>1, <1>3, <3>1, <3>2
    <3> QED
      BY <1>2, <1>7, <3>1, <3>3
  <2>4. v.ok /\ v.r = Value(rows[i], col)
    BY <1>5, <1>7 DEF Row
  <2>5. HasCurve(place)
    BY <2>1 DEF HasCurve
  <2> QED
    BY <2>2, <2>3, <2>4, <2>5
<1>8. CASE rows[i].d # place
  <2>1. ASSUME NEW k \in 1 .. total, IsFirstAt(k, place)
        PROVE  FALSE
    <3>1. rows[k].d = place
      BY <2>1 DEF IsFirstAt
    <3>2. ~(k < i) /\ k # i
      BY <1>2, <1>6, <1>8, <3>1
    <3>3. i < k /\ place < rows[i].d
      BY <1>1, <1>2, <1>4, <1>8, <3>2
    <3> QED
      BY <1>2, <1>3, <3>1, <3>3
  <2>2. ASSUME NEW k \in 1 .. total - 1, IsOnLineFrom(k, place)
        PROVE  k = i - 1 /\ i > 1
    <3>1. /\ k \in 1 .. total /\ k + 1 \in 1 .. total
          /\ rows[k].d < place /\ rows[k].d < rows[k + 1].d
          /\ place < rows[k + 1].d \/ (k + 1 = total /\ rows[total].d < place)
      BY <1>1, <2>2 DEF IsOnLineFrom
    <3>2. ~(k < i - 1)
      <4>1. SUFFICES ASSUME k < i - 1
                     PROVE  FALSE
        OBVIOUS
      <4>2. k + 1 \in 1 .. i - 1
        BY <4>1, <1>4
      <4> QED
        BY <1>1, <1>2, <1>6, <3>1, <4>2
    <3>3. ~(k >= i)
      <4>1. SUFFICES ASSUME k >= i
                     PROVE  FALSE
        OBVIOUS
      <4>2. rows[i].d <= rows[k].d
        BY <1>3, <3>1, <4>1
      <4>3. ~(place <= rows[i].d)
        BY <1>2, <3>1, <4>2
      <4> QED
        BY <1>1, <1>4, <4>1, <4>3
    <3> QED
      BY <1>1, <1>4, <3>2, <3>3
  <2>3. CASE i = 1
    <3>1. ~Interpolated(Before(rows, i), rows[i], place, col).ok
      BY <2>3 DEF Interpolated, Before, Junk
    <3>2. ~v.ok
      BY <1>5, <1>8, <3>1
    <3> QED
      BY <2>1, <2>2, <2>3, <3>2 DEF HasCurve
  <2>4. CASE i > 1
    <3> DEFINE h == i - 1
    <3>1. /\ h \in 1 .. total /\ h \in 1 .. total - 1 /\ h + 1 = i /\ rows[h].d < place
          /\ rows[h] \in RowType /\ rows[i] \in RowType /\ rows[h].ok /\ rows[i].ok
          /\ rows[h].d \in Nat /\ rows[i].d \in Nat /\ rows[h].d <= rows[i].d
      BY <1>1, <1>2, <1>3, <1>6, <2>4
    <3>2. v = Interpolated(rows[h], rows[i], place, col)
      BY <1>5, <1>8, <2>4 DEF Before
    <3> HIDE DEF h
    <3>3. CASE rows[h].d = rows[i].d
      <4>1. ~v.ok
        BY <3>2, <3>3 DEF Interpolated, Junk
      <4>2. ASSUME NEW k \in 1 .. total - 1, IsOnLineFrom(k, place)
            PROVE  FALSE
        <5>1. k = h
          BY <2>2, <4>2 DEF h
        <5> QED
          BY <3>1, <3>3, <4>2, <5>1 DEF IsOnLineFrom
      <4> QED
        BY <2>1, <4>1, <4>2 DEF HasCurve
    <3>4. CASE rows[h].d < rows[i].d
      <4>1. /\ v.ok
            /\ Value(rows[h], col) = Value(rows[h], "r") =>
                 LessThanOneOff(v.r, rows[h], rows[i], place, col)
        BY <3>1, <3>2, <3>4, LineHolds
      <4>2. IsOnLineFrom(h, place)
        BY <1>4, <1>8, <3>1, <3>4 DEF IsOnLineFrom
      <4>3. HasCurve(place)
        BY <3>1, <4>2 DEF HasCurve
      <4>4. \A k \in 1 .. total - 1 : IsOnLineFrom(k, place) => k = h
        BY <2>2 DEF h
      <4> QED
        BY <2>1, <3>1, <4>1, <4>3, <4>4
    <3> QED
      BY <3>1, <3>3, <3>4
  <2> QED
    BY <1>1, <2>3, <2>4
<1> QED
  BY <1>7, <1>8

LEMMA AskFollows ==
  ASSUME TableInv, NEW place \in Places, NEW rw \in {"read", "write"}, Ask(place, rw)
  PROVE  AnswersFromCurve'
<1> DEFINE col == Column(rw)
           v == Lookup(place, rw)
<1>1. /\ pc = "loaded" /\ asked' = [place |-> place, rw |-> rw] /\ answer' = v
      /\ UNCHANGED <<loader, header, file, rows, count, total, dual>>
  BY DEF Ask
<1>2. place \in Nat /\ total \in Nat /\ total <= Len(rows)
  BY <1>1, TablesAssumption DEF TableInv
<1>3. asked'.place = place /\ asked'.rw = rw
  BY <1>1
<1>4. Column(asked.rw)' = col
  BY <1>1, <1>3 DEF Column
<1>5. /\ Ascending' => Ascending
      /\ LooksUp' => total > 0 /\ (place > 0 \/ loader \in {"spindle", "bias"})
  BY <1>1, <1>3 DEF Ascending, LooksUp
<1>6. \A i : IsFirstAt(i, asked.place)' <=> IsFirstAt(i, place)
  BY <1>1, <1>3 DEF IsFirstAt
<1>7. \A i : IsOnLineFrom(i, asked.place)' <=> IsOnLineFrom(i, place)
  BY <1>1, <1>3 DEF IsOnLineFrom
<1>8. HasCurve(asked.place)' <=> HasCurve(place)
  BY <1>1, <1>6, <1>7 DEF HasCurve
<1>9. SUFFICES ASSUME LooksUp', Ascending'
               PROVE  /\ v.ok <=> HasCurve(place)
                      /\ \A i \in 1 .. total : IsFirstAt(i, place) => v.r = Value(rows[i], col)
                      /\ \A i \in 1 .. total - 1 :
                           IsOnLineFrom(i, place) /\ Value(rows[i], col) = Value(rows[i], "r") =>
                             LessThanOneOff(v.r, rows[i], rows[i + 1], place, col)
  BY <1>1, <1>3, <1>4, <1>6, <1>7, <1>8 DEF AnswersFromCurve
<1>10. v = Searched(rows, total, place, col)
  <2>1. loader \in {"spindle", "bias"} => col = "r"
    BY DEF TableInv, Column
  <2>2. loader \in {"spindle", "bias"} => v = Searched(rows, total, place, "r")
    BY DEF Lookup, dm_spindle_power_g4, dm_vcm_bias_power, SeekLoaders
  <2>3. loader \notin {"spindle", "bias"} =>
          v = IF place = 0 THEN Row(place, 0, 0) ELSE Searched(rows, total, place, col)
    BY DEF Lookup, dm_mech_g1_seek_extracted, dm_vcm_seek_energy_g4, Zeros
  <2> HIDE DEF v, col
  <2> QED
    BY <1>2, <1>5, <1>9, <2>1, <2>2, <2>3
<1> HIDE DEF v, col
<1> QED
  BY <1>2, <1>5, <1>9, <1>10, CurveHolds

\* A look-up in a table in order answers a point with its value, and from memory
\* nobody wrote exactly where there is neither a point nor a line through the two
\* points next to the place; it is less than a unit off that line, except for a
\* write where the two columns differ at the point before the place
\* (mech_g1_seektime.c:297-392, mech_power_load.c:429-601).
THEOREM LookupsFollowTheCurve == Spec => []AnswersFromCurve
<1> DEFINE Inv == TableInv /\ AnswersFromCurve
<1>1. Init => Inv
  <2>1. Init => pc = "read"
    BY DEF Init
  <2> QED
    BY <2>1, TableInit DEF AnswersFromCurve, LooksUp
<1>2. Inv /\ [Next]_vars => Inv'
  <2> SUFFICES ASSUME Inv, [Next]_vars
               PROVE  AnswersFromCurve'
    BY TableStep
  <2>1. ASSUME NEW l \in Lines, ReadLine(l)
        PROVE  AnswersFromCurve'
    <3>1. pc' # "answered"
      BY <2>1 DEF ReadLine, Store
    <3> QED
      BY <3>1 DEF AnswersFromCurve, LooksUp
  <2>2. CASE EndOfFile
    <3>1. pc' # "answered"
      BY <2>2 DEF EndOfFile
    <3> QED
      BY <3>1 DEF AnswersFromCurve, LooksUp
  <2>3. ASSUME NEW place \in Places, NEW rw \in {"read", "write"}, Ask(place, rw)
        PROVE  AnswersFromCurve'
    BY <2>3, AskFollows
  <2>4. CASE UNCHANGED vars
    BY <2>4 DEF vars, AnswersFromCurve, LooksUp, Ascending, HasCurve, IsFirstAt, IsOnLineFrom,
                LessThanOneOff, Column
  <2> QED
    BY <2>1, <2>2, <2>3, <2>4 DEF Next
<1>3. Inv => AnswersFromCurve
  OBVIOUS
<1> QED
  BY <1>1, <1>2, <1>3, PTL DEF Spec


-----------------------------------------------------------------------------
(* Loading the parameters of seeks, in any order *)

\* The loaders that write the field m->seektime, and what each leaves there.
Shared == {"type", "constant", "curve"}

CodeLeft(b, p) ==
  CASE p = "type"     -> CodeOf(b["type"])
    [] p = "constant" -> StoredTime(b["constant"])
    [] OTHER          -> CodeOf("extracted")

Writers(s, n) == { i \in 1 .. n : s[i] \in Shared }

\* What the first n loaders of s leave.
LeftBy(b, s, n) ==
  IF Writers(s, n) = {} THEN Unset
  ELSE CodeLeft(b, s[CHOOSE i \in Writers(s, n) : \A j \in Writers(s, n) : j <= i])

PlaceIn(s, p) == CHOOSE i \in DOMAIN s : s[i] = p

\* What the loader of p finds there.
FoundBy(b, s, p) == LeftBy(b, s, PlaceIn(s, p) - 1)

LEMMA SharedField ==
  /\ \A n : TypeAfter(n) = LeftBy(block, loaded, n)
  /\ \A p : TypeSeenBy(p) = FoundBy(block, loaded, p)
  BY DEF TypeAfter, TypeSeenBy, PositionOf, LeftBy, FoundBy, PlaceIn, Writers, Shared, CodeLeft, Type

LEMMA LastOf ==
  ASSUME NEW n \in Nat, NEW T, T \subseteq 1 .. n, T # {}
  PROVE  \E last \in T : \A k \in T : k <= last
<1> DEFINE U == { n - k : k \in T }
<1>1. U \subseteq Nat /\ U # {}
  <2>1. \A k \in T : k \in 1 .. n /\ n - k \in Nat
    OBVIOUS
  <2> QED
    BY <2>1
<1>2. PICK least \in U : \A k \in U : least <= k
  BY <1>1, LeastOf, Zenon
<1>3. PICK last \in T : least = n - last
  OBVIOUS
<1>4. ASSUME NEW k \in T
      PROVE  k <= last
  <2>1. least <= n - k
    BY <1>2
  <2>2. k \in 1 .. n /\ last \in 1 .. n
    OBVIOUS
  <2> QED
    BY <1>3, <2>1, <2>2
<1> QED
  BY <1>4

\* The last writer's value is there.
LEMMA LeftAt ==
  ASSUME NEW b, NEW s, NEW n \in Nat, NEW i \in Writers(s, n), \A j \in Writers(s, n) : j <= i
  PROVE  LeftBy(b, s, n) = CodeLeft(b, s[i])
<1> DEFINE W == Writers(s, n)
           c == CHOOSE k \in W : \A j \in W : j <= k
<1>1. W \subseteq 1 .. n
  BY DEF Writers
<1>2. LeftBy(b, s, n) = CodeLeft(b, s[c])
  BY DEF LeftBy
<1> HIDE DEF W
<1>3. c \in W /\ \A j \in W : j <= c
  BY DEF W
<1> HIDE DEF c
<1>4. c <= i /\ i <= c /\ c \in 1 .. n /\ i \in 1 .. n
  BY <1>1, <1>3 DEF W
<1>5. c = i
  BY <1>4
<1> QED
  BY <1>2, <1>5

LEMMA AppendedTo ==
  ASSUME NEW S, NEW s \in Seq(S), NEW p \in S
  PROVE  /\ Append(s, p) \in Seq(S)
         /\ Len(s) \in Nat /\ Len(Append(s, p)) = Len(s) + 1
         /\ DOMAIN s = 1 .. Len(s) /\ DOMAIN Append(s, p) = 1 .. Len(s) + 1
         /\ \A i \in 1 .. Len(s) : Append(s, p)[i] = s[i] /\ s[i] \in S
         /\ Append(s, p)[Len(s) + 1] = p
  OBVIOUS

\* A loader writes the field or leaves it, and what older ones left is as it was.
LEMMA LeftStep ==
  ASSUME NEW S, NEW s \in Seq(S), NEW p \in S, NEW b
  PROVE  /\ \A n \in 0 .. Len(s) : LeftBy(b, Append(s, p), n) = LeftBy(b, s, n)
         /\ LeftBy(b, Append(s, p), Len(s) + 1)
              = (IF p \in Shared THEN CodeLeft(b, p) ELSE LeftBy(b, s, Len(s)))
<1> DEFINE t == Append(s, p)
           N == Len(s)
<1>1. N \in Nat /\ t[N + 1] = p /\ \A i \in 1 .. N : t[i] = s[i]
  BY AppendedTo
<1> HIDE DEF t, N
<1>2. ASSUME NEW n \in 0 .. N
      PROVE  LeftBy(b, t, n) = LeftBy(b, s, n)
  <2>1. n \in Nat /\ \A i \in 1 .. n : t[i] = s[i]
    BY <1>1
  <2>2. Writers(t, n) = Writers(s, n) /\ Writers(s, n) \subseteq 1 .. n
    BY <2>1 DEF Writers
  <2>3. CASE Writers(s, n) = {}
    BY <2>2, <2>3 DEF LeftBy
  <2>4. CASE Writers(s, n) # {}
    <3>1. PICK i \in Writers(s, n) : \A j \in Writers(s, n) : j <= i
      BY <2>1, <2>2, <2>4, LastOf, Zenon
    <3>2. LeftBy(b, t, n) = CodeLeft(b, t[i]) /\ LeftBy(b, s, n) = CodeLeft(b, s[i])
      BY <2>1, <2>2, <3>1, LeftAt
    <3> QED
      BY <2>1, <2>2, <3>1, <3>2
  <2> QED
    BY <2>3, <2>4
<1>3. CASE p \in Shared
  <2>1. N + 1 \in Writers(t, N + 1) /\ \A j \in Writers(t, N + 1) : j <= N + 1
    BY <1>1, <1>3 DEF Writers
  <2>2. N + 1 \in Nat
    BY <1>1
  <2>3. LeftBy(b, t, N + 1) = CodeLeft(b, t[N + 1])
    BY <2>1, <2>2, LeftAt
  <2> QED
    BY <1>1, <1>2, <1>3, <2>3 DEF t, N
<1>4. CASE p \notin Shared
  <2>1. 1 .. N + 1 = (1 .. N) \cup {N + 1}
    BY <1>1
  <2>2. Writers(t, N + 1) = Writers(t, N)
    BY <1>1, <1>4, <2>1 DEF Writers
  <2>3. LeftBy(b, t, N + 1) = LeftBy(b, t, N)
    <3> DEFINE Of(W) == IF W = {} THEN Unset
                        ELSE CodeLeft(b, t[CHOOSE i \in W : \A j \in W : j <= i])
    <3>1. \A n : LeftBy(b, t, n) = Of(Writers(t, n))
      BY DEF LeftBy
    <3> HIDE DEF Of
    <3> QED
      BY <2>2, <3>1
  <2>4. LeftBy(b, t, N) = LeftBy(b, s, N)
    BY <1>1, <1>2
  <2> QED
    BY <1>2, <1>4, <2>3, <2>4 DEF t, N
<1> QED
  BY <1>3, <1>4

\* Places of loaders do not move.
LEMMA PlaceKept ==
  ASSUME NEW S, NEW s \in Seq(S), NEW p \in S, \A i \in 1 .. Len(s) : s[i] # p,
         \A i, j \in 1 .. Len(s) : s[i] = s[j] => i = j
  PROVE  /\ PlaceIn(Append(s, p), p) = Len(s) + 1
         /\ \A i \in 1 .. Len(s) : PlaceIn(s, s[i]) = i /\ PlaceIn(Append(s, p), s[i]) = i
<1> DEFINE t == Append(s, p)
           N == Len(s)
<1>1. /\ N \in Nat /\ DOMAIN s = 1 .. N /\ DOMAIN t = 1 .. N + 1
      /\ \A i \in 1 .. N : t[i] = s[i]
      /\ t[N + 1] = p
  BY AppendedTo
<1> HIDE DEF t, N
<1>2. ASSUME NEW i \in 1 .. N
      PROVE  PlaceIn(s, s[i]) = i
  <2> DEFINE c == CHOOSE k \in DOMAIN s : s[k] = s[i]
  <2>1. c \in 1 .. N /\ s[c] = s[i]
    BY <1>1
  <2> HIDE DEF c
  <2>2. c = i
    BY <2>1 DEF N
  <2> QED
    BY <2>2 DEF PlaceIn, c
<1>3. ASSUME NEW i \in 1 .. N + 1, NEW k \in 1 .. N + 1, t[i] = t[k]
      PROVE  i = k
  BY <1>1, <1>3 DEF N
<1>4. ASSUME NEW i \in 1 .. N + 1
      PROVE  PlaceIn(t, t[i]) = i
  <2> DEFINE c == CHOOSE k \in DOMAIN t : t[k] = t[i]
  <2>1. c \in 1 .. N + 1 /\ t[c] = t[i]
    BY <1>1
  <2> HIDE DEF c
  <2>2. c = i
    BY <1>3, <2>1
  <2> QED
    BY <2>2 DEF PlaceIn, c
<1>5. N + 1 \in 1 .. N + 1
  BY <1>1
<1>6. PlaceIn(t, p) = N + 1
  BY <1>1, <1>4, <1>5
<1>7. \A i \in 1 .. N : PlaceIn(t, s[i]) = i
  BY <1>1, <1>4
<1> QED
  BY <1>2, <1>6, <1>7 DEF t, N

Parameters == SeekTimes \cup SeekLists \cup {"type", "curve"}

\* Every parameter is loaded once, those that need Seek type after it, and a seek comes
\* after all of them.
OrderInv ==
  /\ block \in Blocks
  /\ loaded \in Seq(Parameters)
  /\ \A i \in 1 .. Len(loaded) : Has(loaded[i])
  /\ \A i, j \in 1 .. Len(loaded) : loaded[i] = loaded[j] => i = j
  /\ \A i \in 1 .. Len(loaded) : loaded[i] \in NeedType => \E j \in 1 .. i - 1 : loaded[j] = "type"
  /\ stage \in {"loading", "ready", "sought", "crashed"}
  /\ stage \in {"ready", "sought"} => \A p \in DOMAIN block : IsLoaded(p)

\* What a loader finds, and what it leaves in the shared field.
LEMMA Appended ==
  ASSUME OrderInv, NEW p, NEW f, Loads(p, f)
  PROVE  /\ OrderInv' /\ block' = block /\ m' = f /\ stage' = stage /\ stage = "loading"
         /\ p \in DOMAIN block /\ p \in Parameters /\ ~IsLoaded(p)
         /\ p \in NeedType => IsLoaded("type")
         /\ \A q : IsLoaded(q)' <=> IsLoaded(q) \/ q = p
         /\ \A q : IsLoaded(q) => TypeSeenBy(q)' = TypeSeenBy(q)
         /\ TypeSeenBy(p)' = TypeAfter(Len(loaded))
         /\ TypeAfter(Len(loaded))'
              = (IF p \in Shared THEN CodeLeft(block, p) ELSE TypeAfter(Len(loaded)))
<1> DEFINE N == Len(loaded)
<1>1. /\ p \in DOMAIN block /\ ~IsLoaded(p) /\ (p \in NeedType => IsLoaded("type"))
      /\ loaded' = Append(loaded, p) /\ m' = f /\ block' = block /\ stage' = stage
      /\ stage = "loading"
  BY DEF Loads, CanLoad
<1>2. p \in Parameters
  BY <1>1, BlocksAssumption DEF OrderInv, Parameters
<1>3. loaded \in Seq(Parameters)
  BY DEF OrderInv
<1>4. /\ loaded' \in Seq(Parameters)
      /\ N \in Nat /\ Len(loaded') = N + 1
      /\ DOMAIN loaded = 1 .. N /\ DOMAIN loaded' = 1 .. N + 1
      /\ \A i \in 1 .. N : loaded'[i] = loaded[i]
      /\ loaded'[N + 1] = p
  BY <1>1, <1>2, <1>3, AppendedTo
<1>5. \A q : IsLoaded(q) <=> \E i \in 1 .. N : loaded[i] = q
  BY <1>4 DEF IsLoaded
<1>6. \A q : IsLoaded(q)' <=> \E i \in 1 .. N + 1 : loaded'[i] = q
  BY <1>4 DEF IsLoaded
<1> HIDE DEF N
<1>7. 1 .. N + 1 = (1 .. N) \cup {N + 1}
  BY <1>4
<1>8. \A q : IsLoaded(q)' <=> IsLoaded(q) \/ q = p
  BY <1>4, <1>5, <1>6, <1>7
<1>9. \A i \in 1 .. N : loaded[i] # p
  BY <1>1, <1>5
<1>10. \A i, j \in 1 .. N : loaded[i] = loaded[j] => i = j
  BY DEF OrderInv, N
<1>11. OrderInv'
  <2>1. \A i \in 1 .. N + 1 : loaded'[i] \in DOMAIN block'
    BY <1>1, <1>4, <1>7 DEF OrderInv, Has, N
  <2>2. \A i, j \in 1 .. N + 1 : loaded'[i] = loaded'[j] => i = j
    BY <1>4, <1>7, <1>9, <1>10
  <2>3. ASSUME NEW i \in 1 .. N + 1, loaded'[i] \in NeedType
        PROVE  \E j \in 1 .. i - 1 : loaded'[j] = "type"
    <3>1. CASE i = N + 1
      <4>1. PICK j \in 1 .. N : loaded[j] = "type"
        BY <1>1, <1>4, <1>5, <2>3, <3>1
      <4>2. j \in 1 .. i - 1
        BY <1>4, <3>1
      <4> QED
        BY <1>4, <4>1, <4>2
    <3>2. CASE i \in 1 .. N
      <4>1. PICK j \in 1 .. i - 1 : loaded[j] = "type"
        BY <1>4, <2>3, <3>2 DEF OrderInv, N
      <4>2. j \in 1 .. N
        BY <1>4, <3>2
      <4> QED
        BY <1>4, <4>1, <4>2
    <3> QED
      BY <1>7, <3>1, <3>2
  <2>4. stage' \notin {"ready", "sought"} /\ stage' \in {"loading", "ready", "sought", "crashed"}
    BY <1>1
  <2>5. block' \in Blocks
    BY <1>1 DEF OrderInv
  <2> QED
    BY <1>4, <2>1, <2>2, <2>3, <2>4, <2>5 DEF OrderInv, Has
<1>12. /\ \A n \in 0 .. N : LeftBy(block, loaded', n) = LeftBy(block, loaded, n)
       /\ LeftBy(block, loaded', N + 1)
            = (IF p \in Shared THEN CodeLeft(block, p) ELSE LeftBy(block, loaded, N))
  BY <1>1, <1>2, <1>3, LeftStep DEF N
<1>13. /\ PlaceIn(loaded', p) = N + 1
       /\ \A i \in 1 .. N : PlaceIn(loaded, loaded[i]) = i /\ PlaceIn(loaded', loaded[i]) = i
  BY <1>1, <1>2, <1>3, <1>9, <1>10, PlaceKept DEF N
<1>14. /\ \A n : TypeAfter(n)' = LeftBy(block', loaded', n)
       /\ \A q : TypeSeenBy(q)' = FoundBy(block', loaded', q)
  BY DEF TypeAfter, TypeSeenBy, PositionOf, LeftBy, FoundBy, PlaceIn, Writers, Shared, CodeLeft, Type
<1>15. ASSUME NEW q, IsLoaded(q)
       PROVE  TypeSeenBy(q)' = TypeSeenBy(q)
  <2>1. PICK i \in 1 .. N : loaded[i] = q
    BY <1>5, <1>15
  <2>2. i - 1 \in 0 .. N
    BY <1>4
  <2> QED
    BY <1>1, <1>12, <1>13, <1>14, <2>1, <2>2, SharedField DEF FoundBy
<1>16. TypeSeenBy(p)' = TypeAfter(N)
  <2>1. N \in 0 .. N /\ (N + 1) - 1 = N
    BY <1>4
  <2> QED
    BY <1>1, <1>12, <1>13, <1>14, <2>1, SharedField DEF FoundBy
<1>17. TypeAfter(Len(loaded))' = (IF p \in Shared THEN CodeLeft(block, p) ELSE TypeAfter(N))
  <2>1. TypeAfter(Len(loaded))' = LeftBy(block', loaded', Len(loaded'))
    BY DEF TypeAfter, LeftBy, Writers, Shared, CodeLeft, Type
  <2> QED
    BY <1>1, <1>4, <1>12, <2>1, SharedField
<1> QED
  BY <1>1, <1>2, <1>8, <1>11, <1>15, <1>16, <1>17 DEF N

\* A list stops its loader at the first element that is wrong, or not at all.
LEMMA StopIs ==
  ASSUME NEW l, NEW n \in Nat, NEW free
  PROVE  /\ Stop(l, n, free) \in 1 .. n + 1
         /\ \A e \in 1 .. Stop(l, n, free) - 1 : ~IsBad(l, e, free)
         /\ Stop(l, n, free) <= n => IsBad(l, Stop(l, n, free), free)
<1> DEFINE Bad(e) == IsBad(l, e, free)
           T == { e \in 1 .. n : Bad(e) }
           First(e) == Bad(e) /\ \A k \in 1 .. e - 1 : ~Bad(k)
           c == CHOOSE e \in 1 .. n : First(e)
<1>1. Stop(l, n, free) = (IF \E e \in 1 .. n : Bad(e) THEN c ELSE n + 1)
  BY DEF Stop
<1> HIDE DEF Bad
<1>2. CASE T = {}
  <2>1. ~ \E e \in 1 .. n : Bad(e)
    BY <1>2
  <2>2. \A e \in 1 .. (n + 1) - 1 : e \in 1 .. n
    OBVIOUS
  <2>3. Stop(l, n, free) = n + 1
    BY <1>1, <2>1
  <2> QED
    BY <2>1, <2>2, <2>3 DEF Bad
<1>3. CASE T # {}
  <2>1. T \subseteq Nat
    OBVIOUS
  <2>2. PICK least \in T : \A k \in T : least <= k
    BY <1>3, <2>1, LeastOf, Zenon
  <2>3. least \in 1 .. n /\ Bad(least)
    OBVIOUS
  <2>4. ASSUME NEW k \in 1 .. least - 1, Bad(k)
        PROVE  FALSE
    <3>1. k \in T /\ k < least
      BY <2>3, <2>4
    <3> QED
      BY <2>2, <2>3, <3>1
  <2>5. First(least)
    BY <2>3, <2>4
  <2>6. c \in 1 .. n /\ First(c)
    BY <2>3, <2>5
  <2>7. Stop(l, n, free) = c
    BY <1>1, <2>3
  <2> HIDE DEF c
  <2> QED
    BY <2>6, <2>7 DEF Bad
<1> QED
  BY <1>2, <1>3

FieldNames == {"seektime", "seekfn", "one", "avg", "full", "v1", "hp", "ten", "curve", "dual"}

Computed == {"one", "avg", "full"}

\* What the loader of the first ten seeks leaves when it finds code in the shared field.
TenIs(ten, code) ==
  IF code = CodeOf("hplplus10") /\ Room(Len(Ten)) >= 10
  THEN /\ ten = [e \in 1 .. 10 |-> IF e < Stop(Ten, 10, 0) THEN Ten[e].v ELSE Unset]
       /\ Stop(Ten, 10, 0) <= 10 => Stop(Ten, 10, 0) <= Len(Ten)
  ELSE ten = [e \in 1 .. 10 |-> Unset]

\* And that of the HPL parameters.
HplIs(v1, hp, code) ==
  /\ code \in {CodeOf("hpl"), CodeOf("hplplus10")}
  /\ Hpl[1].t = "I" /\ Hpl[1].v >= 0 /\ \A e \in 1 .. 5 : ~IsBad(Tail(Hpl), e, 5)
  => Known({v1, hp[1], hp[2], hp[3], hp[4]})

\* Every field holds what the loaders so far left in it.
FieldsInv ==
  /\ DOMAIN m = FieldNames
  /\ m.seekfn = IF IsLoaded("type") THEN Type ELSE "none"
  /\ m.seektime = TypeAfter(Len(loaded))
  /\ \A q \in Computed : IsLoaded(q) => m[q] # Unset
  /\ IF IsLoaded("ten") THEN TenIs(m.ten, TypeSeenBy("ten")) ELSE m.ten = [e \in 1 .. 10 |-> Unset]
  /\ IsLoaded("hpl") => HplIs(m.v1, m.hp, TypeSeenBy("hpl"))
  /\ IF IsLoaded("curve")
     THEN m.curve = block["curve"].rows /\ m.dual = block["curve"].dual
     ELSE m.dual = Unset

\* What a loader must do to the fields.
Leaves(p, f) ==
  /\ DOMAIN f = FieldNames
  /\ f.seekfn = IF p = "type" THEN Type ELSE m.seekfn
  /\ f.seektime = IF p \in Shared THEN CodeLeft(block, p) ELSE m.seektime
  /\ \A q \in Computed : f[q] # Unset \/ (q # p /\ f[q] = m[q])
  /\ IF p = "ten" THEN TenIs(f.ten, m.seektime) ELSE f.ten = m.ten
  /\ IF p = "hpl" THEN HplIs(f.v1, f.hp, m.seektime) ELSE f.v1 = m.v1 /\ f.hp = m.hp
  /\ IF p = "curve"
     THEN f.curve = block["curve"].rows /\ f.dual = block["curve"].dual
     ELSE f.curve = m.curve /\ f.dual = m.dual

LEMMA LoaderKeeps ==
  ASSUME OrderInv, FieldsInv, NEW p, NEW f, Loads(p, f), Leaves(p, f)
  PROVE  FieldsInv'
<1>1. /\ block' = block /\ m' = f
      /\ ~IsLoaded(p)
      /\ \A q : IsLoaded(q)' <=> IsLoaded(q) \/ q = p
      /\ \A q : IsLoaded(q) => TypeSeenBy(q)' = TypeSeenBy(q)
      /\ TypeSeenBy(p)' = TypeAfter(Len(loaded))
      /\ TypeAfter(Len(loaded))'
           = (IF p \in Shared THEN CodeLeft(block, p) ELSE TypeAfter(Len(loaded)))
  BY Appended
<1>4. TenIs(m.ten, TypeSeenBy("ten"))' <=> TenIs(f.ten, TypeSeenBy("ten")')
  BY <1>1 DEF TenIs, Ten
<1>5. HplIs(m.v1, m.hp, TypeSeenBy("hpl"))' <=> HplIs(f.v1, f.hp, TypeSeenBy("hpl")')
  BY <1>1 DEF HplIs, Hpl
<1>6. m.seekfn' = IF IsLoaded("type")' THEN Type' ELSE "none"
  BY <1>1 DEF FieldsInv, Leaves, Type
<1>7. m.seektime' = TypeAfter(Len(loaded))'
  BY <1>1 DEF FieldsInv, Leaves
<1>8. \A q \in Computed : IsLoaded(q)' => m'[q] # Unset
  BY <1>1 DEF FieldsInv, Leaves
<1>9. IF IsLoaded("ten")' THEN TenIs(m.ten, TypeSeenBy("ten"))'
      ELSE m'.ten = [e \in 1 .. 10 |-> Unset]
  <2>1. CASE p = "ten"
    <3>1. TenIs(f.ten, TypeSeenBy("ten")')
      BY <1>1, <2>1 DEF FieldsInv, Leaves
    <3> QED
      BY <1>1, <1>4, <2>1, <3>1
  <2>2. CASE p # "ten"
    <3>1. f.ten = m.ten /\ (IsLoaded("ten")' <=> IsLoaded("ten"))
      BY <1>1, <2>2 DEF Leaves
    <3>2. CASE IsLoaded("ten")
      BY <1>1, <1>4, <3>1, <3>2 DEF FieldsInv
    <3>3. CASE ~IsLoaded("ten")
      BY <1>1, <3>1, <3>3 DEF FieldsInv
    <3> QED
      BY <3>2, <3>3
  <2> QED
    BY <2>1, <2>2
<1>10. IsLoaded("hpl")' => HplIs(m.v1, m.hp, TypeSeenBy("hpl"))'
  <2>1. CASE p = "hpl"
    BY <1>1, <1>5, <2>1 DEF FieldsInv, Leaves
  <2>2. CASE p # "hpl"
    BY <1>1, <1>5, <2>2 DEF FieldsInv, Leaves
  <2> QED
    BY <2>1, <2>2
<1>11. IF IsLoaded("curve")'
       THEN m'.curve = block'["curve"].rows /\ m'.dual = block'["curve"].dual
       ELSE m'.dual = Unset
  BY <1>1 DEF FieldsInv, Leaves
<1>12. DOMAIN m' = FieldNames
  BY <1>1 DEF Leaves
<1> QED
  BY <1>6, <1>7, <1>8, <1>9, <1>10, <1>11, <1>12 DEF FieldsInv

\* Each loader leaves its own fields, and no others.
LEMMA TypeLeaves ==
  ASSUME OrderInv, FieldsInv, LoadType
  PROVE  FieldsInv' /\ OrderInv'
<1> DEFINE f == [m EXCEPT !.seektime = CodeOf(block["type"]), !.seekfn = block["type"]]
<1>1. Loads("type", f) /\ ~IsLoaded("type")
  BY DEF LoadType, Loads, CanLoad
<1>2. /\ DOMAIN f = FieldNames
      /\ f.seektime = CodeOf(block["type"]) /\ f.seekfn = block["type"]
      /\ \A q \in FieldNames \ {"seektime", "seekfn"} : f[q] = m[q]
  BY DEF FieldsInv, FieldNames
<1> HIDE DEF f
<1>3. Leaves("type", f)
  BY <1>2 DEF Leaves, Shared, CodeLeft, Type, FieldNames, Computed
<1> QED
  BY <1>1, <1>3, LoaderKeeps, Appended

LEMMA ConstantLeaves ==
  ASSUME OrderInv, FieldsInv, LoadTime("constant", "seektime")
  PROVE  FieldsInv' /\ OrderInv'
<1> DEFINE f == [m EXCEPT !["seektime"] = StoredTime(block["constant"])]
<1>1. Loads("constant", f)
  BY DEF LoadTime
<1>2. /\ DOMAIN f = FieldNames
      /\ f.seektime = StoredTime(block["constant"])
      /\ \A q \in FieldNames \ {"seektime"} : f[q] = m[q]
  BY DEF FieldsInv, FieldNames
<1> HIDE DEF f
<1>3. Leaves("constant", f)
  BY <1>2 DEF Leaves, Shared, CodeLeft, FieldNames, Computed
<1> QED
  BY <1>1, <1>3, LoaderKeeps, Appended

LEMMA ComputedLeaves ==
  ASSUME OrderInv, FieldsInv, NEW q \in Computed, LoadTime(q, q)
  PROVE  FieldsInv' /\ OrderInv'
<1> DEFINE v == StoredTime(block[q])
           f == [m EXCEPT ![q] = v]
<1>1. Loads(q, f) /\ q \in DOMAIN block
  BY DEF LoadTime
<1>2. v # Unset
  BY <1>1, BlocksAssumption DEF OrderInv, Computed, SeekTimes
<1> HIDE DEF v
<1>3. DOMAIN f = FieldNames /\ f[q] = v /\ \A r \in FieldNames \ {q} : f[r] = m[r]
  BY DEF FieldsInv, FieldNames, Computed
<1> HIDE DEF f
<1>4. \A r \in Computed : f[r] # Unset \/ (r # q /\ f[r] = m[r])
  BY <1>2, <1>3 DEF FieldNames, Computed
<1>5. q \notin Shared \cup {"ten", "hpl", "curve", "type"}
  BY DEF Computed, Shared
<1>6. \A r \in FieldNames \ Computed : f[r] = m[r]
  BY <1>3
<1>7. Leaves(q, f)
  BY <1>3, <1>4, <1>5, <1>6 DEF Leaves, FieldNames, Computed, Shared
<1> QED
  BY <1>1, <1>7, LoaderKeeps, Appended

LEMMA CurveLeaves ==
  ASSUME OrderInv, FieldsInv, LoadCurve
  PROVE  FieldsInv' /\ OrderInv'
<1> DEFINE f == [m EXCEPT !.seektime = CodeOf("extracted"), !.curve = block["curve"].rows,
                          !.dual = block["curve"].dual]
<1>1. Loads("curve", f)
  BY DEF LoadCurve
<1>2. /\ DOMAIN f = FieldNames
      /\ f.seektime = CodeOf("extracted") /\ f.curve = block["curve"].rows
      /\ f.dual = block["curve"].dual
      /\ \A q \in FieldNames \ {"seektime", "curve", "dual"} : f[q] = m[q]
  BY DEF FieldsInv, FieldNames
<1> HIDE DEF f
<1>3. Leaves("curve", f)
  <2>1. \A q \in Computed : q # "curve" /\ f[q] = m[q]
    BY <1>2 DEF FieldNames, Computed
  <2>2. \A q \in Computed : m[q] # Unset \/ f[q] = m[q]
    BY <2>1
  <2> QED
    BY <1>2, <2>1 DEF Leaves, Shared, CodeLeft, FieldNames
<1> QED
  BY <1>1, <1>3, LoaderKeeps, Appended

\* Lists are lists of elements.
LEMMA ListsAre ==
  ASSUME OrderInv, NEW p \in SeekLists, Has(p)
  PROVE  block[p] \in Seq(Element) /\ Len(block[p]) \in Nat \ {0}
<1>1. block[p] \in Seq(Element) /\ block[p] # <<>>
  BY BlocksAssumption DEF OrderInv, Has
<1> QED
  BY <1>1

LEMMA FieldsStay ==
  ASSUME FieldsInv, UNCHANGED <<block, m, loaded>>
  PROVE  FieldsInv'
<1>1. /\ \A q : IsLoaded(q)' <=> IsLoaded(q)
      /\ TypeAfter(Len(loaded))' = TypeAfter(Len(loaded))
      /\ Type' = Type
  BY DEF IsLoaded, TypeAfter, Type
<1>2. TypeSeenBy("ten")' = TypeSeenBy("ten") /\ TypeSeenBy("hpl")' = TypeSeenBy("hpl")
  BY DEF TypeSeenBy, TypeAfter, PositionOf, Type
<1>3. TenIs(m.ten, TypeSeenBy("ten"))' <=> TenIs(m.ten, TypeSeenBy("ten"))
  BY <1>2 DEF TenIs, Ten
<1>4. HplIs(m.v1, m.hp, TypeSeenBy("hpl"))' <=> HplIs(m.v1, m.hp, TypeSeenBy("hpl"))
  BY <1>2 DEF HplIs, Hpl
<1> QED
  BY <1>1, <1>3, <1>4 DEF FieldsInv

\* A crash changes nothing but the stage.
LEMMA CrashKeeps ==
  ASSUME OrderInv, FieldsInv, NEW p, Crash(p)
  PROVE  FieldsInv' /\ OrderInv' /\ block' = block /\ stage' = "crashed"
<1>1. UNCHANGED <<block, m, loaded>> /\ stage' = "crashed"
  BY DEF Crash
<1>2. FieldsInv'
  BY <1>1, FieldsStay
<1>3. OrderInv'
  BY <1>1 DEF OrderInv, Has, IsLoaded
<1> QED
  BY <1>1, <1>2, <1>3

LEMMA TenLeaves ==
  ASSUME OrderInv, FieldsInv, LoadTen
  PROVE  FieldsInv' /\ OrderInv' /\ CrashesOnShortLists'
<1> DEFINE stop == Stop(Ten, 10, 0)
           f == [m EXCEPT !.ten = [e \in 1 .. 10 |-> IF e < stop THEN Ten[e].v ELSE @[e]]]
           none == [e \in 1 .. 10 |-> Unset]
<1>1. Has("ten") /\ CanLoad("ten") /\ ~IsLoaded("ten") /\ stage = "loading"
  BY DEF LoadTen, CanLoad, Has
<1>2. Ten \in Seq(Element) /\ Len(Ten) \in Nat
  BY <1>1, ListsAre DEF SeekLists, Ten
<1>3. m.ten = none /\ DOMAIN m = FieldNames
  BY <1>1 DEF FieldsInv
<1>4. stop \in 1 .. 11
  <2>1. 10 \in Nat /\ 10 + 1 = 11
    OBVIOUS
  <2> QED
    BY <2>1, StopIs
<1>5. Room(Len(Ten)) \in Nat /\ (Room(Len(Ten)) >= 10 <=> Len(Ten) > 8)
  BY <1>2 DEF Room
<1> HIDE DEF none, stop
<1>6. ASSUME NEW g, Loads("ten", g), Leaves("ten", g)
      PROVE  FieldsInv' /\ OrderInv' /\ CrashesOnShortLists'
  <2>1. stage' # "crashed"
    BY <1>1, <1>6 DEF Loads
  <2> QED
    BY <1>6, <2>1, LoaderKeeps, Appended DEF CrashesOnShortLists
<1>7. CASE m.seektime # CodeOf("hplplus10") \/ Room(Len(Ten)) < 10
  <2>1. Loads("ten", m)
    BY <1>7 DEF LoadTen, Ignored
  <2>2. TenIs(m.ten, m.seektime)
    BY <1>3, <1>5, <1>7 DEF TenIs, none
  <2>3. Leaves("ten", m)
    BY <1>3, <2>2 DEF Leaves, Shared, Computed
  <2> QED
    BY <1>6, <2>1, <2>3
<1>8. CASE /\ ~(m.seektime # CodeOf("hplplus10") \/ Room(Len(Ten)) < 10)
           /\ stop <= 10 /\ stop > Len(Ten)
  <2>1. Crash("ten")
    BY <1>8 DEF LoadTen, stop
  <2>2. Len(Ten) = 9
    <3>1. Len(Ten) > 8
      BY <1>5, <1>8
    <3>2. stop <= 10 /\ stop > Len(Ten)
      BY <1>8
    <3>3. \A n, e \in Nat : n > 8 /\ e <= 10 /\ e > n => n = 9
      OBVIOUS
    <3>4. Len(Ten) \in Nat /\ stop \in Nat
      BY <1>2, <1>4
    <3> QED
      BY <3>1, <3>2, <3>3, <3>4, Zenon
  <2> QED
    BY <1>1, <2>1, <2>2, CrashKeeps DEF CrashesOnShortLists, Has, Ten
<1>9. CASE /\ ~(m.seektime # CodeOf("hplplus10") \/ Room(Len(Ten)) < 10)
           /\ ~(stop <= 10 /\ stop > Len(Ten))
  <2>1. Loads("ten", f)
    BY <1>9 DEF LoadTen, stop
  <2>2. /\ DOMAIN f = FieldNames
        /\ f.ten = [e \in 1 .. 10 |-> IF e < stop THEN Ten[e].v ELSE m.ten[e]]
        /\ \A q \in FieldNames \ {"ten"} : f[q] = m[q]
    BY <1>3 DEF FieldNames
  <2> HIDE DEF f
  <2>3. f.ten = [e \in 1 .. 10 |-> IF e < stop THEN Ten[e].v ELSE Unset]
    BY <1>3, <2>2 DEF none
  <2>4. stop <= 10 => stop <= Len(Ten)
    BY <1>2, <1>4, <1>9
  <2>5. TenIs(f.ten, m.seektime)
    BY <1>5, <1>9, <2>3, <2>4 DEF TenIs, stop
  <2>6. Leaves("ten", f)
    BY <2>2, <2>5 DEF Leaves, Shared, Computed, FieldNames
  <2> QED
    BY <1>6, <2>1, <2>6
<1> QED
  BY <1>7, <1>8, <1>9

LEMMA HplLeaves ==
  ASSUME OrderInv, FieldsInv, LoadHpl
  PROVE  FieldsInv' /\ OrderInv' /\ CrashesOnShortLists'
<1> DEFINE rest == Tail(Hpl)
           stop == Stop(rest, 5, 5)
           last == IF Hpl[6].v = -Msec THEN -1 ELSE Hpl[6].v
           hp   == [e \in 1 .. 5 |-> IF e >= stop THEN m.hp[e] ELSE IF e = 5 THEN last ELSE rest[e].v]
           one  == IF stop = 6 /\ last # -1 THEN last ELSE m.one
           f    == [m EXCEPT !.v1 = Hpl[1].v, !.hp = hp,
                             !.one = IF stop = 6 /\ last # -1 THEN last ELSE @]
           refused == ~TakesHpl \/ Hpl[1].t # "I" \/ Hpl[1].v < 0
<1>1. Has("hpl") /\ CanLoad("hpl") /\ ~IsLoaded("hpl") /\ stage = "loading"
  BY DEF LoadHpl, CanLoad, Has
<1>2. /\ Hpl \in Seq(Element) /\ Len(Hpl) \in Nat \ {0}
      /\ rest \in Seq(Element) /\ Len(rest) = Len(Hpl) - 1
      /\ \A e \in 1 .. Len(rest) : rest[e] = Hpl[e + 1] /\ rest[e] \in Element
      /\ Hpl[1] \in Element
  <2>1. Hpl \in Seq(Element) /\ Len(Hpl) \in Nat \ {0}
    BY <1>1, ListsAre DEF SeekLists, Hpl
  <2> HIDE DEF rest
  <2>2. rest \in Seq(Element) /\ Len(rest) = Len(Hpl) - 1
        /\ \A e \in 1 .. Len(rest) : rest[e] = Hpl[e + 1]
    BY <2>1 DEF rest
  <2> QED
    BY <2>1, <2>2
<1>3. DOMAIN m = FieldNames
  BY DEF FieldsInv
<1>4. /\ stop \in 1 .. 6
      /\ \A e \in 1 .. stop - 1 : ~IsBad(rest, e, 5)
      /\ stop <= 5 => IsBad(rest, stop, 5)
  <2>1. 5 \in Nat /\ 5 + 1 = 6
    OBVIOUS
  <2> HIDE DEF rest
  <2> QED
    BY <2>1, StopIs
<1> HIDE DEF rest, stop
<1>5. \A e \in 1 .. stop - 1 : e <= Len(rest) /\ rest[e].v # Unset
  <2>1. ASSUME NEW e \in 1 .. stop - 1
        PROVE  e \in 1 .. Len(rest)
    BY <1>2, <1>4, <2>1 DEF IsBad
  <2> QED
    BY <1>2, <2>1 DEF Element
<1>6. ASSUME NEW g, Loads("hpl", g), Leaves("hpl", g)
      PROVE  FieldsInv' /\ OrderInv' /\ CrashesOnShortLists'
  <2>1. stage' # "crashed"
    BY <1>1, <1>6 DEF Loads
  <2> QED
    BY <1>6, <2>1, LoaderKeeps, Appended DEF CrashesOnShortLists
<1> HIDE DEF last, hp, refused
<1>7. IF refused THEN Ignored("hpl")
      ELSE IF stop <= 5 /\ stop > Len(rest) THEN Crash("hpl")
      ELSE Loads("hpl", f)
  BY DEF LoadHpl, rest, stop, last, hp, refused
<1>8. CASE refused
  <2>1. Loads("hpl", m)
    BY <1>7, <1>8 DEF Ignored
  <2>2. HplIs(m.v1, m.hp, m.seektime)
    <3>1. Hpl[1].v \in Int
      BY <1>2 DEF Element
    <3> QED
      BY <1>8, <3>1 DEF HplIs, refused, TakesHpl
  <2>3. Leaves("hpl", m)
    BY <1>3, <2>2 DEF Leaves, Shared, Computed
  <2> QED
    BY <1>6, <2>1, <2>3
<1>9. CASE ~refused /\ stop <= 5 /\ stop > Len(rest)
  <2>1. Crash("hpl")
    BY <1>7, <1>9
  <2>2. Len(Hpl) < 6
    BY <1>2, <1>4, <1>9
  <2> QED
    BY <1>1, <2>1, <2>2, CrashKeeps DEF CrashesOnShortLists, Has, Hpl
<1>10. CASE ~refused /\ ~(stop <= 5 /\ stop > Len(rest))
  <2>1. Loads("hpl", f)
    BY <1>7, <1>10
  <2>2. /\ DOMAIN f = FieldNames
        /\ f.v1 = Hpl[1].v /\ f.hp = hp /\ f.one = one
        /\ \A q \in FieldNames \ {"v1", "hp", "one"} : f[q] = m[q]
    BY <1>3 DEF FieldNames
  <2> HIDE DEF f, one
  <2>3. f.one # Unset \/ f.one = m.one
    <3>1. CASE stop = 6 /\ last # -1
      <4>1. 5 \in 1 .. stop - 1
        BY <3>1
      <4>2. last = Hpl[6].v /\ rest[5] = Hpl[6]
        BY <1>2, <1>5, <3>1, <4>1 DEF last
      <4> QED
        BY <1>5, <2>2, <3>1, <4>1, <4>2 DEF one
    <3>2. CASE ~(stop = 6 /\ last # -1)
      BY <2>2, <3>2 DEF one
    <3> QED
      BY <3>1, <3>2
  <2>4. HplIs(f.v1, f.hp, m.seektime)
    <3>1. SUFFICES ASSUME \A e \in 1 .. 5 : ~IsBad(rest, e, 5)
                   PROVE  Known({f.v1, f.hp[1], f.hp[2], f.hp[3], f.hp[4]})
      BY DEF HplIs, rest
    <3>2. stop = 6
      BY <1>4, <3>1
    <3>3. \A e \in 1 .. 4 : hp[e] = rest[e].v /\ rest[e].v # Unset
      BY <1>5, <3>2 DEF hp
    <3>4. hp[1] # Unset /\ hp[2] # Unset /\ hp[3] # Unset /\ hp[4] # Unset
      BY <3>3
    <3>5. f.v1 # Unset
      BY <1>2, <2>2 DEF Element
    <3> QED
      BY <2>2, <3>4, <3>5 DEF Known
  <2>5. Leaves("hpl", f)
    <3>1. \A q \in Computed : f[q] # Unset \/ f[q] = m[q]
      BY <2>2, <2>3 DEF Computed, FieldNames
    <3> QED
      BY <2>2, <2>4, <3>1 DEF Leaves, Shared, Computed, FieldNames
  <2> QED
    BY <1>6, <2>1, <2>5
<1> QED
  BY <1>8, <1>9, <1>10

-----------------------------------------------------------------------------
(* Seeking *)

\* A search of a curve ends between two points.
LEMMA CurveAnswers ==
  ASSUME NEW s \in Seq(RowType), NEW n, n = Len(s), n > 1, \A i \in 1 .. n : s[i].ok,
         s[1].d = 0, s[n - 1].d # s[n].d, NEW dist \in Nat, NEW col
  PROVE  dm_mech_g1_seek_extracted(s, n, dist, col).ok
<1>1. n \in Nat \ {0} /\ n <= Len(s)
  OBVIOUS
<1>2. \A i \in 1 .. n : s[i] \in RowType /\ s[i].d \in Nat
  <2>1. \A i \in 1 .. n : s[i] \in RowType
    OBVIOUS
  <2> QED
    BY <2>1 DEF RowType
<1>3. CASE dist = 0
  BY <1>3 DEF dm_mech_g1_seek_extracted, Zeros, Row
<1>4. CASE dist # 0
  <2>1. PICK i \in 1 .. n : /\ Searched(s, n, dist, col) = Found(s, i, dist, col)
                            /\ dist <= s[i].d \/ i = n
                            /\ \A j \in 1 .. i - 1 : s[j].d < dist
    BY <1>1, SearchStops
  <2>2. \A j \in 1 .. i : s[j].ok
    OBVIOUS
  <2>3. dm_mech_g1_seek_extracted(s, n, dist, col) = Found(s, i, dist, col)
    BY <1>4, <2>1 DEF dm_mech_g1_seek_extracted
  <2>4. CASE s[i].d = dist
    BY <2>2, <2>3, <2>4 DEF Found, Row
  <2>5. CASE s[i].d # dist
    <3>1. i > 1
      <4>1. SUFFICES ASSUME i = 1
                     PROVE  FALSE
        OBVIOUS
      <4> QED
        BY <1>1, <1>4, <2>1, <4>1
    <3>2. i - 1 \in 1 .. n /\ i - 1 \in 1 .. i - 1 /\ s[i - 1].d < dist
      BY <1>1, <2>1, <3>1
    <3>3. s[i - 1].d # s[i].d
      BY <1>2, <2>1, <2>5, <3>2
    <3>4. Found(s, i, dist, col) = Interpolated(s[i - 1], s[i], dist, col)
      BY <2>2, <2>5, <3>1 DEF Found, Before
    <3> QED
      BY <2>2, <2>3, <3>2, <3>3, <3>4 DEF Interpolated, Row
  <2> QED
    BY <2>4, <2>5
<1> QED
  BY <1>3, <1>4

\* What comes after the seek function can only lose an answer of a write, while no
\* loader said whether the profile is dual.
LEMMA Settles ==
  ASSUME NEW dist, NEW heads \in BOOLEAN
  PROVE  /\ dm_seek_time_g1(dist, heads, "read").ok <=> Sought(dist, "read").ok
         /\ Sought(dist, "write").ok =>
              (dm_seek_time_g1(dist, heads, "write").ok <=>
                 m.dual # Unset \/ dm_seek_time_g1(dist, heads, "read").r = 0)
<1> DEFINE read  == Moved(Sought(dist, "read"), heads)
           write == Moved(Sought(dist, "write"), heads)
<1>1. \A x : Moved(x, heads).ok <=> x.ok
  BY DEF Moved, Time, Row
<1>2. \A x : Settled(x, "read") = x
  BY DEF Settled
<1>3. dm_seek_time_g1(dist, heads, "read") = read
      /\ dm_seek_time_g1(dist, heads, "write") = Settled(write, "write")
  BY <1>2 DEF dm_seek_time_g1
<1>4. \A x : x.ok => (Settled(x, "write").ok <=> m.dual # Unset \/ x.r = 0)
  BY DEF Settled, Junk, Time, Row
<1>5. m.dual = Unset => read = write
  <2>1. m.dual = Unset => Sought(dist, "read") = Sought(dist, "write")
    BY DEF Sought, Unset
  <2> QED
    BY <2>1
<1> HIDE DEF read, write
<1>6. (read.ok <=> Sought(dist, "read").ok) /\ (write.ok <=> Sought(dist, "write").ok)
  BY <1>1 DEF read, write
<1> QED
  BY <1>3, <1>4, <1>5, <1>6

\* The seek functions answer when what they read is known.
LEMMA Answers ==
  ASSUME NEW dist \in Nat, NEW rw
  PROVE  /\ m.seekfn \in {"linear", "curve"} /\ Known({m.one, m.avg, m.full}) =>
              Sought(dist, rw).ok
         /\ m.seekfn = "hplplus10" /\ (dist \in 1 .. 10 => m.ten[dist] # Unset)
              /\ Known({m.v1, m.hp[1], m.hp[2], m.hp[3], m.hp[4]}) => Sought(dist, rw).ok
         /\ m.seekfn = "hplplus10" /\ dist \in 1 .. 10 =>
              (Sought(dist, rw).ok <=> m.ten[dist] # Unset)
<1>1. \A t : Time(t).ok
  BY DEF Time, Row
<1>2. ~Junk.ok
  BY DEF Junk
<1>3. ASSUME Known({m.one, m.avg, m.full})
      PROVE  dm_mech_g1_seek_3pt_curve(dist).ok /\ dm_mech_g1_seek_3pt_line(dist).ok
  <2>1. Known({m.one}) /\ Known({m.one, m.avg}) /\ Known({m.avg, m.full})
    BY <1>3 DEF Known
  <2>2. dm_mech_g1_seek_3pt_curve(dist).ok
    BY <1>1, <1>3 DEF dm_mech_g1_seek_3pt_curve
  <2>3. dm_mech_g1_seek_3pt_line(dist).ok
    <3>1. CASE dist = 0
      BY <1>1, <3>1 DEF dm_mech_g1_seek_3pt_line
    <3>2. CASE dist = 1
      BY <1>1, <2>1, <3>2 DEF dm_mech_g1_seek_3pt_line
    <3>3. CASE dist > 1 /\ dist <= Numcyls(dist) \div 3
      BY <1>1, <2>1, <3>3 DEF dm_mech_g1_seek_3pt_line
    <3>4. CASE dist > 1 /\ ~(dist <= Numcyls(dist) \div 3)
      BY <1>1, <2>1, <3>4 DEF dm_mech_g1_seek_3pt_line
    <3> QED
      BY <3>1, <3>2, <3>3, <3>4
  <2> QED
    BY <2>2, <2>3
<1>4. dist \in 1 .. 10 =>
        (dm_mech_g1_seek_1st10_plus_hpl(dist).ok <=> m.ten[dist] # Unset)
  BY <1>1, <1>2 DEF dm_mech_g1_seek_1st10_plus_hpl, Known
<1>5. dist \notin 1 .. 10 /\ Known({m.v1, m.hp[1], m.hp[2], m.hp[3], m.hp[4]}) =>
        dm_mech_g1_seek_1st10_plus_hpl(dist).ok
  <2>1. RootPart(dist).ok /\ LinePart(dist).ok
    BY <1>1 DEF RootPart, LinePart
  <2>2. dist \notin 1 .. 10 => dist = 0 \/ dist > 10
    OBVIOUS
  <2> QED
    BY <1>1, <2>1, <2>2 DEF dm_mech_g1_seek_1st10_plus_hpl
<1>6. m.seekfn = "linear" => Sought(dist, rw) = dm_mech_g1_seek_3pt_line(dist)
  BY DEF Sought
<1>7. m.seekfn = "curve" => Sought(dist, rw) = dm_mech_g1_seek_3pt_curve(dist)
  BY DEF Sought
<1>8. m.seekfn = "hplplus10" => Sought(dist, rw) = dm_mech_g1_seek_1st10_plus_hpl(dist)
  BY DEF Sought
<1> QED
  BY <1>3, <1>4, <1>5, <1>6, <1>7, <1>8

\* Where only Seek type writes the shared field, those that need it find what it left.
LEMMA TypeAlone ==
  ASSUME OrderInv, ~Has("constant"), ~Has("curve"), NEW p \in NeedType, IsLoaded(p)
  PROVE  TypeSeenBy(p) = CodeOf(Type)
<1>1. DOMAIN loaded = 1 .. Len(loaded) /\ Len(loaded) \in Nat
  BY DEF OrderInv
<1>2. PlaceIn(loaded, p) \in 1 .. Len(loaded) /\ loaded[PlaceIn(loaded, p)] = p
  BY <1>1 DEF PlaceIn, IsLoaded
<1> DEFINE i == PlaceIn(loaded, p)
<1> HIDE DEF i
<1>3. PICK j \in 1 .. i - 1 : loaded[j] = "type"
  BY <1>2 DEF OrderInv, i
<1>4. i - 1 \in Nat /\ \A k \in 1 .. i - 1 : k \in 1 .. Len(loaded)
  BY <1>1, <1>2 DEF i
<1>5. ASSUME NEW k \in Writers(loaded, i - 1)
      PROVE  k = j
  <2>1. k \in 1 .. Len(loaded) /\ loaded[k] \in Shared /\ Has(loaded[k]) /\ j \in 1 .. Len(loaded)
    BY <1>4 DEF Writers, OrderInv
  <2>2. loaded[k] = "type"
    BY <2>1 DEF Shared
  <2> QED
    BY <1>3, <2>1, <2>2 DEF OrderInv
<1>6. j \in Writers(loaded, i - 1) /\ \A k \in Writers(loaded, i - 1) : k <= j
  BY <1>3, <1>5 DEF Writers, Shared
<1>7. LeftBy(block, loaded, i - 1) = CodeLeft(block, loaded[j])
  BY <1>4, <1>6, LeftAt
<1>8. CodeLeft(block, loaded[j]) = CodeOf(Type)
  BY <1>3 DEF CodeLeft, Type
<1> QED
  BY <1>7, <1>8, SharedField DEF FoundBy, i

\* A block that has what its type needs, and no field shared, is answered.
LEMMA CompleteAnswers ==
  ASSUME OrderInv, FieldsInv, \A p \in DOMAIN block : IsLoaded(p),
         Type \in DOMAIN Needs, Needs[Type] \subseteq DOMAIN block, GoodLists,
         ~Has("constant"), Type = "hplplus10" => ~Has("curve"),
         NEW dist \in Dists, NEW rw
  PROVE  Sought(dist, rw).ok
<1>1. dist \in Nat
  BY SeekAssumption
<1>2. m.seekfn = Type
  <2>1. IsLoaded("type")
    BY BlocksAssumption DEF OrderInv
  <2> QED
    BY <2>1 DEF FieldsInv
<1>3. Type \in {"linear", "curve", "hplplus10", "extracted"}
  BY DEF Needs
<1>4. CASE Type \in {"linear", "curve"}
  <2>1. Needs[Type] = Computed
    BY <1>4 DEF Needs, Computed
  <2>2. \A q \in Computed : m[q] # Unset
    BY <2>1 DEF FieldsInv
  <2>3. Known({m.one, m.avg, m.full})
    BY <2>2 DEF Computed, Known
  <2> QED
    BY <1>1, <1>2, <1>4, <2>3, Answers
<1>5. CASE Type = "extracted"
  <2>1. Has("curve") /\ IsLoaded("curve")
    BY <1>5 DEF Needs, Has
  <2>2. m.curve = block["curve"].rows
    BY <2>1 DEF FieldsInv
  <2>3. m.curve \in Seq(RowType)
    BY <2>1, <2>2, BlocksAssumption DEF OrderInv, Has, CurveRow, RowType
  <2>4. /\ Len(m.curve) > 1 /\ \A i \in 1 .. Len(m.curve) : m.curve[i].ok
        /\ m.curve[1].d = 0 /\ m.curve[Len(m.curve) - 1].d # m.curve[Len(m.curve)].d
    BY <2>1, <2>2, <2>3 DEF GoodLists
  <2>5. \A col : dm_mech_g1_seek_extracted(m.curve, Len(m.curve), dist, col).ok
    BY <1>1, <2>3, <2>4, CurveAnswers
  <2> QED
    BY <1>2, <1>5, <2>5 DEF Sought
<1>6. CASE Type = "hplplus10"
  <2>1. /\ Has("ten") /\ Has("hpl") /\ IsLoaded("ten") /\ IsLoaded("hpl")
        /\ ~Has("curve")
    BY <1>6 DEF Needs, Has
  <2>2. TypeSeenBy("ten") = CodeOf("hplplus10") /\ TypeSeenBy("hpl") = CodeOf("hplplus10")
    BY <1>6, <2>1, TypeAlone DEF NeedType
  <2>3. TenIs(m.ten, CodeOf("hplplus10")) /\ HplIs(m.v1, m.hp, CodeOf("hplplus10"))
    BY <2>1, <2>2 DEF FieldsInv
  <2>4. Ten \in Seq(Element) /\ Len(Ten) \in Nat
    BY <2>1, ListsAre DEF SeekLists, Ten
  <2>5. \A e \in 1 .. 10 : ~IsBad(Ten, e, 0)
    BY <2>1 DEF GoodLists
  <2>6. Len(Ten) >= 10 /\ \A e \in 1 .. 10 : Ten[e].v # Unset
    <3>1. \A e \in 1 .. 10 : e <= Len(Ten)
      BY <2>5 DEF IsBad
    <3>2. 10 \in 1 .. 10 /\ Len(Ten) >= 10
      BY <3>1
    <3>3. \A e \in 1 .. 10 : e \in 1 .. Len(Ten)
      BY <2>4, <3>1
    <3>4. \A e \in 1 .. 10 : Ten[e] \in Element
      BY <2>4, <3>3
    <3>5. \A x \in Element : x.v # Unset
      BY DEF Element
    <3> QED
      BY <3>2, <3>4, <3>5
  <2>7. Stop(Ten, 10, 0) = 11
    <3>1. 10 \in Nat /\ 10 + 1 = 11
      OBVIOUS
    <3>2. Stop(Ten, 10, 0) \in 1 .. 11 /\ (Stop(Ten, 10, 0) <= 10 => IsBad(Ten, Stop(Ten, 10, 0), 0))
      BY <3>1, StopIs
    <3> QED
      BY <2>5, <3>2
  <2>8. Room(Len(Ten)) >= 10
    BY <2>4, <2>6 DEF Room
  <2>9. m.ten = [e \in 1 .. 10 |-> IF e < 11 THEN Ten[e].v ELSE Unset]
    BY <2>3, <2>7, <2>8 DEF TenIs
  <2>10. \A e \in 1 .. 10 : m.ten[e] # Unset
    BY <2>6, <2>9
  <2>11. Known({m.v1, m.hp[1], m.hp[2], m.hp[3], m.hp[4]})
    BY <2>1, <2>3 DEF HplIs, GoodLists
  <2> QED
    BY <1>1, <1>2, <1>6, <2>10, <2>11, Answers
<1> QED
  BY <1>3, <1>4, <1>5, <1>6

\* One of the first ten seeks is answered from what its list left.
LEMMA TenAnswers ==
  ASSUME OrderInv, FieldsInv, \A p \in DOMAIN block : IsLoaded(p),
         Type = "hplplus10", Has("ten"), NEW dist \in 1 .. 10, NEW rw
  PROVE  Sought(dist, rw).ok <=>
           /\ TypeSeenBy("ten") = CodeOf("hplplus10")
           /\ Len(Ten) > 8
           /\ \A e \in 1 .. dist : Ten[e].t = "D" /\ Ten[e].v >= 0
<1> DEFINE code == TypeSeenBy("ten")
           stop == Stop(Ten, 10, 0)
<1>1. m.seekfn = "hplplus10"
  <2>1. IsLoaded("type")
    BY BlocksAssumption DEF OrderInv
  <2> QED
    BY <2>1 DEF FieldsInv
<1>2. Sought(dist, rw).ok <=> m.ten[dist] # Unset
  BY <1>1, Answers
<1>3. TenIs(m.ten, code)
  BY DEF FieldsInv, Has
<1>4. Ten \in Seq(Element) /\ Len(Ten) \in Nat
  BY ListsAre DEF SeekLists, Ten
<1>5. Room(Len(Ten)) >= 10 <=> Len(Ten) > 8
  BY <1>4 DEF Room
<1>6. /\ stop \in 1 .. 11
      /\ \A e \in 1 .. stop - 1 : ~IsBad(Ten, e, 0)
      /\ stop <= 10 => IsBad(Ten, stop, 0)
  <2>1. 10 \in Nat /\ 10 + 1 = 11
    OBVIOUS
  <2> QED
    BY <2>1, StopIs
<1> HIDE DEF code, stop
<1>7. CASE ~(code = CodeOf("hplplus10") /\ Len(Ten) > 8)
  <2>1. m.ten = [e \in 1 .. 10 |-> Unset]
    BY <1>3, <1>5, <1>7 DEF TenIs
  <2> QED
    BY <1>2, <1>7, <2>1 DEF code
<1>8. CASE code = CodeOf("hplplus10") /\ Len(Ten) > 8
  <2>1. /\ m.ten = [e \in 1 .. 10 |-> IF e < stop THEN Ten[e].v ELSE Unset]
        /\ stop <= 10 => stop <= Len(Ten)
    BY <1>3, <1>5, <1>8 DEF TenIs, stop
  <2>2. CASE dist < stop
    <3>1. \A e \in 1 .. dist : e \in 1 .. stop - 1
      BY <1>6, <2>2
    <3>2. \A e \in 1 .. dist : e <= Len(Ten) /\ Ten[e].t = "D" /\ ~(Ten[e].v < 0)
      BY <1>6, <3>1 DEF IsBad
    <3>3. \A e \in 1 .. dist : Ten[e] \in Element
      BY <1>4, <3>2
    <3>4. \A e \in 1 .. dist : Ten[e].v # Unset /\ Ten[e].v >= 0
      BY <3>2, <3>3 DEF Element
    <3>5. m.ten[dist] # Unset
      BY <2>1, <2>2, <3>4
    <3> QED
      BY <1>2, <1>8, <3>2, <3>4, <3>5 DEF code
  <2>3. CASE ~(dist < stop)
    <3>1. m.ten[dist] = Unset
      BY <2>1, <2>3
    <3>2. stop \in 1 .. dist /\ stop <= 10 /\ stop <= Len(Ten)
      BY <1>6, <2>1, <2>3
    <3>3. ~(Ten[stop].t = "D" /\ Ten[stop].v >= 0)
      <4>1. Ten[stop] \in Element
        BY <1>4, <3>2
      <4> QED
        BY <1>6, <3>2, <4>1 DEF IsBad, Element
    <3> QED
      BY <1>2, <3>1, <3>2, <3>3
  <2> QED
    BY <2>2, <2>3
<1> QED
  BY <1>7, <1>8

\* A seek is of the fields as they are.
SoughtInv ==
  stage = "sought" =>
    /\ seek \in [dist : Dists, heads : BOOLEAN, rw : {"read", "write"}]
    /\ took = dm_seek_time_g1(seek.dist, seek.heads, seek.rw)

SeekInv == OrderInv /\ FieldsInv /\ SoughtInv /\ CrashesOnShortLists

LEMMA SeekDecides == SeekInv => FieldsDecide
<1> SUFFICES ASSUME SeekInv
             PROVE  FieldsDecide
  OBVIOUS
<1>1. OrderInv /\ FieldsInv /\ SoughtInv /\ CrashesOnShortLists
  BY DEF SeekInv
<1>2. DOMAIN loaded = 1 .. Len(loaded)
  BY <1>1 DEF OrderInv
<1>3. SeekTypeOK
  <2>1. \A i, j \in DOMAIN loaded : loaded[i] = loaded[j] => i = j
    BY <1>1, <1>2 DEF OrderInv
  <2>2. \A i \in DOMAIN loaded : Has(loaded[i])
    BY <1>1, <1>2 DEF OrderInv
  <2>3. stage = "sought" => seek.dist \in Dists
    BY <1>1 DEF SoughtInv
  <2>4. stage \in {"loading", "ready", "sought", "crashed"}
    BY <1>1 DEF OrderInv
  <2>5. PICK k \in DOMAIN SeekTypes : Type = SeekTypes[k]
    BY <1>1, BlocksAssumption DEF OrderInv, Type
  <2>6. \A i \in DOMAIN SeekTypes : SeekTypes[i] # "none"
    BY DEF SeekTypes
  <2>7. m.seekfn \in {"none"} \cup { SeekTypes[i] : i \in DOMAIN SeekTypes }
        /\ (IsLoaded("type") <=> m.seekfn # "none")
    BY <1>1, <2>5, <2>6 DEF FieldsInv
  <2> QED
    BY <2>1, <2>2, <2>3, <2>4, <2>7 DEF SeekTypeOK
<1> DEFINE d == seek.dist
           h == seek.heads
           At(rw) == dm_seek_time_g1(d, h, rw)
<1>4. ASSUME stage = "sought"
      PROVE  /\ d \in Dists /\ d \in Nat /\ h \in BOOLEAN /\ seek.rw \in {"read", "write"}
             /\ took = At(seek.rw)
             /\ \A p \in DOMAIN block : IsLoaded(p)
             /\ m.dual # Unset <=> Has("curve")
             /\ At("read").ok <=> Sought(d, "read").ok
             /\ Sought(d, "write").ok => (At("write").ok <=> m.dual # Unset \/ At("read").r = 0)
  <2>1. /\ d \in Dists /\ h \in BOOLEAN /\ seek.rw \in {"read", "write"} /\ took = At(seek.rw)
    BY <1>1, <1>4 DEF SoughtInv
  <2>2. \A p \in DOMAIN block : IsLoaded(p)
    BY <1>1, <1>4 DEF OrderInv
  <2>3. m.dual # Unset <=> Has("curve")
    <3>1. IsLoaded("curve") <=> Has("curve")
      BY <1>1, <1>2, <2>2 DEF OrderInv, Has, IsLoaded
    <3>2. Has("curve") => block["curve"].dual \in {0, 1}
      BY <1>1, BlocksAssumption DEF OrderInv, Has
    <3> QED
      BY <1>1, <3>1, <3>2 DEF FieldsInv, Unset
  <2> QED
    BY <2>1, <2>2, <2>3, Settles, SeekAssumption
<1>5. CompleteReadsLoaded
  <2> SUFFICES ASSUME stage = "sought", Type \in DOMAIN Needs, Needs[Type] \subseteq DOMAIN block,
                      GoodLists, ~Has("constant"), Type = "hplplus10" => ~Has("curve")
               PROVE  took.ok <=> seek.rw = "read" \/ Has("curve") \/ At("read").r = 0
    BY DEF CompleteReadsLoaded
  <2>1. \A rw : Sought(d, rw).ok
    BY <1>1, <1>4, CompleteAnswers
  <2> HIDE DEF At, d, h
  <2> QED
    BY <1>4, <2>1
<1>6. FirstTenAnswered
  <2> SUFFICES ASSUME stage = "sought", Type = "hplplus10", Has("ten"), seek.rw = "read",
                      d \in 1 .. 10
               PROVE  took.ok <=> /\ TypeSeenBy("ten") = CodeOf("hplplus10")
                                  /\ Len(Ten) > 8
                                  /\ \A e \in 1 .. d : Ten[e].t = "D" /\ Ten[e].v >= 0
    BY DEF FirstTenAnswered
  <2>1. took.ok <=> Sought(d, "read").ok
    BY <1>4
  <2> QED
    BY <1>1, <1>4, <2>1, TenAnswers
<1> QED
  BY <1>1, <1>3, <1>5, <1>6 DEF FieldsDecide

\* The functions read nothing but the fields.
LEMMA SeekKept ==
  ASSUME NEW d, NEW h, NEW r, m' = m, seek' = [dist |-> d, heads |-> h, rw |-> r]
  PROVE  dm_seek_time_g1(seek.dist, seek.heads, seek.rw)' = dm_seek_time_g1(d, h, r)
<1>1. seek'.dist = d /\ seek'.heads = h /\ seek'.rw = r
  OBVIOUS
<1>2. Sought(seek.dist, seek.rw)' = Sought(d, r)
  BY <1>1 DEF Sought, dm_mech_g1_seek_const, dm_mech_g1_seek_3pt_line, dm_mech_g1_seek_3pt_curve,
              dm_mech_g1_seek_hpl, dm_mech_g1_seek_1st10_plus_hpl, RootPart, LinePart
<1>3. dm_seek_time_g1(seek.dist, seek.heads, seek.rw)'
        = Settled(Moved(Sought(seek.dist, seek.rw)', h), r)
  BY <1>1 DEF dm_seek_time_g1, Settled
<1> QED
  BY <1>2, <1>3 DEF dm_seek_time_g1

LEMMA SeekInitial == SeekInit => SeekInv
<1> SUFFICES ASSUME SeekInit
             PROVE  SeekInv
  OBVIOUS
<1>1. /\ block \in Blocks /\ loaded = <<>> /\ stage = "loading"
      /\ DOMAIN m = FieldNames
      /\ m.seekfn = "none" /\ m.seektime = Unset /\ m.dual = Unset
      /\ m.ten = [e \in 1 .. 10 |-> Unset]
  BY DEF SeekInit, FieldNames
<1>2. loaded \in Seq(Parameters) /\ Len(loaded) = 0 /\ DOMAIN loaded = {}
  BY <1>1
<1>3. \A q : ~IsLoaded(q)
  BY <1>2 DEF IsLoaded
<1>4. TypeAfter(Len(loaded)) = Unset
  BY <1>2 DEF TypeAfter
<1>5. FieldsInv
  BY <1>1, <1>3, <1>4 DEF FieldsInv
<1>6. OrderInv
  BY <1>1, <1>2 DEF OrderInv
<1> QED
  BY <1>1, <1>5, <1>6 DEF SeekInv, SoughtInv, CrashesOnShortLists

LEMMA SeekStep == SeekInv /\ [SeekNext]_seekVars => SeekInv'
<1> SUFFICES ASSUME SeekInv, [SeekNext]_seekVars
             PROVE  SeekInv'
  OBVIOUS
<1>1. OrderInv /\ FieldsInv /\ SoughtInv /\ CrashesOnShortLists
  BY DEF SeekInv
<1>2. ASSUME NEW p, NEW f, Loads(p, f)
      PROVE  SoughtInv' /\ CrashesOnShortLists'
  BY <1>2 DEF Loads, CanLoad, SoughtInv, CrashesOnShortLists
<1>3. CASE LoadType
  BY <1>1, <1>2, <1>3, TypeLeaves DEF SeekInv, LoadType
<1>4. CASE LoadTime("constant", "seektime")
  BY <1>1, <1>2, <1>4, ConstantLeaves DEF SeekInv, LoadTime
<1>5. ASSUME NEW q \in Computed, LoadTime(q, q)
      PROVE  SeekInv'
  BY <1>1, <1>2, <1>5, ComputedLeaves DEF SeekInv, LoadTime
<1>6. CASE LoadCurve
  BY <1>1, <1>2, <1>6, CurveLeaves DEF SeekInv, LoadCurve
<1>7. ASSUME LoadTen \/ LoadHpl
      PROVE  SeekInv'
  <2>1. FieldsInv' /\ OrderInv' /\ CrashesOnShortLists'
    BY <1>1, <1>7, TenLeaves, HplLeaves
  <2>2. stage' # "sought"
    BY <1>7 DEF LoadTen, LoadHpl, Ignored, Loads, CanLoad, Crash
  <2> QED
    BY <2>1, <2>2 DEF SeekInv, SoughtInv
<1>8. CASE Ready
  <2>1. /\ UNCHANGED <<block, m, loaded>> /\ stage' = "ready"
        /\ \A p \in DOMAIN block : IsLoaded(p)
    BY <1>8 DEF Ready
  <2>2. OrderInv'
    BY <1>1, <2>1 DEF OrderInv, Has, IsLoaded
  <2>3. FieldsInv'
    BY <1>1, <2>1, FieldsStay
  <2> QED
    BY <2>1, <2>2, <2>3 DEF SeekInv, SoughtInv, CrashesOnShortLists
<1>9. ASSUME NEW dist \in Dists, NEW heads \in BOOLEAN, NEW rw \in {"read", "write"},
             SeekTime(dist, heads, rw)
      PROVE  SeekInv'
  <2>1. /\ UNCHANGED <<block, m, loaded>> /\ stage = "ready" /\ stage' = "sought"
        /\ seek' = [dist |-> dist, heads |-> heads, rw |-> rw]
        /\ took' = dm_seek_time_g1(dist, heads, rw)
    BY <1>9 DEF SeekTime
  <2>2. OrderInv'
    BY <1>1, <2>1 DEF OrderInv, Has, IsLoaded
  <2>3. FieldsInv'
    BY <1>1, <2>1, FieldsStay
  <2>4. dm_seek_time_g1(seek.dist, seek.heads, seek.rw)' = dm_seek_time_g1(dist, heads, rw)
    BY <2>1, SeekKept
  <2>5. SoughtInv'
    BY <2>1, <2>4 DEF SoughtInv
  <2> QED
    BY <2>1, <2>2, <2>3, <2>5 DEF SeekInv, CrashesOnShortLists
<1>10. CASE UNCHANGED seekVars
  <2>1. UNCHANGED <<block, m, loaded, stage, seek, took>>
    BY <1>10 DEF seekVars
  <2>2. OrderInv'
    BY <1>1, <2>1 DEF OrderInv, Has, IsLoaded
  <2>3. FieldsInv'
    BY <1>1, <2>1, FieldsStay
  <2>4. SoughtInv'
    <3> SUFFICES ASSUME stage = "sought"
                 PROVE  /\ seek' \in [dist : Dists, heads : BOOLEAN, rw : {"read", "write"}]
                        /\ took' = dm_seek_time_g1(seek.dist, seek.heads, seek.rw)'
      BY <2>1 DEF SoughtInv
    <3>1. /\ seek \in [dist : Dists, heads : BOOLEAN, rw : {"read", "write"}]
          /\ took = dm_seek_time_g1(seek.dist, seek.heads, seek.rw)
      BY <1>1 DEF SoughtInv
    <3>2. PICK d, h, r : seek = [dist |-> d, heads |-> h, rw |-> r]
      BY <3>1
    <3>3. seek.dist = d /\ seek.heads = h /\ seek.rw = r
      BY <3>2
    <3>4. dm_seek_time_g1(seek.dist, seek.heads, seek.rw)' = dm_seek_time_g1(d, h, r)
      BY <2>1, <3>2, SeekKept
    <3> QED
      BY <2>1, <3>1, <3>3, <3>4
  <2> QED
    BY <1>1, <2>1, <2>2, <2>3, <2>4 DEF SeekInv, CrashesOnShortLists, Has, Ten, Hpl
<1>11. "one" \in Computed /\ "avg" \in Computed /\ "full" \in Computed
  BY DEF Computed
<1> QED
  BY <1>3, <1>4, <1>5, <1>6, <1>7, <1>8, <1>9, <1>10, <1>11 DEF SeekNext

\* A seek reads only what was loaded when its block has what its type needs, whatever
\* the order of loading, and one of the first ten is answered exactly when its list was
\* loaded while the shared field said so and nothing in it up to there is wrong; a NULL
\* slot is met only in short lists (mech_g1_load.c:323-403, mech_g1_seektime.c:42-392).
THEOREM FieldsAreDecided == SeekSpec => []FieldsDecide
  BY SeekInitial, SeekStep, SeekDecides, PTL DEF SeekSpec
=============================================================================

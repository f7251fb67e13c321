--------------------------- MODULE LayoutG2Proofs ---------------------------
(***************************************************************************)
(* The G2 layout for any raw files, of any length, and any calls:          *)
(* translations, the bounds and skews of tracks, and the assertions that   *)
(* fail, are what the lines of the file mean.                              *)
(*                                                                         *)
(* The loader's invariant says what each stage has stored of the file; the *)
(* calls then follow from two searches, that by halves of an LBN and the   *)
(* walk along the extents of a track.  Skews need an invariant of their    *)
(* own, of the sweep over the extents of which each is a turn.             *)
(***************************************************************************)
EXTENDS LayoutG2, MechServiceProofs

-----------------------------------------------------------------------------
(* The extents of a file *)

\* The table by LBN of a file, once it is read.
NodesOf(f) == [k \in DOMAIN f.extents |-> NodeOf(f.extents[k])]

\* Nodes in the order of their LBNs, without an LBN in common.
InOrder(map) ==
  /\ map \in Seq(Node)
  /\ \A j, k \in DOMAIN map : j < k => map[j].lbn + map[j].len <= map[k].lbn

HasLbn(n, lbn) == n.lbn <= lbn /\ lbn < n.lbn + n.len

LEMMA NodesType ==
  ASSUME NEW map \in Seq(Node), NEW k \in DOMAIN map
  PROVE  /\ map[k].lbn \in Nat /\ map[k].len \in Nat \ {0} /\ map[k].sector \in Nat
         /\ map[k].cyl \in Nat /\ map[k].head \in Nat
<1>1. map[k] \in Node
  OBVIOUS
<1> QED
  BY <1>1 DEF Node

\* A comparison says on which side of a node an LBN lies.
LEMMA NodeCmpIs ==
  ASSUME NEW map \in Seq(Node), NEW k \in DOMAIN map, NEW lbn \in Int
  PROVE  /\ NodeCmp(lbn, map[k]) = 0 <=> HasLbn(map[k], lbn)
         /\ NodeCmp(lbn, map[k]) < 0 <=> lbn < map[k].lbn
         /\ NodeCmp(lbn, map[k]) > 0 <=> map[k].lbn + map[k].len <= lbn
         /\ NodeCmp(lbn, map[k]) \in Int
<1>1. map[k].lbn \in Nat /\ map[k].len \in Nat \ {0}
  BY NodesType
<1> QED
  BY <1>1 DEF NodeCmp, HasLbn

\* The nodes before one that has an LBN end before it, and those after it begin after it.
LEMMA SidesOf ==
  ASSUME NEW map, InOrder(map), NEW e \in DOMAIN map, NEW k \in DOMAIN map,
         NEW lbn \in Int, HasLbn(map[e], lbn)
  PROVE  /\ k < e => map[k].lbn + map[k].len <= lbn
         /\ e < k => lbn < map[k].lbn
         /\ HasLbn(map[k], lbn) => k = e
<1>1. map \in Seq(Node)
  BY DEF InOrder
<1>2. /\ map[k].lbn \in Nat /\ map[k].len \in Nat \ {0}
      /\ map[e].lbn \in Nat /\ map[e].len \in Nat \ {0}
  BY <1>1, NodesType
<1>3. k \in Nat /\ e \in Nat
  BY <1>1
<1>4. /\ k < e => map[k].lbn + map[k].len <= map[e].lbn
      /\ e < k => map[e].lbn + map[e].len <= map[k].lbn
  BY DEF InOrder
<1>5. (k < e => map[k].lbn + map[k].len <= lbn) /\ (e < k => lbn < map[k].lbn)
  BY <1>2, <1>4 DEF HasLbn
<1>6. HasLbn(map[k], lbn) => ~(k < e) /\ ~(e < k)
  BY <1>2, <1>5 DEF HasLbn
<1> QED
  BY <1>3, <1>5, <1>6

-----------------------------------------------------------------------------
(* The binary search *)

NextTurn(l, lbn, f, n) == IF n = 0 THEN <<0, Len(l.ltop_map)>> ELSE Halve(l, lbn, f[n - 1])

\* Every turn of the search halves what the one before left.
LEMMA TurnsAre ==
  ASSUME NEW l, l.ltop_map \in Seq(Node), NEW lbn
  PROVE  /\ Turns(l, lbn)[0] = <<0, Len(l.ltop_map)>>
         /\ \A n \in 1 .. Len(l.ltop_map) : Turns(l, lbn)[n] = Halve(l, lbn, Turns(l, lbn)[n - 1])
<1> DEFINE N == Len(l.ltop_map)
           Ends(n) == \E f : f = [k \in 0 .. n |-> NextTurn(l, lbn, f, k)]
<1>0. N \in Nat
  OBVIOUS
<1>1. Ends(0)
  <2> DEFINE f == [k \in 0 .. 0 |-> <<0, N>>]
  <2>1. f = [k \in 0 .. 0 |-> NextTurn(l, lbn, f, k)]
    BY DEF NextTurn
  <2> QED
    BY <2>1
<1>2. ASSUME NEW n \in Nat, Ends(n) PROVE Ends(n + 1)
  <2>1. PICK f : f = [k \in 0 .. n |-> NextTurn(l, lbn, f, k)]
    BY <1>2
  <2> DEFINE g == [k \in 0 .. n + 1 |-> NextTurn(l, lbn, f, k)]
  <2>2. \A k \in 0 .. n : g[k] = f[k]
    BY <2>1
  <2> HIDE DEF g
  <2>3. \A k \in 0 .. n + 1 : NextTurn(l, lbn, g, k) = NextTurn(l, lbn, f, k)
    <3> SUFFICES ASSUME NEW k \in 0 .. n + 1, k # 0 PROVE g[k - 1] = f[k - 1]
      BY DEF NextTurn
    <3>1. k - 1 \in 0 .. n
      OBVIOUS
    <3> QED
      BY <2>2, <3>1
  <2>4. g = [k \in 0 .. n + 1 |-> NextTurn(l, lbn, g, k)]
    BY <2>3 DEF g
  <2> QED
    BY <2>4
<1> HIDE DEF Ends
<1> DEFINE T == { n \in Nat : Ends(n) }
<1>3. T = Nat
  <2>1. T \subseteq Nat /\ 0 \in T /\ \A n \in T : n + 1 \in T
    BY <1>1, <1>2
  <2> HIDE DEF T
  <2> QED
    BY <2>1, OneByOne
<1>4. \E f : f = [k \in 0 .. N |-> NextTurn(l, lbn, f, k)]
  <2>1. Ends(N)
    BY <1>0, <1>3
  <2> QED
    BY <2>1 DEF Ends
<1>5. Turns(l, lbn) = CHOOSE f : f = [k \in 0 .. N |-> NextTurn(l, lbn, f, k)]
  BY DEF Turns, NextTurn
<1> DEFINE p == Turns(l, lbn)
<1> HIDE DEF p, N
<1>6. p = [k \in 0 .. N |-> NextTurn(l, lbn, p, k)]
  BY <1>4, <1>5 DEF p
<1>7. \A k \in 0 .. N : p[k] = NextTurn(l, lbn, p, k)
  BY <1>6
<1>8. p[0] = <<0, N>>
  BY <1>0, <1>7 DEF NextTurn, N
<1>9. \A n \in 1 .. N : p[n] = Halve(l, lbn, p[n - 1])
  <2> SUFFICES ASSUME NEW n \in 1 .. N PROVE p[n] = Halve(l, lbn, p[n - 1])
    OBVIOUS
  <2>1. n \in 0 .. N /\ n # 0
    OBVIOUS
  <2> QED
    BY <1>7, <2>1 DEF NextTurn
<1> QED
  BY <1>8, <1>9 DEF p, N

\* The search has met e, or has e still before it and one element less for every turn.
Closing(l, e, n, b) ==
  \/ b = <<e - 1, e - 1>>
  \/ /\ b \in (0 .. Len(l.ltop_map)) \X (0 .. Len(l.ltop_map))
     /\ b[1] <= e - 1 /\ e - 1 < b[2] /\ (b[2] - b[1]) + n <= Len(l.ltop_map)

LEMMA MiddleBetween ==
  ASSUME NEW x \in Nat, NEW y \in Nat, x < y
  PROVE  (x + y) \div 2 \in x .. y - 1
OBVIOUS

\* One turn keeps that.
LEMMA HalveCloses ==
  ASSUME NEW l, InOrder(l.ltop_map), NEW lbn \in Int,
         NEW e \in DOMAIN l.ltop_map, HasLbn(l.ltop_map[e], lbn),
         NEW n \in Nat, NEW b, Closing(l, e, n, b)
  PROVE  Closing(l, e, n + 1, Halve(l, lbn, b))
<1> DEFINE map == l.ltop_map
           N   == Len(map)
           mid == (b[1] + b[2]) \div 2
           c   == NodeCmp(lbn, map[mid + 1])
<1>0. map \in Seq(Node) /\ N \in Nat /\ e \in 1 .. N
  BY DEF InOrder
<1>1. CASE b = <<e - 1, e - 1>>
  <2>1. Halve(l, lbn, b) = b
    BY <1>0, <1>1 DEF Halve
  <2> QED
    BY <1>1, <2>1 DEF Closing
<1>2. CASE b # <<e - 1, e - 1>>
  <2>1. /\ b[1] \in 0 .. N /\ b[2] \in 0 .. N /\ b = <<b[1], b[2]>>
        /\ b[1] <= e - 1 /\ e - 1 < b[2] /\ (b[2] - b[1]) + n <= N
    BY <1>2 DEF Closing
  <2> DEFINE x == b[1]
             y == b[2]
  <2>2. b[1] < b[2] /\ mid \in b[1] .. b[2] - 1 /\ mid + 1 \in 1 .. N
    <3>1. x \in Nat /\ y \in Nat /\ x < y /\ y <= N
      BY <1>0, <2>1
    <3>2. (x + y) \div 2 \in x .. y - 1
      BY <3>1, MiddleBetween
    <3> HIDE DEF x, y, N
    <3>3. mid \in x .. y - 1 /\ mid + 1 \in 1 .. N
      BY <1>0, <3>1, <3>2 DEF x, y
    <3> QED
      BY <3>1, <3>3 DEF x, y
  <2>3. mid + 1 \in DOMAIN map
    BY <1>0, <2>2
  <2>4. Halve(l, lbn, b) = IF c = 0 THEN <<mid, mid>> ELSE IF c < 0 THEN <<b[1], mid>> ELSE <<mid + 1, b[2]>>
    BY <2>1, <2>2 DEF Halve
  <2>5. /\ c = 0 <=> HasLbn(map[mid + 1], lbn)
        /\ c < 0 <=> lbn < map[mid + 1].lbn
        /\ c > 0 <=> map[mid + 1].lbn + map[mid + 1].len <= lbn
        /\ c \in Int
    BY <1>0, <2>3, NodeCmpIs
  <2>6. /\ mid + 1 < e => map[mid + 1].lbn + map[mid + 1].len <= lbn
        /\ e < mid + 1 => lbn < map[mid + 1].lbn
        /\ HasLbn(map[mid + 1], lbn) => mid + 1 = e
    BY <2>3, SidesOf
  <2>7. map[mid + 1].lbn \in Nat /\ map[mid + 1].len \in Nat \ {0}
    BY <1>0, <2>3, NodesType
  <2> HIDE DEF mid, c, N
  <2>8. CASE c = 0
    <3>1. mid = e - 1
      BY <1>0, <2>2, <2>5, <2>6, <2>8
    <3> QED
      BY <2>4, <2>8, <3>1 DEF Closing
  <2>9. CASE c < 0
    <3>1. ~(mid + 1 < e) /\ mid + 1 # e
      BY <2>5, <2>6, <2>7, <2>9 DEF HasLbn
    <3>2. Halve(l, lbn, b) = <<b[1], mid>>
      BY <2>4, <2>5, <2>9
    <3>3. mid \in 0 .. N /\ e - 1 < mid /\ (mid - b[1]) + (n + 1) <= N
      <4> HIDE DEF x, y
      <4>1. x \in 0 .. N /\ y \in 0 .. N /\ (y - x) + n <= N /\ mid \in x .. y - 1 /\ mid + 1 \in 1 .. N
        BY <2>1, <2>2 DEF x, y
      <4>2. mid \in 0 .. N /\ e - 1 < mid /\ (mid - x) + (n + 1) <= N
        BY <1>0, <3>1, <4>1
      <4> QED
        BY <4>2 DEF x
    <3> QED
      BY <2>1, <3>2, <3>3 DEF Closing, N
  <2>10. CASE c > 0
    <3>1. ~(e < mid + 1) /\ mid + 1 # e
      BY <2>5, <2>6, <2>7, <2>10 DEF HasLbn
    <3>2. Halve(l, lbn, b) = <<mid + 1, b[2]>>
      BY <2>4, <2>5, <2>10
    <3>3. mid + 1 \in 0 .. N /\ mid + 1 <= e - 1 /\ (b[2] - (mid + 1)) + (n + 1) <= N
      <4> HIDE DEF x, y
      <4>1. x \in 0 .. N /\ y \in 0 .. N /\ (y - x) + n <= N /\ mid \in x .. y - 1 /\ mid + 1 \in 1 .. N
        BY <2>1, <2>2 DEF x, y
      <4>2. mid + 1 \in 0 .. N /\ mid + 1 <= e - 1 /\ (y - (mid + 1)) + (n + 1) <= N
        BY <1>0, <3>1, <4>1
      <4> QED
        BY <4>2 DEF y
    <3> QED
      BY <2>1, <3>2, <3>3 DEF Closing, N
  <2> QED
    BY <2>5, <2>8, <2>9, <2>10
<1> QED
  BY <1>1, <1>2

\* The search meets the node that has the LBN, and none if no node has it.
LEMMA BsearchFinds ==
  ASSUME NEW l, InOrder(l.ltop_map), NEW lbn \in Int
  PROVE  /\ \A e \in DOMAIN l.ltop_map : HasLbn(l.ltop_map[e], lbn) => Bsearch(l, lbn) = e
         /\ Bsearch(l, lbn) # 0 => /\ Bsearch(l, lbn) \in DOMAIN l.ltop_map
                                   /\ HasLbn(l.ltop_map[Bsearch(l, lbn)], lbn)
<1> DEFINE N == Len(l.ltop_map)
           t == Turns(l, lbn)
           at == t[N][1] + 1
<1>0. l.ltop_map \in Seq(Node) /\ N \in Nat
  BY DEF InOrder
<1>1. Bsearch(l, lbn) = IF at \in DOMAIN l.ltop_map /\ NodeCmp(lbn, l.ltop_map[at]) = 0 THEN at ELSE 0
  BY DEF Bsearch
<1>2. t[0] = <<0, N>> /\ \A n \in 1 .. N : t[n] = Halve(l, lbn, t[n - 1])
  BY <1>0, TurnsAre
<1> HIDE DEF t
<1>3. ASSUME NEW e \in DOMAIN l.ltop_map, HasLbn(l.ltop_map[e], lbn) PROVE at = e
  <2> DEFINE T == { n \in Nat : n <= N => Closing(l, e, n, t[n]) }
  <2>0. e \in 1 .. N
    BY <1>0
  <2>1. 0 \in T
    <3> DEFINE b == t[0]
    <3>1. b = <<0, N>> /\ b \in (0 .. N) \X (0 .. N) /\ b[1] = 0 /\ b[2] = N
      BY <1>0, <1>2
    <3> HIDE DEF b
    <3>2. b[1] <= e - 1 /\ e - 1 < b[2] /\ (b[2] - b[1]) + 0 <= N
      BY <1>0, <2>0, <3>1
    <3>3. Closing(l, e, 0, b)
      BY <3>1, <3>2 DEF Closing
    <3> QED
      BY <3>3 DEF b
  <2>2. ASSUME NEW n \in T PROVE n + 1 \in T
    <3> SUFFICES ASSUME n + 1 <= N PROVE Closing(l, e, n + 1, t[n + 1])
      OBVIOUS
    <3>1. n \in Nat /\ n + 1 \in 1 .. N /\ (n + 1) - 1 = n
      BY <1>0
    <3>2. Closing(l, e, n, t[n])
      BY <1>0, <3>1
    <3>3. t[n + 1] = Halve(l, lbn, t[n])
      BY <1>2, <3>1
    <3> HIDE DEF T
    <3> QED
      BY <1>3, <3>1, <3>2, <3>3, HalveCloses
  <2>3. T = Nat
    <3>1. T \subseteq Nat
      OBVIOUS
    <3> HIDE DEF T
    <3> QED
      BY <2>1, <2>2, <3>1, OneByOne
  <2>4. Closing(l, e, N, t[N])
    BY <1>0, <2>3
  <2>5. t[N] = <<e - 1, e - 1>>
    BY <1>0, <2>0, <2>4 DEF Closing
  <2> QED
    BY <2>0, <2>5
<1> HIDE DEF at
<1>4. ASSUME NEW e \in DOMAIN l.ltop_map, HasLbn(l.ltop_map[e], lbn) PROVE Bsearch(l, lbn) = e
  BY <1>0, <1>1, <1>3, <1>4, NodeCmpIs
<1>5. Bsearch(l, lbn) # 0 => Bsearch(l, lbn) \in DOMAIN l.ltop_map /\ HasLbn(l.ltop_map[Bsearch(l, lbn)], lbn)
  BY <1>0, <1>1, NodeCmpIs
<1> QED
  BY <1>4, <1>5

-----------------------------------------------------------------------------
(* What the tables of a file say *)

\* The tables hold the file.
HoldsFile(l, f) ==
  /\ l.cyls = f.cyls /\ l.heads = f.heads /\ l.zones = f.zones
  /\ l.ltop_map = NodesOf(f)
  /\ l.ptol_map = ByTrack(l)

\* What WellLaid says, of the nodes.
LEMMA NodesAre ==
  ASSUME NEW f, WellLaid(f)
  PROVE  /\ f.cyls \in Nat \ {0} /\ f.heads \in Nat \ {0}
         /\ f.zones \in Seq(G2Zone) /\ f.extents \in Seq(Line) \ {<<>>}
         /\ InOrder(NodesOf(f)) /\ NodesOf(f) \in Seq(Node)
         /\ \A k \in DOMAIN NodesOf(f) :
              LET n == NodesOf(f)[k] IN
              /\ n = NodeOf(f.extents[k]) /\ n \in Node
              /\ n.cyl < f.cyls /\ n.head < f.heads /\ n.lbn + n.len < IntRange
              /\ \A x \in n.lbn .. n.lbn + n.len - 1 :
                   \E z \in DOMAIN f.zones : f.zones[z].lbnlow <= x /\ x <= f.zones[z].lbnhigh
              /\ \E z \in DOMAIN f.zones : f.zones[z].cyllow <= n.cyl /\ n.cyl <= f.zones[z].cylhigh
              /\ n.cyl <= f.zones[Len(f.zones)].cylhigh
              /\ \A z \in DOMAIN f.zones :
                   f.zones[z].cyllow <= n.cyl /\ n.cyl <= f.zones[z].cylhigh => n.sector + n.len <= f.zones[z].st
         /\ \A j, k \in DOMAIN NodesOf(f) : j < k /\ ShareTrack(NodesOf(f)[j], NodesOf(f)[k]) =>
                \/ NodesOf(f)[j].sector + NodesOf(f)[j].len <= NodesOf(f)[k].sector
                \/ NodesOf(f)[k].sector + NodesOf(f)[k].len <= NodesOf(f)[j].sector
         /\ \A z \in DOMAIN f.zones : f.zones[z].cylhigh < f.cyls
         /\ DOMAIN NodesOf(f) = DOMAIN f.extents
<1> DEFINE node == NodesOf(f)
<1>1. node = [k \in DOMAIN f.extents |-> NodeOf(f.extents[k])]
  BY DEF NodesOf
<1>2. node \in Seq(Node)
  BY <1>1 DEF WellLaid
<1>3. \A k \in DOMAIN node : node[k] \in Node /\ node[k] = NodeOf(f.extents[k])
  BY <1>1, <1>2
<1>4. DOMAIN node = DOMAIN f.extents
  BY <1>1
<1> HIDE DEF node
<1>5. InOrder(node)
  BY <1>1, <1>2 DEF WellLaid, InOrder
<1>6. /\ f.cyls \in Nat \ {0} /\ f.heads \in Nat \ {0}
      /\ f.zones \in Seq(G2Zone) /\ f.extents \in Seq(Line) \ {<<>>}
      /\ \A z \in DOMAIN f.zones : f.zones[z].cylhigh < f.cyls
  BY DEF WellLaid
<1>7. ASSUME NEW k \in DOMAIN node
      PROVE  LET n == node[k] IN
              /\ n.cyl < f.cyls /\ n.head < f.heads /\ n.lbn + n.len < IntRange
              /\ \A x \in n.lbn .. n.lbn + n.len - 1 :
                   \E z \in DOMAIN f.zones : f.zones[z].lbnlow <= x /\ x <= f.zones[z].lbnhigh
              /\ \E z \in DOMAIN f.zones : f.zones[z].cyllow <= n.cyl /\ n.cyl <= f.zones[z].cylhigh
              /\ n.cyl <= f.zones[Len(f.zones)].cylhigh
              /\ \A z \in DOMAIN f.zones :
                   f.zones[z].cyllow <= n.cyl /\ n.cyl <= f.zones[z].cylhigh => n.sector + n.len <= f.zones[z].st
  <2>1. LET n == node[k] IN
        /\ n.cyl < f.cyls /\ n.head < f.heads /\ 2 * (n.lbn + n.len) <= IntRange
        /\ \A x \in n.lbn .. n.lbn + n.len - 1 :
             \E z \in DOMAIN f.zones : f.zones[z].lbnlow <= x /\ x <= f.zones[z].lbnhigh
        /\ \E z \in DOMAIN f.zones : f.zones[z].cyllow <= n.cyl /\ n.cyl <= f.zones[z].cylhigh
        /\ n.cyl <= f.zones[Len(f.zones)].cylhigh
        /\ \A z \in DOMAIN f.zones :
             f.zones[z].cyllow <= n.cyl /\ n.cyl <= f.zones[z].cylhigh => n.sector + n.len <= f.zones[z].st
    BY <1>1 DEF WellLaid
  <2>2. node[k].lbn \in Nat /\ node[k].len \in Nat \ {0} /\ IntRange \in Nat
    BY <1>2, NodesType, G2Assumption
  <2>3. node[k].lbn + node[k].len < IntRange
    BY <2>1, <2>2
  <2> QED
    BY <2>1, <2>3
<1>8. \A j, k \in DOMAIN node : j < k /\ ShareTrack(node[j], node[k]) =>
          \/ node[j].sector + node[j].len <= node[k].sector
          \/ node[k].sector + node[k].len <= node[j].sector
  BY <1>1 DEF WellLaid
<1> QED
  BY <1>2, <1>3, <1>4, <1>5, <1>6, <1>7, <1>8 DEF node

\* The sectors with LBNs are those of the nodes.
LEMMA MeantIs ==
  ASSUME WellLaid(raw), HoldsFile(layout, raw)
  PROVE  /\ \A m \in Meant : \E e \in DOMAIN layout.ltop_map :
              /\ HasLbn(layout.ltop_map[e], m.lbn) /\ m.lbn \in Nat
              /\ m.pbn = Place(layout.ltop_map[e], m.lbn)
              /\ m = [lbn |-> m.lbn, pbn |-> m.pbn]
         /\ \A e \in DOMAIN layout.ltop_map, x \in Int :
              HasLbn(layout.ltop_map[e], x) =>
                [lbn |-> x, pbn |-> Place(layout.ltop_map[e], x)] \in Meant
<1> DEFINE map == layout.ltop_map
<1>1. map = NodesOf(raw) /\ map \in Seq(Node) /\ DOMAIN map = DOMAIN raw.extents
  BY NodesAre DEF HoldsFile
<1>2. \A k \in DOMAIN map : map[k] = NodeOf(raw.extents[k])
  BY <1>1, NodesAre
<1> HIDE DEF map
<1>3. ASSUME NEW k \in DOMAIN map
      PROVE  /\ map[k].lbn \in Nat /\ map[k].len \in Nat \ {0} /\ map[k].sector \in Nat
             /\ map[k].lbn = raw.extents[k].lbn /\ map[k].len = LenOf(raw.extents[k])
             /\ map[k].cyl = raw.extents[k].cyl /\ map[k].head = raw.extents[k].head
             /\ map[k].sector = raw.extents[k].sector
  <2>1. /\ map[k].lbn \in Nat /\ map[k].len \in Nat \ {0} /\ map[k].sector \in Nat
    BY <1>1, NodesType
  <2>2. map[k] = NodeOf(raw.extents[k])
    BY <1>2
  <2> QED
    BY <2>1, <2>2 DEF NodeOf
<1>4. ASSUME NEW m \in Meant
      PROVE  \E e \in DOMAIN map : /\ HasLbn(map[e], m.lbn) /\ m.lbn \in Nat
                                   /\ m.pbn = Place(map[e], m.lbn)
                                   /\ m = [lbn |-> m.lbn, pbn |-> m.pbn]
  <2>1. PICK e \in DOMAIN raw.extents : \E n \in 0 .. LenOf(raw.extents[e]) - 1 : m = MeantBy(raw.extents[e], n)
    BY DEF Meant, Extents
  <2>2. PICK n \in 0 .. LenOf(raw.extents[e]) - 1 : m = MeantBy(raw.extents[e], n)
    BY <2>1
  <2>3. e \in DOMAIN map
    BY <1>1
  <2>4. m = [lbn |-> map[e].lbn + n, pbn |-> [cyl |-> map[e].cyl, head |-> map[e].head, sector |-> map[e].sector + n]]
    BY <1>3, <2>2, <2>3 DEF MeantBy
  <2>5. m.lbn = map[e].lbn + n /\ m.pbn = [cyl |-> map[e].cyl, head |-> map[e].head, sector |-> map[e].sector + n]
    BY <2>4
  <2>6. n \in 0 .. map[e].len - 1
    BY <1>3, <2>3
  <2>7. HasLbn(map[e], m.lbn) /\ m.lbn \in Nat
    BY <1>3, <2>3, <2>5, <2>6 DEF HasLbn
  <2>8. map[e].sector + n = map[e].sector + (m.lbn - map[e].lbn)
    BY <1>3, <2>3, <2>5, <2>6
  <2>9. m.pbn = Place(map[e], m.lbn)
    BY <2>5, <2>8 DEF Place
  <2> QED
    BY <2>3, <2>4, <2>5, <2>7, <2>9
<1>5. ASSUME NEW e \in DOMAIN map, NEW x \in Int, HasLbn(map[e], x)
      PROVE  [lbn |-> x, pbn |-> Place(map[e], x)] \in Meant
  <2> DEFINE n == x - map[e].lbn
  <2>1. n \in 0 .. map[e].len - 1 /\ map[e].lbn + n = x
    BY <1>3, <1>5 DEF HasLbn
  <2>2. n \in 0 .. LenOf(raw.extents[e]) - 1 /\ e \in DOMAIN raw.extents
    BY <1>1, <1>3, <2>1
  <2>3. MeantBy(raw.extents[e], n) \in Meant
    BY <2>2 DEF Meant, Extents
  <2>4. MeantBy(raw.extents[e], n) = [lbn |-> x, pbn |-> Place(map[e], x)]
    BY <1>3, <2>1 DEF MeantBy, Place
  <2> QED
    BY <2>3, <2>4
<1> QED
  BY <1>4, <1>5 DEF map

\* A place is on the disk, below the sectors its track has, and its LBN in a zone.
LEMMA PlaceOnDisk ==
  ASSUME WellLaid(raw), HoldsFile(layout, raw),
         NEW e \in DOMAIN layout.ltop_map, NEW x \in Int, HasLbn(layout.ltop_map[e], x)
  PROVE  LET p == Place(layout.ltop_map[e], x) IN
         /\ p.cyl \in CylsOf(layout) /\ p.head \in HeadsOf(layout) /\ p.sector \in Nat
         /\ p = [cyl |-> p.cyl, head |-> p.head, sector |-> p.sector]
         /\ x \in Nat /\ x < IntRange /\ Covered(x) /\ CoveredCyl(p.cyl)
         /\ \A z \in DOMAIN raw.zones :
              raw.zones[z].cyllow <= p.cyl /\ p.cyl <= raw.zones[z].cylhigh => p.sector < raw.zones[z].st
<1> DEFINE n == layout.ltop_map[e]
           p == Place(n, x)
<1>1. layout.ltop_map = NodesOf(raw) /\ layout.cyls = raw.cyls /\ layout.heads = raw.heads
  BY DEF HoldsFile
<1>2. /\ n.lbn \in Nat /\ n.len \in Nat \ {0} /\ n.sector \in Nat /\ n.cyl \in Nat /\ n.head \in Nat
      /\ raw.cyls \in Nat /\ raw.heads \in Nat /\ IntRange \in Nat
  BY <1>1, NodesAre, NodesType, G2Assumption
<1>3. /\ n.cyl < raw.cyls /\ n.head < raw.heads /\ n.lbn + n.len < IntRange
      /\ \A y \in n.lbn .. n.lbn + n.len - 1 :
           \E z \in DOMAIN raw.zones : raw.zones[z].lbnlow <= y /\ y <= raw.zones[z].lbnhigh
      /\ \E z \in DOMAIN raw.zones : raw.zones[z].cyllow <= n.cyl /\ n.cyl <= raw.zones[z].cylhigh
      /\ \A z \in DOMAIN raw.zones :
           raw.zones[z].cyllow <= n.cyl /\ n.cyl <= raw.zones[z].cylhigh => n.sector + n.len <= raw.zones[z].st
  BY <1>1, NodesAre
<1>4. n.lbn <= x /\ x < n.lbn + n.len
  BY DEF HasLbn
<1>5. /\ p = [cyl |-> n.cyl, head |-> n.head, sector |-> n.sector + (x - n.lbn)]
      /\ p.cyl = n.cyl /\ p.head = n.head /\ p.sector = n.sector + (x - n.lbn)
  BY DEF Place
<1> HIDE DEF n, p
<1>6. p.sector \in Nat /\ p.sector < n.sector + n.len /\ x \in Nat /\ x < IntRange /\ x \in n.lbn .. n.lbn + n.len - 1
  BY <1>2, <1>3, <1>4, <1>5
<1>7. Covered(x) /\ CoveredCyl(p.cyl)
  BY <1>3, <1>5, <1>6 DEF Covered, CoveredCyl
<1>8. p.cyl \in CylsOf(layout) /\ p.head \in HeadsOf(layout)
  BY <1>1, <1>2, <1>3, <1>5 DEF CylsOf, HeadsOf
<1>9. \A z \in DOMAIN raw.zones :
        raw.zones[z].cyllow <= p.cyl /\ p.cyl <= raw.zones[z].cylhigh => p.sector < raw.zones[z].st
  <2> SUFFICES ASSUME NEW z \in DOMAIN raw.zones, raw.zones[z].cyllow <= p.cyl, p.cyl <= raw.zones[z].cylhigh
               PROVE  p.sector < raw.zones[z].st
    OBVIOUS
  <2>1. n.sector + n.len <= raw.zones[z].st
    BY <1>3, <1>5
  <2>2. raw.zones[z] \in G2Zone
    BY NodesAre
  <2>3. raw.zones[z].st \in Nat
    BY <2>2 DEF G2Zone
  <2> QED
    BY <1>2, <1>6, <2>1, <2>3
<1> QED
  BY <1>5, <1>6, <1>7, <1>8, <1>9 DEF n, p

\* The node of a track that has a sector.
HasSector(n, p) == n.sector <= p.sector /\ p.sector < n.sector + n.len

LEMMA LbnAtPlace ==
  ASSUME WellLaid(raw), HoldsFile(layout, raw),
         NEW e \in DOMAIN layout.ltop_map, NEW x \in Int, HasLbn(layout.ltop_map[e], x)
  PROVE  G2LbnAt(layout, Place(layout.ltop_map[e], x)) = x
<1> DEFINE map == layout.ltop_map
           p   == Place(map[e], x)
           has == { n \in layout.ptol_map[p.cyl][p.head] : n.sector <= p.sector /\ p.sector < n.sector + n.len }
<1>1. map = NodesOf(raw) /\ map \in Seq(Node)
  BY NodesAre DEF HoldsFile
<1>2. p.cyl \in CylsOf(layout) /\ p.head \in HeadsOf(layout) /\ p.sector \in Nat
  BY PlaceOnDisk
<1>3. /\ p.cyl = map[e].cyl /\ p.head = map[e].head /\ p.sector = map[e].sector + (x - map[e].lbn)
  BY DEF Place
<1>4. layout.ptol_map[p.cyl][p.head] = OnTrackOf(map, p.cyl, p.head)
  BY <1>2 DEF HoldsFile, ByTrack
<1> HIDE DEF map, p
<1>5. /\ map[e].lbn \in Nat /\ map[e].len \in Nat \ {0} /\ map[e].sector \in Nat
      /\ map[e].lbn <= x /\ x < map[e].lbn + map[e].len /\ e \in Nat
  BY <1>1, NodesType DEF HasLbn, map
<1>6. HasSector(map[e], p)
  BY <1>3, <1>5 DEF HasSector
<1>7. ASSUME NEW k \in DOMAIN map, HasSector(map[k], p), ShareTrack(map[k], map[e]) PROVE map[k] = map[e]
  <2>1. /\ map[k].lbn \in Nat /\ map[k].len \in Nat \ {0} /\ map[k].sector \in Nat /\ k \in Nat
    BY <1>1, NodesType
  <2>2. \A g, h \in DOMAIN map : g < h /\ ShareTrack(map[g], map[h]) =>
          \/ map[g].sector + map[g].len <= map[h].sector
          \/ map[h].sector + map[h].len <= map[g].sector
    BY <1>1, NodesAre
  <2>3. ShareTrack(map[e], map[k])
    BY <1>7 DEF ShareTrack
  <2>4. e \in DOMAIN map
    BY DEF map
  <2>5. ~(k < e)
    BY <1>2, <1>5, <1>6, <1>7, <2>1, <2>2, <2>4 DEF HasSector
  <2>6. ~(e < k)
    BY <1>2, <1>5, <1>6, <1>7, <2>1, <2>2, <2>3, <2>4 DEF HasSector
  <2> QED
    BY <1>5, <2>1, <2>5, <2>6
<1>8. has = {map[e]}
  <2>1. map[e] \in has
    <3>1. map[e] \in OnTrackOf(map, p.cyl, p.head)
      BY <1>3 DEF OnTrackOf, map
    <3> QED
      BY <1>4, <1>6, <3>1 DEF HasSector
  <2>2. ASSUME NEW n \in has PROVE n = map[e]
    <3>1. n \in OnTrackOf(map, p.cyl, p.head) /\ HasSector(n, p)
      BY <1>4 DEF HasSector
    <3>2. PICK k \in DOMAIN map : n = map[k]
      BY <3>1 DEF OnTrackOf
    <3>3. n.cyl = p.cyl /\ n.head = p.head
      BY <3>1 DEF OnTrackOf
    <3>4. ShareTrack(map[k], map[e])
      BY <1>3, <3>2, <3>3 DEF ShareTrack
    <3> QED
      BY <1>7, <3>1, <3>2, <3>4
  <2> QED
    BY <2>1, <2>2
<1> HIDE DEF has
<1>9. (CHOOSE n \in has : \A m \in has : n.sector <= m.sector) = map[e]
  BY <1>5, <1>8
<1>10. G2LbnAt(layout, p) = map[e].lbn + (p.sector - map[e].sector)
  BY <1>8, <1>9 DEF G2LbnAt, has
<1> QED
  BY <1>3, <1>5, <1>10 DEF p, map

\* Sectors of the disk.
DiskPlaces(l) == [cyl : CylsOf(l), head : HeadsOf(l), sector : Int]

\* A sector of the disk is the place of the LBN it is translated to, or no place at all.
LEMMA LbnAtIs ==
  ASSUME WellLaid(raw), HoldsFile(layout, raw), NEW p \in DiskPlaces(layout)
  PROVE  \/ \E e \in DOMAIN layout.ltop_map : \E x \in Nat :
              /\ HasLbn(layout.ltop_map[e], x) /\ p = Place(layout.ltop_map[e], x)
              /\ G2LbnAt(layout, p) = x
              /\ [lbn |-> x, pbn |-> p] \in Meant
         \/ /\ G2LbnAt(layout, p) = DM_NX
            /\ \A m \in Meant : m.pbn # p
<1> DEFINE map == layout.ltop_map
           has == { n \in layout.ptol_map[p.cyl][p.head] : n.sector <= p.sector /\ p.sector < n.sector + n.len }
<1>1. map = NodesOf(raw) /\ map \in Seq(Node)
  BY NodesAre DEF HoldsFile
<1>2. /\ p.cyl \in CylsOf(layout) /\ p.head \in HeadsOf(layout) /\ p.sector \in Int
      /\ p = [cyl |-> p.cyl, head |-> p.head, sector |-> p.sector]
  BY DEF DiskPlaces
<1>4. layout.ptol_map[p.cyl][p.head] = OnTrackOf(map, p.cyl, p.head)
  BY <1>2 DEF HoldsFile, ByTrack
<1> HIDE DEF map
<1>5. CASE has = {}
  <2>1. G2LbnAt(layout, p) = DM_NX
    BY <1>5 DEF G2LbnAt
  <2>2. ASSUME NEW m \in Meant, m.pbn = p PROVE FALSE
    <3>1. PICK e \in DOMAIN map : HasLbn(map[e], m.lbn) /\ m.lbn \in Nat /\ p = Place(map[e], m.lbn)
      BY <2>2, MeantIs DEF map
    <3>2. /\ map[e].lbn \in Nat /\ map[e].len \in Nat \ {0} /\ map[e].sector \in Nat
      BY <1>1, NodesType
    <3>3. p.cyl = map[e].cyl /\ p.head = map[e].head /\ p.sector = map[e].sector + (m.lbn - map[e].lbn)
      BY <3>1 DEF Place
    <3>4. map[e].sector <= p.sector /\ p.sector < map[e].sector + map[e].len
      BY <3>1, <3>2, <3>3 DEF HasLbn
    <3>5. map[e] \in OnTrackOf(map, p.cyl, p.head)
      BY <3>3 DEF OnTrackOf
    <3> QED
      BY <1>4, <1>5, <3>4, <3>5
  <2> QED
    BY <2>1, <2>2
<1>6. CASE has # {}
  <2>1. PICK n \in has : TRUE
    BY <1>6
  <2>2. n \in OnTrackOf(map, p.cyl, p.head) /\ n.sector <= p.sector /\ p.sector < n.sector + n.len
    BY <1>4, <2>1
  <2>3. PICK e \in DOMAIN map : n = map[e]
    BY <2>2 DEF OnTrackOf
  <2>4. n.cyl = p.cyl /\ n.head = p.head
    BY <2>2 DEF OnTrackOf
  <2>5. n.lbn \in Nat /\ n.len \in Nat \ {0} /\ n.sector \in Nat
    BY <1>1, <2>3, NodesType
  <2> DEFINE x == n.lbn + (p.sector - n.sector)
  <2>6. x \in Nat /\ n.lbn <= x /\ x < n.lbn + n.len /\ n.sector + (x - n.lbn) = p.sector
    BY <1>2, <2>2, <2>5
  <2> HIDE DEF x
  <2>7. HasLbn(map[e], x) /\ p = Place(map[e], x)
    BY <1>2, <2>3, <2>4, <2>6 DEF HasLbn, Place
  <2>8. G2LbnAt(layout, p) = x
    <3>1. x \in Int /\ e \in DOMAIN layout.ltop_map /\ HasLbn(layout.ltop_map[e], x)
      BY <2>6, <2>7 DEF map
    <3>2. G2LbnAt(layout, Place(layout.ltop_map[e], x)) = x
      BY <3>1, LbnAtPlace
    <3> QED
      BY <2>7, <3>2 DEF map
  <2>9. [lbn |-> x, pbn |-> p] \in Meant
    BY <2>6, <2>7, MeantIs DEF map
  <2> QED
    BY <2>6, <2>7, <2>8, <2>9 DEF map
<1> QED
  BY <1>5, <1>6

\* The first zone of those that have something.
LEMMA FirstOfIs ==
  ASSUME NEW zs, zs \subseteq Nat \ {0}
  PROVE  (FirstOf(zs) = 0 <=> zs = {}) /\ (zs # {} => FirstOf(zs) \in zs)
<1>1. CASE zs = {}
  BY <1>1 DEF FirstOf
<1>2. CASE zs # {}
  <2>1. \E m \in zs : \A k \in zs : m <= k
    <3>1. zs \subseteq Nat
      OBVIOUS
    <3> QED
      BY <1>2, <3>1, LeastOf
  <2>2. FirstOf(zs) \in zs
    BY <1>2, <2>1 DEF FirstOf
  <2> QED
    BY <1>2, <2>2
<1> QED
  BY <1>1, <1>2

LEMMA ZonesAre ==
  ASSUME WellLaid(raw), HoldsFile(layout, raw)
  PROVE  /\ \A lbn : find_zone_lbn(layout, lbn) = 0 <=> ~Covered(lbn)
         /\ \A p : find_zone_pbn(layout, p) = 0 <=> ~CoveredCyl(p.cyl)
         /\ \A p : find_zone_pbn(layout, p) # 0 =>
              LET z == find_zone_pbn(layout, p) IN
              /\ z \in DOMAIN raw.zones /\ layout.zones[z] = raw.zones[z] /\ raw.zones[z] \in G2Zone
              /\ raw.zones[z].cyllow <= p.cyl /\ p.cyl <= raw.zones[z].cylhigh
<1>1. layout.zones = raw.zones /\ raw.zones \in Seq(G2Zone)
  BY NodesAre DEF HoldsFile
<1>2. DOMAIN raw.zones \subseteq Nat \ {0} /\ \A z \in DOMAIN raw.zones : raw.zones[z] \in G2Zone
  BY <1>1
<1>3. ASSUME NEW lbn PROVE find_zone_lbn(layout, lbn) = 0 <=> ~Covered(lbn)
  <2> DEFINE zs == { z \in DOMAIN raw.zones : raw.zones[z].lbnlow <= lbn /\ lbn <= raw.zones[z].lbnhigh }
  <2>1. find_zone_lbn(layout, lbn) = FirstOf(zs)
    BY <1>1 DEF find_zone_lbn
  <2>2. zs \subseteq Nat \ {0} /\ (zs = {} <=> ~Covered(lbn))
    BY <1>2 DEF Covered
  <2> HIDE DEF zs
  <2> QED
    BY <2>1, <2>2, FirstOfIs
<1>4. ASSUME NEW p
      PROVE  /\ find_zone_pbn(layout, p) = 0 <=> ~CoveredCyl(p.cyl)
             /\ find_zone_pbn(layout, p) # 0 =>
                  LET z == find_zone_pbn(layout, p) IN
                  /\ z \in DOMAIN raw.zones /\ layout.zones[z] = raw.zones[z] /\ raw.zones[z] \in G2Zone
                  /\ raw.zones[z].cyllow <= p.cyl /\ p.cyl <= raw.zones[z].cylhigh
  <2> DEFINE zs == { z \in DOMAIN raw.zones : raw.zones[z].cyllow <= p.cyl /\ p.cyl <= raw.zones[z].cylhigh }
  <2>1. find_zone_pbn(layout, p) = FirstOf(zs)
    BY <1>1 DEF find_zone_pbn
  <2>2. zs \subseteq Nat \ {0} /\ (zs = {} <=> ~CoveredCyl(p.cyl))
    BY <1>2 DEF CoveredCyl
  <2>3. (FirstOf(zs) = 0 <=> zs = {}) /\ (zs # {} => FirstOf(zs) \in zs)
    BY <2>2, FirstOfIs
  <2>4. \A z \in zs : z \in DOMAIN raw.zones /\ raw.zones[z].cyllow <= p.cyl /\ p.cyl <= raw.zones[z].cylhigh
    OBVIOUS
  <2> HIDE DEF zs
  <2> QED
    BY <1>1, <1>2, <2>1, <2>2, <2>3, <2>4
<1> QED
  BY <1>3, <1>4

-----------------------------------------------------------------------------
(* Loading *)

\* struct dm_layout_g2, and nothing else.
Shape(l) ==
  l = [cyls |-> l.cyls, heads |-> l.heads, zones |-> l.zones, ltop_map |-> l.ltop_map,
       ptol_map |-> l.ptol_map, defects |-> l.defects, skew |-> l.skew, first |-> l.first]

\* The lines of f read so far.
ReadOf(l, f) ==
  /\ Shape(l)
  /\ l.cyls = f.cyls /\ l.heads = f.heads /\ l.zones = f.zones
  /\ l.ltop_map \in Seq(Node) /\ Len(l.ltop_map) <= Len(f.extents)
  /\ \A k \in DOMAIN l.ltop_map : l.ltop_map[k] = NodeOf(f.extents[k])

Sorted(l) == l.ptol_map = ByTrack(l)

\* The skews after the extents before e.
SkewsUpTo(l, f, e, z) ==
  /\ l.skew \in [CylsOf(l) -> 0 .. Circle - 1]
  /\ l.first \in [CylsOf(l) -> 0 .. Len(f.extents)]
  /\ \A c \in CylsOf(l) : l.first[c] <= e
  /\ e \in 1 .. Len(l.ltop_map) + 1 /\ z \in DOMAIN f.zones
  /\ \A k \in DOMAIN l.ltop_map : k < e => l.first[l.ltop_map[k].cyl] \in 1 .. k

\* What loading has done at every stage.
LoadInv ==
  /\ raw \in Files
  /\ stage \in {"extents", "defects", "skews", "loaded", "overrun"}
  /\ ReadOf(layout, raw) /\ SkewsUpTo(layout, raw, ext, zi)
  /\ stage \in {"defects", "skews", "loaded"} => Len(layout.ltop_map) = Len(raw.extents) /\ Sorted(layout)
  /\ stage \in {"extents", "defects"} => ext = 1
  /\ stage = "loaded" => ext = Len(layout.ltop_map) + 1

LEMMA ReadHolds ==
  ASSUME NEW l, NEW f, WellLaid(f), ReadOf(l, f), Sorted(l), Len(l.ltop_map) = Len(f.extents)
  PROVE  HoldsFile(l, f)
<1>1. NodesOf(f) \in Seq(Node) /\ DOMAIN NodesOf(f) = DOMAIN f.extents
  BY NodesAre
<1>2. l.ltop_map \in Seq(Node) /\ Len(l.ltop_map) = Len(NodesOf(f))
  <2>1. f.extents \in Seq(Line)
    BY NodesAre
  <2>2. DOMAIN NodesOf(f) = 1 .. Len(NodesOf(f)) /\ Len(NodesOf(f)) \in Nat
    BY <1>1
  <2>3. DOMAIN f.extents = 1 .. Len(f.extents) /\ Len(f.extents) \in Nat
    BY <2>1
  <2>4. Len(NodesOf(f)) = Len(f.extents)
    <3> DEFINE a == Len(NodesOf(f))
               b == Len(f.extents)
    <3>1. a \in Nat /\ b \in Nat /\ 1 .. a = 1 .. b
      BY <1>1, <2>2, <2>3
    <3> HIDE DEF a, b
    <3>2. (a # 0 => a \in 1 .. b) /\ (b # 0 => b \in 1 .. a)
      BY <3>1
    <3>3. a = b
      BY <3>1, <3>2
    <3> QED
      BY <3>3 DEF a, b
  <2> QED
    BY <2>4 DEF ReadOf
<1>3. DOMAIN l.ltop_map = DOMAIN NodesOf(f)
  BY <1>1, <1>2
<1>4. \A k \in DOMAIN l.ltop_map : l.ltop_map[k] = NodesOf(f)[k]
  BY <1>1, <1>3 DEF ReadOf, NodesOf
<1>5. l.ltop_map = NodesOf(f)
  BY <1>1, <1>2, <1>3, <1>4
<1> QED
  BY <1>5 DEF HoldsFile, ReadOf, Sorted

LEMMA LoadInit ==
  G2Init => LoadInv
<1> SUFFICES ASSUME G2Init PROVE LoadInv
  OBVIOUS
<1>1. raw \in Files /\ WellLaid(raw)
  BY FilesAssumption DEF G2Init
<1>2. raw.cyls \in Nat \ {0} /\ raw.extents \in Seq(Line) \ {<<>>} /\ raw.zones \in Seq(G2Zone)
  BY <1>1, NodesAre
<1>3. /\ Shape(layout) /\ layout.cyls = raw.cyls /\ layout.heads = raw.heads /\ layout.zones = raw.zones
      /\ layout.ltop_map = <<>> /\ layout.skew = [c \in CylsOf(raw) |-> 0]
      /\ layout.first = [c \in CylsOf(raw) |-> IF c = 0 THEN 1 ELSE 0]
  BY DEF G2Init, Shape
<1>4. CylsOf(layout) = CylsOf(raw) /\ Len(raw.extents) \in Nat \ {0}
  BY <1>2, <1>3 DEF CylsOf
<1>5. ReadOf(layout, raw)
  BY <1>2, <1>3, <1>4 DEF ReadOf
<1>6. 1 \in DOMAIN raw.zones
  <2>1. raw.zones # <<>>
    <3>1. 1 \in DOMAIN NodesOf(raw)
      BY <1>1, <1>2, <1>4, NodesAre
    <3>2. \E z \in DOMAIN raw.zones : TRUE
      BY <1>1, <3>1, NodesAre
    <3> QED
      BY <3>2
  <2> QED
    BY <1>2, <2>1
<1>7. SkewsUpTo(layout, raw, ext, zi)
  <2>1. ext = 1 /\ zi = 1
    BY DEF G2Init
  <2>2. layout.skew \in [CylsOf(layout) -> 0 .. Circle - 1]
    BY <1>3, <1>4, CircleAssumption
  <2>3. layout.first \in [CylsOf(layout) -> 0 .. Len(raw.extents)] /\ \A c \in CylsOf(layout) : layout.first[c] <= 1
    BY <1>3, <1>4
  <2> QED
    BY <1>3, <1>6, <2>1, <2>2, <2>3 DEF SkewsUpTo
<1> QED
  BY <1>1, <1>5, <1>7 DEF LoadInv, G2Init

\* Skews stay on the circle whatever is added to them.
LEMMA AddedOnCircle ==
  ASSUME NEW l, l.cyls \in Nat \ {0}, NEW s \in [CylsOf(l) -> 0 .. Circle - 1],
         NEW c \in CylsOf(l), NEW a \in Nat
  PROVE  Added(l, s, c, a) \in [CylsOf(l) -> 0 .. Circle - 1]
<1>1. CASE c + 1 \in CylsOf(l)
  <2>1. s[c + 1] \in 0 .. Circle - 1 /\ Circle \in Nat \ {0}
    BY <1>1, CircleAssumption
  <2>2. s[c + 1] + a \in Int
    BY <2>1
  <2>3. (s[c + 1] + a) % Circle \in 0 .. Circle - 1
    BY <2>1, <2>2, DivisionIs
  <2> QED
    BY <1>1, <2>3 DEF Added
<1>2. CASE c + 1 \notin CylsOf(l)
  BY <1>2 DEF Added
<1> QED
  BY <1>1, <1>2

LEMMA BegunOnCircle ==
  ASSUME NEW l, l.cyls \in Nat \ {0}, l.skew \in [CylsOf(l) -> 0 .. Circle - 1],
         NEW c \in CylsOf(l), NEW z, l.zones[z] \in G2Zone
  PROVE  Begun(l, c, z) \in [CylsOf(l) -> 0 .. Circle - 1]
<1>1. l.zones[z].zskew \in 0 .. Circle - 1
  BY DEF G2Zone
<1> QED
  BY <1>1 DEF Begun

\* The file, and what is read of it, are as before.
LEMMA LoadKept ==
  ASSUME LoadInv, UNCHANGED <<raw, layout, ext, zi>>,
         stage' = stage \/ stage' = "overrun" \/ (stage = "defects" /\ stage' = "skews")
                 \/ (stage = "skews" /\ stage' = "loaded" /\ ext > Len(layout.ltop_map))
  PROVE  LoadInv'
<1>1. ext \in 1 .. Len(layout.ltop_map) + 1 /\ Len(layout.ltop_map) \in Nat
  BY DEF LoadInv, SkewsUpTo, ReadOf
<1>2. stage' \in {"extents", "defects", "skews", "loaded", "overrun"}
  BY DEF LoadInv
<1>3. ReadOf(layout', raw') /\ SkewsUpTo(layout', raw', ext', zi') /\ raw' \in Files
  BY DEF LoadInv
<1>4. stage' \in {"defects", "skews", "loaded"} => Len(layout'.ltop_map) = Len(raw'.extents) /\ Sorted(layout')
  BY DEF LoadInv
<1>5. stage' \in {"extents", "defects"} => ext' = 1
  BY DEF LoadInv
<1>6. stage' = "loaded" => ext' = Len(layout'.ltop_map) + 1
  BY <1>1 DEF LoadInv
<1> QED
  BY <1>2, <1>3, <1>4, <1>5, <1>6 DEF LoadInv

LEMMA ReadExtentKeeps ==
  ASSUME LoadInv, ReadExtent
  PROVE  LoadInv'
<1> DEFINE map == layout.ltop_map
           n   == NodeOf(raw.extents[Len(map) + 1])
<1>1. /\ WellLaid(raw) /\ ReadOf(layout, raw) /\ SkewsUpTo(layout, raw, ext, zi) /\ raw \in Files
      /\ stage = "extents" /\ ext = 1
  BY FilesAssumption DEF LoadInv, ReadExtent
<1>2. map \in Seq(Node) /\ Len(map) \in Nat /\ Len(map) < Len(raw.extents) /\ raw.extents \in Seq(Line) /\ Shape(layout)
  BY <1>1, NodesAre DEF ReadOf, ReadExtent
<1>3. CASE Len(map) < Guess(layout)
  <2>1. layout' = [layout EXCEPT !.ltop_map = Append(map, n)] /\ stage' = stage
        /\ UNCHANGED <<raw, ext, zi>>
    BY <1>3 DEF ReadExtent
  <2>2. n \in Node
    <3>1. Len(map) + 1 \in DOMAIN raw.extents
      BY <1>2
    <3> QED
      BY <1>1, <3>1, NodesAre
  <2>3. /\ layout' = [cyls |-> layout.cyls, heads |-> layout.heads, zones |-> layout.zones,
                      ltop_map |-> Append(map, n), ptol_map |-> layout.ptol_map,
                      defects |-> layout.defects, skew |-> layout.skew, first |-> layout.first]
    BY <1>2, <2>1 DEF Shape
  <2>4. /\ Shape(layout') /\ layout'.cyls = layout.cyls /\ layout'.heads = layout.heads /\ layout'.zones = layout.zones
        /\ layout'.ltop_map = Append(map, n) /\ layout'.skew = layout.skew /\ layout'.first = layout.first
    BY <2>3 DEF Shape
  <2> HIDE DEF n
  <2>5. /\ Append(map, n) \in Seq(Node) /\ Len(Append(map, n)) = Len(map) + 1
        /\ Append(map, n)[Len(map) + 1] = n
        /\ \A k \in DOMAIN map : Append(map, n)[k] = map[k]
        /\ DOMAIN Append(map, n) = 1 .. Len(map) + 1 /\ DOMAIN map = 1 .. Len(map)
    BY <1>2, <2>2
  <2>6. ASSUME NEW k \in 1 .. Len(map) + 1 PROVE Append(map, n)[k] = NodeOf(raw.extents[k])
    <3>1. CASE k = Len(map) + 1
      BY <2>5, <3>1 DEF n
    <3>2. CASE k # Len(map) + 1
      <4>1. k \in DOMAIN map
        BY <1>2, <2>5, <3>2
      <4> QED
        BY <1>1, <2>5, <4>1 DEF ReadOf
    <3> QED
      BY <3>1, <3>2
  <2>7. ReadOf(layout', raw')
    <3>1. Len(map) + 1 <= Len(raw.extents)
      BY <1>2
    <3> QED
      BY <1>1, <2>1, <2>4, <2>5, <2>6, <3>1 DEF ReadOf
  <2>8. SkewsUpTo(layout', raw', ext', zi')
    <3>1. CylsOf(layout') = CylsOf(layout)
      BY <2>4 DEF CylsOf
    <3>2. \A k \in 1 .. Len(map) + 1 : ~(k < 1)
      BY <1>2
    <3>3. 1 \in 1 .. (Len(map) + 1) + 1
      BY <1>2
    <3> QED
      BY <1>1, <2>1, <2>4, <2>5, <3>1, <3>2, <3>3 DEF SkewsUpTo
  <2> QED
    BY <1>1, <2>1, <2>7, <2>8 DEF LoadInv
<1>4. CASE ~(Len(map) < Guess(layout))
  <2>1. UNCHANGED <<raw, layout, ext, zi>> /\ stage' = "overrun"
    BY <1>4 DEF ReadExtent
  <2> QED
    BY <2>1, LoadKept
<1> QED
  BY <1>3, <1>4

LEMMA SortTracksKeeps ==
  ASSUME LoadInv, SortTracks
  PROVE  LoadInv'
<1> DEFINE t == ByTrack(layout)
<1>1. /\ ReadOf(layout, raw) /\ SkewsUpTo(layout, raw, ext, zi) /\ raw \in Files
      /\ stage = "extents" /\ ext = 1 /\ Len(layout.ltop_map) = Len(raw.extents)
  BY DEF LoadInv, SortTracks
<1>2. layout' = [layout EXCEPT !.ptol_map = t] /\ stage' = "defects" /\ UNCHANGED <<raw, ext, zi>>
  BY DEF SortTracks
<1> HIDE DEF t
<1>3. layout' = [cyls |-> layout.cyls, heads |-> layout.heads, zones |-> layout.zones,
                 ltop_map |-> layout.ltop_map, ptol_map |-> t,
                 defects |-> layout.defects, skew |-> layout.skew, first |-> layout.first]
  BY <1>1, <1>2 DEF ReadOf, Shape
<1>4. /\ Shape(layout') /\ layout'.cyls = layout.cyls /\ layout'.heads = layout.heads /\ layout'.zones = layout.zones
      /\ layout'.ltop_map = layout.ltop_map /\ layout'.skew = layout.skew /\ layout'.first = layout.first
      /\ layout'.ptol_map = t
  BY <1>3 DEF Shape
<1>5. CylsOf(layout') = CylsOf(layout) /\ HeadsOf(layout') = HeadsOf(layout)
  BY <1>4 DEF CylsOf, HeadsOf
<1>6. Sorted(layout')
  BY <1>4, <1>5 DEF Sorted, ByTrack, t
<1>7. ReadOf(layout', raw')
  BY <1>1, <1>2, <1>4 DEF ReadOf
<1>8. SkewsUpTo(layout', raw', ext', zi')
  BY <1>1, <1>2, <1>4, <1>5 DEF SkewsUpTo
<1> QED
  BY <1>1, <1>2, <1>4, <1>6, <1>7, <1>8 DEF LoadInv

LEMMA ReadDefectKeeps ==
  ASSUME LoadInv, ReadDefect
  PROVE  LoadInv'
<1> DEFINE d == Append(layout.defects, raw.defects[Len(layout.defects) + 1])
<1>1. /\ ReadOf(layout, raw) /\ SkewsUpTo(layout, raw, ext, zi) /\ raw \in Files
      /\ stage = "defects" /\ ext = 1 /\ Len(layout.ltop_map) = Len(raw.extents)
      /\ Sorted(layout)
  BY DEF LoadInv, ReadDefect
<1>2. CASE Len(layout.defects) < Len(layout.ltop_map) \div 8
  <2>1. layout' = [layout EXCEPT !.defects = d] /\ stage' = "defects" /\ UNCHANGED <<raw, ext, zi>>
    BY <1>1, <1>2 DEF ReadDefect
  <2> HIDE DEF d
  <2>3. layout' = [cyls |-> layout.cyls, heads |-> layout.heads, zones |-> layout.zones,
                   ltop_map |-> layout.ltop_map, ptol_map |-> layout.ptol_map,
                   defects |-> d, skew |-> layout.skew, first |-> layout.first]
    BY <1>1, <2>1 DEF ReadOf, Shape
  <2>4. /\ Shape(layout') /\ layout'.cyls = layout.cyls /\ layout'.heads = layout.heads /\ layout'.zones = layout.zones
        /\ layout'.ltop_map = layout.ltop_map /\ layout'.skew = layout.skew /\ layout'.first = layout.first
        /\ layout'.ptol_map = layout.ptol_map
    BY <2>3 DEF Shape
  <2>5. CylsOf(layout') = CylsOf(layout) /\ HeadsOf(layout') = HeadsOf(layout)
    BY <2>4 DEF CylsOf, HeadsOf
  <2>6. Sorted(layout')
    BY <1>1, <2>4, <2>5 DEF Sorted, ByTrack
  <2>7. ReadOf(layout', raw')
    BY <1>1, <2>1, <2>4 DEF ReadOf
  <2>8. SkewsUpTo(layout', raw', ext', zi')
    BY <1>1, <2>1, <2>4, <2>5 DEF SkewsUpTo
  <2> QED
    BY <1>1, <2>1, <2>4, <2>6, <2>7, <2>8 DEF LoadInv
<1>3. CASE ~(Len(layout.defects) < Len(layout.ltop_map) \div 8)
  <2>1. UNCHANGED <<raw, layout, ext, zi>> /\ stage' = "overrun"
    BY <1>3 DEF ReadDefect
  <2> QED
    BY <2>1, LoadKept
<1> QED
  BY <1>2, <1>3

\* The zone pointer stays among the zones: no cylinder with extents is past the last.
LEMMA ZoneAtIs ==
  ASSUME NEW l, NEW f, WellLaid(f), HoldsFile(l, f), NEW z \in DOMAIN f.zones, NEW e \in DOMAIN l.ltop_map
  PROVE  ZoneAt(l, z, l.ltop_map[e].cyl) \in DOMAIN f.zones
<1> DEFINE c == l.ltop_map[e].cyl
<1>1. /\ l.zones = f.zones /\ f.zones \in Seq(G2Zone) /\ c \in Nat
      /\ c <= f.zones[Len(f.zones)].cylhigh
  <2>1. l.ltop_map = NodesOf(f) /\ l.zones = f.zones
    BY DEF HoldsFile
  <2>2. l.ltop_map \in Seq(Node)
    BY <2>1, NodesAre
  <2> QED
    BY <2>1, <2>2, NodesAre, NodesType
<1> HIDE DEF c
<1>2. CASE l.first[c] = 0 /\ l.zones[z].cylhigh < c
  <2>1. z # Len(f.zones)
    <3>1. f.zones[z] \in G2Zone
      BY <1>1
    <3>2. f.zones[z].cylhigh \in Nat
      BY <3>1 DEF G2Zone
    <3> QED
      BY <1>1, <1>2, <3>2
  <2>2. z + 1 \in DOMAIN f.zones
    BY <1>1, <2>1
  <2> QED
    BY <1>2, <2>2 DEF ZoneAt, c
<1>3. CASE ~(l.first[c] = 0 /\ l.zones[z].cylhigh < c)
  BY <1>3 DEF ZoneAt, c
<1> QED
  BY <1>2, <1>3

\* The layout after the turn of extent e, with the zone pointer at z.
TurnOf(l, e, z, next) ==
  LET c == l.ltop_map[e].cyl
  IN  [cyls |-> l.cyls, heads |-> l.heads, zones |-> l.zones,
       ltop_map |-> l.ltop_map, ptol_map |-> l.ptol_map, defects |-> l.defects,
       skew  |-> Added(l, Begun(l, c, z), c, SwitchTo(l, e, next, z)),
       first |-> [l.first EXCEPT ![c] = IF l.first[c] = 0 THEN e ELSE l.first[c]]]

LEMMA SkewTurn ==
  ASSUME LoadInv, PrecomputeSkew
  PROVE  LET c == layout.ltop_map[ext].cyl
             z == ZoneAt(layout, zi, c)
         IN  /\ WellLaid(raw) /\ HoldsFile(layout, raw) /\ ext \in DOMAIN layout.ltop_map /\ stage = "skews"
             /\ layout.cyls \in Nat \ {0} /\ \A k \in DOMAIN layout.ltop_map : layout.ltop_map[k].cyl \in CylsOf(layout)
             /\ z \in DOMAIN layout.zones /\ layout.zones[z] \in G2Zone
             /\ zi' = z /\ ext' = ext + 1 /\ raw' = raw /\ stage' = stage
             /\ \E next \in NextExtents(layout, ext) : layout' = TurnOf(layout, ext, z, next)
<1> DEFINE map   == layout.ltop_map
           c     == map[ext].cyl
           begin == layout.first[c] = 0
           z     == ZoneAt(layout, zi, c)
           F     == [layout.first EXCEPT ![c] = IF begin THEN ext ELSE layout.first[c]]
<1>1. /\ WellLaid(raw) /\ ReadOf(layout, raw) /\ SkewsUpTo(layout, raw, ext, zi)
      /\ stage = "skews" /\ Len(map) = Len(raw.extents) /\ Sorted(layout)
      /\ Shape(layout) /\ map \in Seq(Node)
  BY FilesAssumption DEF LoadInv, PrecomputeSkew, ReadOf
<1>2. HoldsFile(layout, raw)
  BY <1>1, ReadHolds
<1>3. ext \in DOMAIN map
  BY <1>1 DEF SkewsUpTo, PrecomputeSkew
<1>4. layout.cyls \in Nat \ {0} /\ \A k \in DOMAIN map : map[k].cyl \in CylsOf(layout)
  <2>1. layout.cyls = raw.cyls /\ layout.ltop_map = NodesOf(raw)
    BY <1>2 DEF HoldsFile
  <2>2. layout.cyls \in Nat \ {0}
    BY <1>1, <2>1, NodesAre
  <2>3. ASSUME NEW k \in DOMAIN map PROVE map[k].cyl \in CylsOf(layout)
    <3>1. map[k].cyl \in Nat
      BY <1>1, NodesType
    <3>2. map[k].cyl < raw.cyls
      BY <1>1, <2>1, NodesAre
    <3> QED
      BY <2>1, <2>2, <3>1, <3>2 DEF CylsOf
  <2> QED
    BY <2>2, <2>3
<1>5. z \in DOMAIN layout.zones /\ layout.zones[z] \in G2Zone
  <2>1. zi \in DOMAIN raw.zones
    BY <1>1 DEF SkewsUpTo
  <2>2. z \in DOMAIN raw.zones
    BY <1>1, <1>2, <1>3, <2>1, ZoneAtIs
  <2>3. layout.zones = raw.zones /\ raw.zones \in Seq(G2Zone)
    BY <1>1, <1>2, NodesAre DEF HoldsFile
  <2> QED
    BY <2>2, <2>3
<1> HIDE DEF map, c, z, F, begin
<1>6. PICK next \in NextExtents(layout, ext) :
        LET a == SwitchTo(layout, ext, next, z)
        IN  layout' = [layout EXCEPT !.skew = Added(layout, Begun(layout, c, z), c, a),
                                     !.first[c] = IF begin THEN ext ELSE @]
  BY Zenon DEF PrecomputeSkew, map, c, z, begin
<1> DEFINE S == Added(layout, Begun(layout, c, z), c, SwitchTo(layout, ext, next, z))
<1>7. zi' = z /\ ext' = ext + 1 /\ raw' = raw /\ stage' = stage
  BY DEF PrecomputeSkew, z, c, map
<1>8. layout' = [layout EXCEPT !.skew = S, !.first = F]
  <2>1. layout' = [layout EXCEPT !.skew = S, !.first[c] = IF begin THEN ext ELSE @]
    BY <1>6
  <2> HIDE DEF S
  <2> QED
    BY <1>1, <2>1 DEF F, Shape
<1> HIDE DEF S
<1>9. layout' = [cyls |-> layout.cyls, heads |-> layout.heads, zones |-> layout.zones,
                 ltop_map |-> layout.ltop_map, ptol_map |-> layout.ptol_map,
                 defects |-> layout.defects, skew |-> S, first |-> F]
  BY <1>1, <1>8 DEF Shape
<1>10. \E n \in NextExtents(layout, ext) : layout' = TurnOf(layout, ext, z, n)
  <2>1. layout' = TurnOf(layout, ext, z, next)
    BY <1>9 DEF TurnOf, S, F, c, map, begin
  <2> HIDE DEF z
  <2> QED
    BY <2>1
<1>11. z = ZoneAt(layout, zi, layout.ltop_map[ext].cyl)
  BY DEF z, c, map
<1> HIDE DEF z
<1> QED
  BY <1>1, <1>2, <1>3, <1>4, <1>5, <1>7, <1>10, <1>11 DEF map

LEMMA PrecomputeSkewKeeps ==
  ASSUME LoadInv, PrecomputeSkew
  PROVE  LoadInv'
<1> DEFINE map   == layout.ltop_map
           c     == map[ext].cyl
           begin == layout.first[c] = 0
           z     == ZoneAt(layout, zi, c)
<1>1. /\ WellLaid(raw) /\ ReadOf(layout, raw) /\ SkewsUpTo(layout, raw, ext, zi) /\ raw \in Files
      /\ Len(map) = Len(raw.extents) /\ Sorted(layout)
      /\ map \in Seq(Node) /\ stage = "skews"
  BY FilesAssumption DEF LoadInv, PrecomputeSkew, ReadOf
<1>2. layout.zones = raw.zones
  BY <1>1 DEF ReadOf
<1>3. ext \in DOMAIN map /\ ext \in Nat \ {0} /\ ext <= Len(map) /\ Len(map) \in Nat
  BY <1>1, SkewTurn
<1>4. layout.cyls \in Nat \ {0} /\ \A k \in DOMAIN map : map[k].cyl \in CylsOf(layout)
  BY SkewTurn
<1>5. c \in CylsOf(layout)
  BY <1>3, <1>4
<1>6. z \in DOMAIN raw.zones /\ layout.zones[z] \in G2Zone /\ zi' = z
  BY <1>2, SkewTurn
<1>7. PICK next \in NextExtents(layout, ext) : layout' = TurnOf(layout, ext, z, next)
  BY SkewTurn
<1> HIDE DEF map, c, z, begin
<1> DEFINE a == SwitchTo(layout, ext, next, z)
           S == Added(layout, Begun(layout, c, z), c, a)
           F == [layout.first EXCEPT ![c] = IF begin THEN ext ELSE layout.first[c]]
<1>8. a \in Nat
  <2>1. layout.zones[z].csskew \in Nat /\ layout.zones[z].hsskew \in Nat
    BY <1>6 DEF G2Zone
  <2> QED
    BY <2>1 DEF SwitchTo
<1>9. S \in [CylsOf(layout) -> 0 .. Circle - 1]
  <2>1. layout.skew \in [CylsOf(layout) -> 0 .. Circle - 1]
    BY <1>1 DEF SkewsUpTo
  <2>2. Begun(layout, c, z) \in [CylsOf(layout) -> 0 .. Circle - 1]
    BY <1>4, <1>5, <1>6, <2>1, BegunOnCircle
  <2> HIDE DEF a
  <2> QED
    BY <1>4, <1>5, <1>8, <2>2, AddedOnCircle
<1>10. ext' = ext + 1 /\ raw' = raw /\ stage' = stage
  BY SkewTurn
<1>12. layout' = [cyls |-> layout.cyls, heads |-> layout.heads, zones |-> layout.zones,
                  ltop_map |-> layout.ltop_map, ptol_map |-> layout.ptol_map,
                  defects |-> layout.defects, skew |-> S, first |-> F]
  BY <1>7 DEF TurnOf, c, map, begin
<1> HIDE DEF S, F, a
<1>13. /\ Shape(layout') /\ layout'.cyls = layout.cyls /\ layout'.heads = layout.heads /\ layout'.zones = layout.zones
       /\ layout'.ltop_map = map /\ layout'.skew = S /\ layout'.first = F
       /\ layout'.ptol_map = layout.ptol_map
  BY <1>12 DEF Shape, map
<1>14. CylsOf(layout') = CylsOf(layout) /\ HeadsOf(layout') = HeadsOf(layout)
  BY <1>13 DEF CylsOf, HeadsOf
<1>15. Sorted(layout')
  BY <1>1, <1>13, <1>14 DEF Sorted, ByTrack, map
<1>16. ReadOf(layout', raw')
  BY <1>1, <1>10, <1>13 DEF ReadOf, map
<1>17. /\ layout.first \in [CylsOf(layout) -> 0 .. Len(raw.extents)]
       /\ \A d \in CylsOf(layout) : layout.first[d] <= ext
       /\ \A k \in DOMAIN map : k < ext => layout.first[map[k].cyl] \in 1 .. k
  BY <1>1 DEF SkewsUpTo, map
<1>18. F \in [CylsOf(layout) -> 0 .. Len(raw.extents)]
  BY <1>1, <1>3, <1>5, <1>17 DEF F
<1>19. ASSUME NEW d \in CylsOf(layout) PROVE F[d] <= ext + 1
  <2>1. layout.first[d] \in Nat /\ layout.first[d] <= ext /\ (F[d] = ext \/ F[d] = layout.first[d])
    BY <1>17, <1>5 DEF F
  <2> QED
    BY <1>3, <2>1
<1>20. ASSUME NEW k \in DOMAIN map, k < ext + 1 PROVE F[map[k].cyl] \in 1 .. k
  <2>1. map[k].cyl \in CylsOf(layout) /\ k \in Nat
    BY <1>1, <1>4
  <2>2. CASE k = ext
    <3>1. F[c] = IF begin THEN ext ELSE layout.first[c]
      BY <1>5, <1>17 DEF F
    <3>2. layout.first[c] \in Nat /\ layout.first[c] <= ext /\ (begin <=> layout.first[c] = 0)
      BY <1>5, <1>17 DEF begin
    <3> QED
      BY <1>3, <2>2, <3>1, <3>2 DEF c
  <2>3. CASE k # ext
    <3>1. k < ext
      BY <1>3, <1>20, <2>1, <2>3
    <3>2. layout.first[map[k].cyl] \in 1 .. k
      BY <1>17, <3>1
    <3>3. map[k].cyl = c => ~begin
      BY <3>2 DEF begin
    <3> QED
      BY <1>17, <2>1, <3>2, <3>3 DEF F
  <2> QED
    BY <2>2, <2>3
<1>21. SkewsUpTo(layout', raw', ext', zi')
  <2>1. ext + 1 \in 1 .. Len(map) + 1
    BY <1>3
  <2> QED
    BY <1>6, <1>9, <1>10, <1>13, <1>14, <1>18, <1>19, <1>20, <2>1 DEF SkewsUpTo
<1>22. Len(layout'.ltop_map) = Len(raw'.extents) /\ raw' \in Files
  BY <1>1, <1>10, <1>13
<1> QED
  BY <1>1, <1>10, <1>15, <1>16, <1>21, <1>22 DEF LoadInv

LEMMA LoadNext ==
  LoadInv /\ [G2Next]_g2vars => LoadInv'
<1> SUFFICES ASSUME LoadInv, [G2Next]_g2vars PROVE LoadInv'
  OBVIOUS
<1>1. CASE ReadExtent
  BY <1>1, ReadExtentKeeps
<1>2. CASE SortTracks
  BY <1>2, SortTracksKeeps
<1>3. CASE ReadDefect
  BY <1>3, ReadDefectKeeps
<1>4. CASE EndOfMap
  <2>1. UNCHANGED <<raw, layout, ext, zi>> /\ stage = "defects" /\ stage' = "skews"
    BY <1>4 DEF EndOfMap
  <2> QED
    BY <2>1, LoadKept
<1>5. CASE PrecomputeSkew
  BY <1>5, PrecomputeSkewKeeps
<1>6. CASE Loaded
  <2>1. UNCHANGED <<raw, layout, ext, zi>> /\ stage = "skews" /\ stage' = "loaded" /\ ext > Len(layout.ltop_map)
    BY <1>6 DEF Loaded
  <2> QED
    BY <2>1, LoadKept
<1>7. CASE AskLbn \/ AskSector \/ AskTrack \/ AskDisk
  <2>1. \E q, r : Asked(q, r)
    BY <1>7 DEF AskLbn, AskSector, AskTrack, AskDisk
  <2>2. UNCHANGED <<raw, layout, ext, zi>> /\ stage' = stage
    BY <2>1 DEF Asked
  <2> QED
    BY <2>2, LoadKept
<1>8. CASE UNCHANGED g2vars
  <2>1. UNCHANGED <<raw, layout, ext, zi>> /\ stage' = stage
    BY <1>8 DEF g2vars
  <2> QED
    BY <2>1, LoadKept
<1> QED
  BY <1>1, <1>2, <1>3, <1>4, <1>5, <1>6, <1>7, <1>8 DEF G2Next

-----------------------------------------------------------------------------
(* Answers *)

\* What a call is answered with.  An int handed back as 64 bits leaves some choice.
Truthful(l, q, r) ==
  \/ q.op = "none" /\ r = Answer(0)
  \/ /\ q.op \in {"ltop", "st_lbn", "distance"} /\ q.lbn \in Int
     /\ q.op = "ltop" => r = g2_ltop(l, q.lbn)
     /\ q.op = "st_lbn" => r = st_lbn(l, q.lbn)
     /\ q.op = "distance" => q.to \in Int /\ r = g2_seek_distance(l, q.lbn, q.to)
  \/ /\ q.op \in {"ptol", "bounds", "skew", "st_pbn", "width", "atop", "ptoa"} /\ q.pbn \in PlacesOf(l)
     /\ q.op = "ptol" =>
          \/ r = Aborted /\ g2_ptol(l, q.pbn) = Aborted
          \/ /\ g2_ptol(l, q.pbn) # Aborted
             /\ \E v \in AsLba(g2_ptol(l, q.pbn).value) : r = Answer(v)
     /\ q.op = "bounds" =>
          \/ r = Aborted /\ track_boundaries(l, q.pbn) = Aborted
          \/ /\ track_boundaries(l, q.pbn) # Aborted
             /\ \E v \in IntoLba(track_boundaries(l, q.pbn).value[1]),
                   w \in IntoLba(track_boundaries(l, q.pbn).value[2]) : r = Answer(<<v, w>>)
     /\ q.op = "skew" => r = pbn_skew_new(l, q.pbn)
     /\ q.op \in {"st_pbn", "width", "atop", "ptoa"} =>
          \/ \E v : r = InZone(find_zone_pbn(l, q.pbn), v)
          \/ q.op = "ptoa" /\ find_zone_pbn(l, q.pbn) # 0 /\ r = Crashed
  \/ q.op \in {"ltop_0t", "ptol_0t"} /\ r = Aborted
  \/ q.op \in {"zone", "zone_id", "offset", "zerol", "defects", "numzones"} /\ r.kind \in {"answer", "crashed"}

\* Calls are made when loading is over, and are answered from the tables.
G2Inv ==
  /\ LoadInv
  /\ Truthful(layout, question, reply)
  /\ question.op # "none" => stage = "loaded"

LEMMA AskLbnTruthful ==
  ASSUME AskLbn
  PROVE  Asking /\ \E q, r : Asked(q, r) /\ Truthful(layout, q, r)
<1>1. PICK lbn \in Lbns :
        \/ Asked(OfLbn("ltop", lbn), g2_ltop(layout, lbn))
        \/ Asked(OfLbn("st_lbn", lbn), st_lbn(layout, lbn))
        \/ Asked(OfLbn("zone", lbn), g2_get_zone(layout, lbn))
        \/ Asked(OfLbn("zone_id", lbn), dm_get_zone_id_by_lbn(layout, lbn))
        \/ Asked(OfLbn("ltop_0t", lbn), dm_translate_ltop_0t(layout, lbn))
        \/ \E to \in Lbns : Asked([op |-> "distance", lbn |-> lbn, to |-> to], g2_seek_distance(layout, lbn, to))
        \/ Asked([op |-> "offset", lbn |-> lbn, to |-> lbn], dm_lbn_offset(layout, lbn, lbn))
  BY DEF AskLbn
<1>2. lbn \in Int /\ \A to \in Lbns : to \in Int
  BY G2Assumption
<1>3. Truthful(layout, OfLbn("ltop", lbn), g2_ltop(layout, lbn))
  BY <1>2 DEF Truthful, OfLbn
<1>4. Truthful(layout, OfLbn("st_lbn", lbn), st_lbn(layout, lbn))
  BY <1>2 DEF Truthful, OfLbn
<1>5. Truthful(layout, OfLbn("zone", lbn), g2_get_zone(layout, lbn))
  BY DEF Truthful, OfLbn, g2_get_zone, Answer
<1>6. Truthful(layout, OfLbn("zone_id", lbn), dm_get_zone_id_by_lbn(layout, lbn))
  BY DEF Truthful, OfLbn, dm_get_zone_id_by_lbn, Crashed
<1>7. Truthful(layout, OfLbn("ltop_0t", lbn), dm_translate_ltop_0t(layout, lbn))
  BY DEF Truthful, OfLbn, dm_translate_ltop_0t
<1>8. ASSUME NEW to \in Lbns
      PROVE  Truthful(layout, [op |-> "distance", lbn |-> lbn, to |-> to], g2_seek_distance(layout, lbn, to))
  BY <1>2 DEF Truthful
<1>9. Truthful(layout, [op |-> "offset", lbn |-> lbn, to |-> lbn], dm_lbn_offset(layout, lbn, lbn))
  BY DEF Truthful, dm_lbn_offset, Crashed
<1>10. Asking
  BY DEF AskLbn
<1> QED
  BY <1>1, <1>3, <1>4, <1>5, <1>6, <1>7, <1>8, <1>9, <1>10

LEMMA AskSectorTruthful ==
  ASSUME AskSector
  PROVE  Asking /\ \E q, r : Asked(q, r) /\ Truthful(layout, q, r)
<1>1. PICK p \in PlacesOf(layout) :
        \/ LET r == g2_ptol(layout, p) IN
             IF r = Aborted THEN Asked(OfPbn("ptol", p), r)
             ELSE \E v \in AsLba(r.value) : Asked(OfPbn("ptol", p), Answer(v))
        \/ Asked(OfPbn("skew", p), pbn_skew_new(layout, p))
        \/ p \in OnTracks(layout) /\ \E wants \in SUBSET {"start", "width"} \ {{}} :
             Asked([op |-> "ptoa", pbn |-> p, wants |-> wants], ptoa(layout, p, wants))
        \/ Asked(OfPbn("ptol_0t", p), dm_translate_ptol_0t(layout, p))
  BY DEF AskSector
<1>2. Truthful(layout, OfPbn("skew", p), pbn_skew_new(layout, p))
  BY DEF Truthful, OfPbn
<1>3. ASSUME NEW wants
      PROVE  Truthful(layout, [op |-> "ptoa", pbn |-> p, wants |-> wants], ptoa(layout, p, wants))
  <2>1. \/ \E v : ptoa(layout, p, wants) = InZone(find_zone_pbn(layout, p), v)
        \/ find_zone_pbn(layout, p) # 0 /\ ptoa(layout, p, wants) = Crashed
    BY DEF ptoa
  <2> QED
    BY <2>1 DEF Truthful
<1>4. Truthful(layout, OfPbn("ptol_0t", p), dm_translate_ptol_0t(layout, p))
  BY DEF Truthful, OfPbn, dm_translate_ptol_0t
<1>5. g2_ptol(layout, p) = Aborted => Truthful(layout, OfPbn("ptol", p), g2_ptol(layout, p))
  BY DEF Truthful, OfPbn
<1>6. ASSUME g2_ptol(layout, p) # Aborted, NEW v \in AsLba(g2_ptol(layout, p).value)
      PROVE  Truthful(layout, OfPbn("ptol", p), Answer(v))
  BY <1>6 DEF Truthful, OfPbn
<1>7. Asking
  BY DEF AskSector
<1> QED
  BY <1>1, <1>2, <1>3, <1>4, <1>5, <1>6, <1>7

LEMMA AskTrackTruthful ==
  ASSUME AskTrack
  PROVE  Asking /\ \E q, r : Asked(q, r) /\ Truthful(layout, q, r)
<1>1. PICK p \in PlacesOf(layout) :
        \/ LET r == track_boundaries(layout, p) IN
             IF r = Aborted THEN Asked(OfPbn("bounds", p), r)
             ELSE \E v \in IntoLba(r.value[1]), w \in IntoLba(r.value[2]) :
                    Asked(OfPbn("bounds", p), Answer(<<v, w>>))
        \/ Asked(OfPbn("st_pbn", p), st_pbn(layout, p))
        \/ \E n \in 1 .. 2 : Asked([op |-> "width", pbn |-> p, num |-> n], sector_width(layout, p, n))
        \/ \E a \in 0 .. 4 : Asked([op |-> "atop", pbn |-> p, theta |-> a * (Circle \div 4)],
                                   atop(layout, p, a * (Circle \div 4)))
        \/ Asked(OfPbn("zerol", p), dm_get_track_zerol(layout, p))
        \/ Asked(OfPbn("defects", p), dm_defect_count(layout, p))
  BY DEF AskTrack
<1>2. Truthful(layout, OfPbn("st_pbn", p), st_pbn(layout, p))
  <2>1. \E v : st_pbn(layout, p) = InZone(find_zone_pbn(layout, p), v)
    BY DEF st_pbn
  <2> QED
    BY <2>1 DEF Truthful, OfPbn
<1>3. ASSUME NEW n \in 1 .. 2
      PROVE  Truthful(layout, [op |-> "width", pbn |-> p, num |-> n], sector_width(layout, p, n))
  <2>1. \E v : sector_width(layout, p, n) = InZone(find_zone_pbn(layout, p), v)
    BY DEF sector_width
  <2> QED
    BY <2>1 DEF Truthful
<1>4. ASSUME NEW t
      PROVE  Truthful(layout, [op |-> "atop", pbn |-> p, theta |-> t], atop(layout, p, t))
  <2>1. \E v : atop(layout, p, t) = InZone(find_zone_pbn(layout, p), v)
    BY DEF atop
  <2> QED
    BY <2>1 DEF Truthful
<1>5. Truthful(layout, OfPbn("zerol", p), dm_get_track_zerol(layout, p))
  BY DEF Truthful, OfPbn, dm_get_track_zerol, Crashed
<1>6. Truthful(layout, OfPbn("defects", p), dm_defect_count(layout, p))
  BY DEF Truthful, OfPbn, dm_defect_count, Answer
<1>7. track_boundaries(layout, p) = Aborted => Truthful(layout, OfPbn("bounds", p), track_boundaries(layout, p))
  BY DEF Truthful, OfPbn
<1>8. ASSUME track_boundaries(layout, p) # Aborted,
             NEW v \in IntoLba(track_boundaries(layout, p).value[1]),
             NEW w \in IntoLba(track_boundaries(layout, p).value[2])
      PROVE  Truthful(layout, OfPbn("bounds", p), Answer(<<v, w>>))
  BY <1>8 DEF Truthful, OfPbn
<1>9. Asking
  BY DEF AskTrack
<1> QED
  BY <1>1, <1>2, <1>3, <1>4, <1>5, <1>6, <1>7, <1>8, <1>9

LEMMA G2Initially ==
  G2Init => G2Inv
<1> SUFFICES ASSUME G2Init PROVE G2Inv
  OBVIOUS
<1>1. Truthful(layout, question, reply) /\ question.op = "none"
  BY DEF G2Init, Truthful
<1> QED
  BY <1>1, LoadInit DEF G2Inv

LEMMA G2Step ==
  G2Inv /\ [G2Next]_g2vars => G2Inv'
<1> SUFFICES ASSUME G2Inv, [G2Next]_g2vars PROVE G2Inv'
  OBVIOUS
<1>1. LoadInv'
  BY LoadNext DEF G2Inv
<1>2. CASE \E q, r : Asking /\ Asked(q, r) /\ Truthful(layout, q, r)
  <2>1. PICK q, r : Asking /\ Asked(q, r) /\ Truthful(layout, q, r)
    BY <1>2
  <2>2. question' = q /\ reply' = r /\ layout' = layout /\ stage' = stage /\ stage = "loaded"
    BY <2>1 DEF Asked, Asking
  <2>3. Truthful(layout', question', reply')
    BY <2>1, <2>2
  <2> QED
    BY <1>1, <2>2, <2>3 DEF G2Inv
<1>3. CASE ReadExtent \/ SortTracks \/ ReadDefect \/ EndOfMap \/ PrecomputeSkew \/ Loaded
  <2>1. stage # "loaded" /\ UNCHANGED <<question, reply>>
    BY <1>3 DEF ReadExtent, SortTracks, ReadDefect, EndOfMap, PrecomputeSkew, Loaded
  <2>2. question.op = "none"
    BY <2>1 DEF G2Inv
  <2>3. question.op = "none" /\ reply = Answer(0)
    BY <2>2 DEF G2Inv, Truthful
  <2>4. question'.op = "none" /\ reply' = Answer(0)
    BY <2>1, <2>3
  <2>5. Truthful(layout', question', reply')
    BY <2>4 DEF Truthful
  <2> QED
    BY <1>1, <2>4, <2>5 DEF G2Inv
<1>4. CASE UNCHANGED g2vars
  BY <1>1, <1>4 DEF G2Inv, g2vars
<1>5. CASE AskDisk
  <2>1. Asking /\ Asked([op |-> "numzones"], g2_get_numzones(layout))
    BY <1>5 DEF AskDisk
  <2>2. Truthful(layout, [op |-> "numzones"], g2_get_numzones(layout))
    BY DEF Truthful, g2_get_numzones, Answer
  <2> QED
    BY <1>2, <2>1, <2>2
<1>6. CASE AskLbn
  BY <1>2, <1>6, AskLbnTruthful
<1>7. CASE AskSector
  BY <1>2, <1>7, AskSectorTruthful
<1>8. CASE AskTrack
  BY <1>2, <1>8, AskTrackTruthful
<1> QED
  BY <1>2, <1>3, <1>4, <1>5, <1>6, <1>7, <1>8 DEF G2Next

-----------------------------------------------------------------------------
(* What the answers mean *)

LEMMA LoadedHolds ==
  ASSUME G2Inv, question.op # "none"
  PROVE  /\ WellLaid(raw) /\ HoldsFile(layout, raw) /\ InOrder(layout.ltop_map)
         /\ layout.cyls = raw.cyls /\ layout.heads = raw.heads
         /\ raw.cyls \in Nat \ {0} /\ raw.heads \in Nat \ {0}
         /\ SkewsUpTo(layout, raw, Len(layout.ltop_map) + 1, zi)
<1>1. LoadInv /\ stage = "loaded" /\ raw \in Files
  BY DEF G2Inv, LoadInv
<1>2. WellLaid(raw)
  BY <1>1, FilesAssumption
<1>3. HoldsFile(layout, raw)
  BY <1>1, <1>2, ReadHolds DEF LoadInv
<1>4. SkewsUpTo(layout, raw, Len(layout.ltop_map) + 1, zi)
  BY <1>1 DEF LoadInv
<1> QED
  BY <1>2, <1>3, <1>4, NodesAre DEF HoldsFile

\* The answer of ltop: the place of the LBN in the node that has it.
LEMMA LtopIs ==
  ASSUME WellLaid(raw), HoldsFile(layout, raw), InOrder(layout.ltop_map), NEW lbn \in Int
  PROVE  /\ ~Covered(lbn) => g2_ltop(layout, lbn) = Aborted
         /\ Covered(lbn) =>
              \/ /\ Bsearch(layout, lbn) = 0 /\ \A m \in Meant : m.lbn # lbn
                 /\ g2_ltop(layout, lbn) = Answer([code |-> DM_NX, pbn |-> NowhereG2])
              \/ \E e \in DOMAIN layout.ltop_map :
                   /\ HasLbn(layout.ltop_map[e], lbn) /\ Bsearch(layout, lbn) = e
                   /\ [lbn |-> lbn, pbn |-> Place(layout.ltop_map[e], lbn)] \in Meant
                   /\ g2_ltop(layout, lbn) = Answer([code |-> DM_OK, pbn |-> Place(layout.ltop_map[e], lbn)])
         /\ \A e \in DOMAIN layout.ltop_map : HasLbn(layout.ltop_map[e], lbn) =>
              g2_ltop(layout, lbn) = Answer([code |-> DM_OK, pbn |-> Place(layout.ltop_map[e], lbn)])
         /\ (Bsearch(layout, lbn) = 0) <=> \A m \in Meant : m.lbn # lbn
<1> DEFINE map == layout.ltop_map
           e   == Bsearch(layout, lbn)
<1>1. find_zone_lbn(layout, lbn) = 0 <=> ~Covered(lbn)
  BY ZonesAre
<1>2. /\ \A k \in DOMAIN map : HasLbn(map[k], lbn) => e = k
      /\ e # 0 => e \in DOMAIN map /\ HasLbn(map[e], lbn)
  BY BsearchFinds
<1>3. 0 \notin DOMAIN map
  <2>1. map \in Seq(Node)
    BY DEF InOrder
  <2> QED
    BY <2>1
<1> HIDE DEF e
<1>4. e = 0 => \A m \in Meant : m.lbn # lbn
  <2> SUFFICES ASSUME e = 0, NEW m \in Meant, m.lbn = lbn PROVE FALSE
    OBVIOUS
  <2>1. PICK k \in DOMAIN map : HasLbn(map[k], lbn)
    BY MeantIs
  <2> QED
    BY <1>2, <1>3, <2>1
<1>5. e # 0 => [lbn |-> lbn, pbn |-> Place(map[e], lbn)] \in Meant
  BY <1>2, MeantIs
<1>6. e # 0 => ~ \A m \in Meant : m.lbn # lbn
  BY <1>5
<1>7. ~Covered(lbn) => g2_ltop(layout, lbn) = Aborted
  BY <1>1 DEF g2_ltop
<1>8. Covered(lbn) => g2_ltop(layout, lbn) =
        IF e = 0 THEN Answer([code |-> DM_NX, pbn |-> NowhereG2])
        ELSE Answer([code |-> DM_OK, pbn |-> Place(map[e], lbn)])
  BY <1>1 DEF g2_ltop, e
<1>9. ASSUME NEW k \in DOMAIN map, HasLbn(map[k], lbn)
      PROVE  g2_ltop(layout, lbn) = Answer([code |-> DM_OK, pbn |-> Place(map[k], lbn)])
  <2>1. e = k /\ e # 0
    BY <1>2, <1>3, <1>9
  <2>2. Covered(lbn)
    BY <1>9, PlaceOnDisk
  <2> QED
    BY <1>8, <2>1, <2>2
<1> QED
  BY <1>2, <1>4, <1>5, <1>6, <1>7, <1>8, <1>9 DEF e

LEMMA Kinds ==
  /\ Aborted.kind = "aborted" /\ Crashed.kind = "crashed"
  /\ \A v : Answer(v).kind = "answer" /\ Answer(v).value = v
BY DEF Aborted, Crashed, Answer

LEMMA LtopPlacesHolds ==
  G2Inv => LtopPlaces
<1> SUFFICES ASSUME G2Inv, Is("ltop")
             PROVE  IF reply.value.code = DM_OK
                    THEN /\ [lbn |-> question.lbn, pbn |-> reply.value.pbn] \in Meant
                         /\ G2LbnAt(layout, reply.value.pbn) = question.lbn
                    ELSE reply.value.code = DM_NX /\ \A m \in Meant : m.lbn # question.lbn
  BY DEF LtopPlaces
<1> DEFINE lbn == question.lbn
<1>1. question.op = "ltop" /\ reply.kind = "answer"
  BY DEF Is
<1>2. WellLaid(raw) /\ HoldsFile(layout, raw) /\ InOrder(layout.ltop_map)
  BY <1>1, LoadedHolds
<1>3. lbn \in Int /\ reply = g2_ltop(layout, lbn)
  BY <1>1 DEF G2Inv, Truthful
<1> HIDE DEF lbn
<1>4. Covered(lbn)
  BY <1>1, <1>2, <1>3, LtopIs, Kinds
<1>5. CASE /\ \A m \in Meant : m.lbn # lbn
           /\ g2_ltop(layout, lbn) = Answer([code |-> DM_NX, pbn |-> NowhereG2])
  <2>1. reply.value = [code |-> DM_NX, pbn |-> NowhereG2]
    BY <1>3, <1>5, Kinds
  <2>2. reply.value.code = DM_NX
    BY <2>1
  <2> QED
    BY <1>5, <2>2 DEF lbn, DM_NX, DM_OK
<1>6. ASSUME NEW e \in DOMAIN layout.ltop_map,
             HasLbn(layout.ltop_map[e], lbn),
             [lbn |-> lbn, pbn |-> Place(layout.ltop_map[e], lbn)] \in Meant,
             g2_ltop(layout, lbn) = Answer([code |-> DM_OK, pbn |-> Place(layout.ltop_map[e], lbn)])
      PROVE  /\ reply.value.code = DM_OK
             /\ [lbn |-> lbn, pbn |-> reply.value.pbn] \in Meant
             /\ G2LbnAt(layout, reply.value.pbn) = lbn
  <2>1. reply.value = [code |-> DM_OK, pbn |-> Place(layout.ltop_map[e], lbn)]
    BY <1>3, <1>6, Kinds
  <2>2. reply.value.code = DM_OK /\ reply.value.pbn = Place(layout.ltop_map[e], lbn)
    BY <2>1
  <2>3. G2LbnAt(layout, Place(layout.ltop_map[e], lbn)) = lbn
    BY <1>2, <1>3, <1>6, LbnAtPlace
  <2> QED
    BY <1>6, <2>2, <2>3
<1>7. \/ /\ \A m \in Meant : m.lbn # lbn
         /\ g2_ltop(layout, lbn) = Answer([code |-> DM_NX, pbn |-> NowhereG2])
      \/ \E e \in DOMAIN layout.ltop_map :
           /\ HasLbn(layout.ltop_map[e], lbn)
           /\ [lbn |-> lbn, pbn |-> Place(layout.ltop_map[e], lbn)] \in Meant
           /\ g2_ltop(layout, lbn) = Answer([code |-> DM_OK, pbn |-> Place(layout.ltop_map[e], lbn)])
  BY <1>2, <1>3, <1>4, LtopIs
<1>8. CASE \E e \in DOMAIN layout.ltop_map :
             /\ HasLbn(layout.ltop_map[e], lbn)
             /\ [lbn |-> lbn, pbn |-> Place(layout.ltop_map[e], lbn)] \in Meant
             /\ g2_ltop(layout, lbn) = Answer([code |-> DM_OK, pbn |-> Place(layout.ltop_map[e], lbn)])
  BY <1>6, <1>8 DEF lbn
<1> QED
  BY <1>5, <1>7, <1>8

\* The places a client may ask about, and those of them on the disk.
LEMMA PlacesAre ==
  ASSUME NEW l, l.cyls \in Nat, l.heads \in Nat, NEW p \in PlacesOf(l)
  PROVE  /\ p.cyl \in Nat /\ p.head \in Nat /\ p.sector \in Nat
         /\ p.cyl < l.cyls /\ p.head < l.heads =>
              /\ p \in DiskPlaces(l)
              /\ \A s \in Int : /\ SectorOn(p, s) \in DiskPlaces(l)
                                /\ SectorOn(p, s) = [cyl |-> p.cyl, head |-> p.head, sector |-> s]
BY DEF PlacesOf, DiskPlaces, SectorOn, CylsOf, HeadsOf

LEMMA PtolPlacesHolds ==
  G2Inv => PtolPlaces
<1> SUFFICES ASSUME G2Inv, Is("ptol")
             PROVE  IF \E m \in Meant : m.pbn = question.pbn
                    THEN /\ [lbn |-> reply.value, pbn |-> question.pbn] \in Meant
                         /\ g2_ltop(layout, reply.value) = Answer([code |-> DM_OK, pbn |-> question.pbn])
                    ELSE reply.value \in {DM_NX, IntRange + DM_NX}
  BY DEF PtolPlaces
<1> DEFINE p == question.pbn
<1>1. question.op = "ptol" /\ reply.kind = "answer"
  BY DEF Is
<1>2. /\ WellLaid(raw) /\ HoldsFile(layout, raw) /\ InOrder(layout.ltop_map)
      /\ layout.cyls \in Nat /\ layout.heads \in Nat
  BY <1>1, LoadedHolds
<1>3. /\ p \in PlacesOf(layout)
      /\ \/ reply = Aborted
         \/ g2_ptol(layout, p) # Aborted /\ \E v \in AsLba(g2_ptol(layout, p).value) : reply = Answer(v)
  BY <1>1 DEF G2Inv, Truthful
<1> HIDE DEF p
<1>4. g2_ptol(layout, p) # Aborted /\ \E v \in AsLba(g2_ptol(layout, p).value) : reply = Answer(v)
  BY <1>1, <1>3, Kinds
<1>5. p.cyl < layout.cyls /\ p.head < layout.heads /\ g2_ptol(layout, p) = Answer(G2LbnAt(layout, p))
  BY <1>4 DEF g2_ptol
<1>6. reply.value \in AsLba(G2LbnAt(layout, p))
  BY <1>4, <1>5, Kinds
<1>7. p \in DiskPlaces(layout)
  BY <1>2, <1>3, <1>5, PlacesAre
<1>8. CASE G2LbnAt(layout, p) = DM_NX /\ \A m \in Meant : m.pbn # p
  <2>1. reply.value \in {DM_NX, IntRange + DM_NX}
    BY <1>6, <1>8 DEF AsLba, DM_NX
  <2> QED
    BY <1>8, <2>1 DEF p
<1>9. ASSUME NEW e \in DOMAIN layout.ltop_map, NEW x \in Nat,
             HasLbn(layout.ltop_map[e], x), p = Place(layout.ltop_map[e], x),
             G2LbnAt(layout, p) = x, [lbn |-> x, pbn |-> p] \in Meant
      PROVE  /\ \E m \in Meant : m.pbn = p
             /\ [lbn |-> reply.value, pbn |-> p] \in Meant
             /\ g2_ltop(layout, reply.value) = Answer([code |-> DM_OK, pbn |-> p])
  <2>1. reply.value = x
    BY <1>6, <1>9 DEF AsLba
  <2>2. [lbn |-> x, pbn |-> p].pbn = p
    OBVIOUS
  <2>3. g2_ltop(layout, x) = Answer([code |-> DM_OK, pbn |-> p])
    BY <1>2, <1>9, LtopIs
  <2> QED
    BY <1>9, <2>1, <2>2, <2>3
<1>10. \/ \E e \in DOMAIN layout.ltop_map : \E x \in Nat :
            /\ HasLbn(layout.ltop_map[e], x) /\ p = Place(layout.ltop_map[e], x)
            /\ G2LbnAt(layout, p) = x
            /\ [lbn |-> x, pbn |-> p] \in Meant
       \/ G2LbnAt(layout, p) = DM_NX /\ \A m \in Meant : m.pbn # p
  BY <1>2, <1>7, LbnAtIs
<1> QED
  BY <1>8, <1>9, <1>10 DEF p

\* The lower half of what is stored for a number is its remainder.
LEMMA LowerHalf ==
  ASSUME NEW v \in Int, NEW w \in IntoLba(v)
  PROVE  /\ w % IntRange = v % IntRange
         /\ v \in 0 .. IntRange - 1 => w % IntRange = v
<1> DEFINE r == v % IntRange
<1>1. IntRange \in Nat \ {0} /\ r \in 0 .. IntRange - 1
  BY G2Assumption, DivisionIs
<1>2. PICK q \in {0, -1, 1} : w = r + q * IntRange
  BY <1>1 DEF IntoLba
<1> HIDE DEF r
<1>3. w = q * IntRange + r /\ q \in Int
  BY <1>1, <1>2
<1>4. w % IntRange = r
  BY <1>1, <1>3, DivisionOnly
<1>5. v \in 0 .. IntRange - 1 => v % IntRange = v
  <2> SUFFICES ASSUME v \in 0 .. IntRange - 1 PROVE v % IntRange = v
    OBVIOUS
  <2>1. v = 0 * IntRange + v
    BY <1>1
  <2> QED
    BY <1>1, <2>1, DivisionOnly
<1> QED
  BY <1>4, <1>5 DEF r

\* The sectors that are mapped on a track are those the file gives LBNs, and have them.
LEMMA MappedAreMeant ==
  ASSUME WellLaid(raw), HoldsFile(layout, raw), InOrder(layout.ltop_map),
         layout.cyls \in Nat, layout.heads \in Nat,
         NEW p \in PlacesOf(layout), p.cyl < layout.cyls, p.head < layout.heads,
         find_zone_pbn(layout, p) # 0
  PROVE  /\ \A m \in MeantOn(p) :
              /\ m.pbn.sector \in MappedOn(layout, p)
              /\ m.pbn = SectorOn(p, m.pbn.sector)
              /\ G2LbnAt(layout, SectorOn(p, m.pbn.sector)) = m.lbn
         /\ \A s \in MappedOn(layout, p) :
              /\ G2LbnAt(layout, SectorOn(p, s)) \in 0 .. IntRange - 1
              /\ \E m \in MeantOn(p) : m.lbn = G2LbnAt(layout, SectorOn(p, s)) /\ m.pbn.sector = s
         /\ MappedOn(layout, p) \subseteq Nat
         /\ \A s \in MappedOn(layout, p) : s <= G2LastSector(layout, find_zone_pbn(layout, p))
         /\ G2LastSector(layout, find_zone_pbn(layout, p)) \in Nat
<1> DEFINE map == layout.ltop_map
           z   == find_zone_pbn(layout, p)
           top == G2LastSector(layout, z)
<1>1. /\ p.cyl \in Nat /\ p.head \in Nat
      /\ \A s \in Int : /\ SectorOn(p, s) \in DiskPlaces(layout)
                        /\ SectorOn(p, s) = [cyl |-> p.cyl, head |-> p.head, sector |-> s]
  BY PlacesAre
<1>2. /\ z \in DOMAIN raw.zones /\ layout.zones[z] = raw.zones[z] /\ raw.zones[z] \in G2Zone
      /\ raw.zones[z].cyllow <= p.cyl /\ p.cyl <= raw.zones[z].cylhigh
  BY ZonesAre
<1>3. top = raw.zones[z].st - 1 /\ raw.zones[z].st \in Nat \ {0}
  BY <1>2 DEF G2LastSector, G2Zone
<1> HIDE DEF z, top
<1>4. MappedOn(layout, p) = { s \in 0 .. top : G2LbnAt(layout, SectorOn(p, s)) # DM_NX }
  BY DEF MappedOn, z, top
<1>5. ASSUME NEW m \in MeantOn(p)
      PROVE  /\ m.pbn.sector \in MappedOn(layout, p)
             /\ m.pbn = SectorOn(p, m.pbn.sector)
             /\ G2LbnAt(layout, SectorOn(p, m.pbn.sector)) = m.lbn
  <2>1. m \in Meant /\ m.pbn.cyl = p.cyl /\ m.pbn.head = p.head
    BY DEF MeantOn, ShareTrack
  <2>2. PICK e \in DOMAIN map : HasLbn(map[e], m.lbn) /\ m.lbn \in Nat /\ m.pbn = Place(map[e], m.lbn)
    BY <2>1, MeantIs
  <2>3. /\ m.pbn.sector \in Nat /\ m.pbn = [cyl |-> p.cyl, head |-> p.head, sector |-> m.pbn.sector]
        /\ m.pbn.sector < raw.zones[z].st
    BY <1>2, <2>1, <2>2, PlaceOnDisk
  <2>4. m.pbn = SectorOn(p, m.pbn.sector)
    BY <1>1, <2>3
  <2>5. G2LbnAt(layout, m.pbn) = m.lbn
    BY <2>2, LbnAtPlace
  <2>6. m.pbn.sector \in 0 .. top /\ m.lbn # DM_NX
    BY <1>3, <2>2, <2>3 DEF DM_NX
  <2> QED
    BY <1>4, <2>4, <2>5, <2>6
<1>6. ASSUME NEW s \in MappedOn(layout, p)
      PROVE  /\ G2LbnAt(layout, SectorOn(p, s)) \in 0 .. IntRange - 1
             /\ \E m \in MeantOn(p) : m.lbn = G2LbnAt(layout, SectorOn(p, s)) /\ m.pbn.sector = s
  <2>1. s \in 0 .. top /\ G2LbnAt(layout, SectorOn(p, s)) # DM_NX
    BY <1>4
  <2>2. /\ SectorOn(p, s) \in DiskPlaces(layout)
        /\ SectorOn(p, s) = [cyl |-> p.cyl, head |-> p.head, sector |-> s]
    BY <1>1, <1>3, <2>1
  <2>3. PICK e \in DOMAIN map : \E x \in Nat :
              /\ HasLbn(map[e], x) /\ SectorOn(p, s) = Place(map[e], x)
              /\ G2LbnAt(layout, SectorOn(p, s)) = x
              /\ [lbn |-> x, pbn |-> SectorOn(p, s)] \in Meant
    BY <2>1, <2>2, LbnAtIs
  <2>4. PICK x \in Nat :
              /\ HasLbn(map[e], x) /\ SectorOn(p, s) = Place(map[e], x)
              /\ G2LbnAt(layout, SectorOn(p, s)) = x
              /\ [lbn |-> x, pbn |-> SectorOn(p, s)] \in Meant
    BY <2>3
  <2>5. x < IntRange /\ x \in Nat /\ IntRange \in Nat
    <3>1. x \in Int /\ HasLbn(map[e], x)
      BY <2>4
    <3>2. x < IntRange
      BY <3>1, PlaceOnDisk
    <3> QED
      BY <3>2, G2Assumption
  <2> DEFINE m == [lbn |-> x, pbn |-> SectorOn(p, s)]
  <2>6. m.lbn = x /\ m.pbn.sector = s /\ m.pbn.cyl = p.cyl /\ m.pbn.head = p.head
    BY <2>2
  <2>7. m \in MeantOn(p)
    BY <2>4, <2>6 DEF MeantOn, ShareTrack
  <2> QED
    BY <2>4, <2>5, <2>6, <2>7
<1>7. MappedOn(layout, p) \subseteq Nat /\ top \in Nat /\ \A s \in MappedOn(layout, p) : s <= top
  BY <1>3, <1>4
<1> QED
  BY <1>5, <1>6, <1>7 DEF top, z

\* Where extents follow the sectors of a track, so do the LBNs.
LEMMA TrackGrows ==
  ASSUME WellLaid(raw), HoldsFile(layout, raw), InOrder(layout.ltop_map), NEW p, Growing(p),
         NEW a \in MeantOn(p), NEW b \in MeantOn(p), a.pbn.sector <= b.pbn.sector
  PROVE  a.lbn <= b.lbn
<1> DEFINE map == layout.ltop_map
<1>1. map = NodesOf(raw) /\ map \in Seq(Node) /\ DOMAIN map = DOMAIN raw.extents
  BY NodesAre DEF HoldsFile
<1>2. a \in Meant /\ b \in Meant /\ ShareTrack(a.pbn, p) /\ ShareTrack(b.pbn, p)
  BY DEF MeantOn
<1>3. PICK g \in DOMAIN map : HasLbn(map[g], a.lbn) /\ a.lbn \in Nat /\ a.pbn = Place(map[g], a.lbn)
  BY <1>2, MeantIs
<1>4. PICK h \in DOMAIN map : HasLbn(map[h], b.lbn) /\ b.lbn \in Nat /\ b.pbn = Place(map[h], b.lbn)
  BY <1>2, MeantIs
<1>5. /\ map[g].lbn \in Nat /\ map[g].len \in Nat \ {0} /\ map[g].sector \in Nat
      /\ map[h].lbn \in Nat /\ map[h].len \in Nat \ {0} /\ map[h].sector \in Nat
      /\ g \in Nat /\ h \in Nat
  BY <1>1, NodesType
<1>6. /\ a.pbn.cyl = map[g].cyl /\ a.pbn.head = map[g].head /\ a.pbn.sector = map[g].sector + (a.lbn - map[g].lbn)
      /\ b.pbn.cyl = map[h].cyl /\ b.pbn.head = map[h].head /\ b.pbn.sector = map[h].sector + (b.lbn - map[h].lbn)
  BY <1>3, <1>4 DEF Place
<1>7. map[g] = NodeOf(raw.extents[g]) /\ map[h] = NodeOf(raw.extents[h])
  BY <1>1, NodesAre
<1>8. CASE g = h
  BY <1>3, <1>4, <1>5, <1>6, <1>8
<1>9. CASE g < h
  <2>1. map[g].lbn + map[g].len <= map[h].lbn
    BY <1>9 DEF InOrder
  <2> QED
    BY <1>3, <1>4, <1>5, <2>1 DEF HasLbn
<1>10. CASE h < g
  <2>1. ShareTrack(raw.extents[h], p) /\ ShareTrack(raw.extents[g], p)
    BY <1>2, <1>6, <1>7 DEF ShareTrack, NodeOf
  <2>2. raw.extents[h].sector < raw.extents[g].sector
    BY <1>1, <1>10, <2>1 DEF Growing
  <2>3. map[h].sector < map[g].sector
    BY <1>7, <2>2 DEF NodeOf
  <2>4. ShareTrack(map[h], map[g])
    BY <1>2, <1>6 DEF ShareTrack
  <2>5. \/ map[h].sector + map[h].len <= map[g].sector
        \/ map[g].sector + map[g].len <= map[h].sector
    BY <1>1, <1>10, <2>4, NodesAre
  <2>6. map[h].sector + map[h].len <= map[g].sector
    BY <1>5, <2>3, <2>5
  <2>7. b.pbn.sector < a.pbn.sector
    BY <1>3, <1>4, <1>5, <1>6, <2>6 DEF HasLbn
  <2>8. a.pbn.sector \in Int /\ b.pbn.sector \in Int
    BY <1>3, <1>4, <1>5, <1>6
  <2> QED
    BY <2>7, <2>8
<1> QED
  BY <1>5, <1>8, <1>9, <1>10

\* Numbers up to a bound have a greatest among them.
LEMMA GreatestOf ==
  ASSUME NEW T, T \subseteq Nat, T # {}, NEW top \in Nat, \A k \in T : k <= top
  PROVE  \E m \in T : \A k \in T : k <= m
<1> DEFINE U == { top - k : k \in T }
<1>1. U \subseteq Nat /\ U # {}
  <2>1. \A k \in T : top - k \in Nat
    OBVIOUS
  <2> QED
    BY <2>1
<1>2. PICK d \in U : \A e \in U : d <= e
  BY <1>1, LeastOf
<1>3. PICK m \in T : d = top - m
  OBVIOUS
<1>4. ASSUME NEW k \in T PROVE k <= m
  <2>1. d <= top - k
    BY <1>2
  <2> QED
    BY <1>3, <2>1
<1> QED
  BY <1>4

LEMMA TrackBoundsHolds ==
  G2Inv => TrackBounds
<1> DEFINE p  == question.pbn
           on == MeantOn(p)
           low(v) == v % IntRange
           Q  == IF on = {} THEN low(reply.value[1]) = low(DM_NX) /\ low(reply.value[2]) = low(DM_NX)
                 ELSE /\ \E m \in on : low(reply.value[1]) = m.lbn /\ \A n \in on : m.pbn.sector <= n.pbn.sector
                      /\ \E m \in on : low(reply.value[2]) = m.lbn /\ \A n \in on : n.pbn.sector <= m.pbn.sector
                      /\ Growing(p) => \A m \in on : low(reply.value[1]) <= m.lbn /\ m.lbn <= low(reply.value[2])
<1> SUFFICES ASSUME G2Inv, Is("bounds") PROVE Q
  BY DEF TrackBounds
<1>1. question.op = "bounds" /\ reply.kind = "answer"
  BY DEF Is
<1>2. /\ WellLaid(raw) /\ HoldsFile(layout, raw) /\ InOrder(layout.ltop_map)
      /\ layout.cyls \in Nat /\ layout.heads \in Nat
  BY <1>1, LoadedHolds
<1> DEFINE b == track_boundaries(layout, p)
           mapped == MappedOn(layout, p)
           At(s) == G2LbnAt(layout, SectorOn(p, s))
<1>3. /\ p \in PlacesOf(layout)
      /\ \/ reply = Aborted
         \/ b # Aborted /\ \E v \in IntoLba(b.value[1]), w \in IntoLba(b.value[2]) : reply = Answer(<<v, w>>)
  BY <1>1 DEF G2Inv, Truthful
<1> HIDE DEF p
<1>4. b # Aborted /\ \E v \in IntoLba(b.value[1]), w \in IntoLba(b.value[2]) : reply = Answer(<<v, w>>)
  BY <1>1, <1>3, Kinds
<1>5. /\ find_zone_pbn(layout, p) # 0 /\ ~(p.cyl >= layout.cyls) /\ ~(p.head >= layout.heads)
  BY <1>4 DEF track_boundaries
<1>6. p.cyl < layout.cyls /\ p.head < layout.heads
  BY <1>2, <1>3, <1>5, PlacesAre
<1>7. /\ \A m \in on :
           /\ m.pbn.sector \in mapped
           /\ At(m.pbn.sector) = m.lbn
      /\ \A s \in mapped :
           /\ At(s) \in 0 .. IntRange - 1
           /\ \E m \in on : m.lbn = At(s) /\ m.pbn.sector = s
      /\ mapped \subseteq Nat
      /\ \A s \in mapped : s <= G2LastSector(layout, find_zone_pbn(layout, p))
      /\ G2LastSector(layout, find_zone_pbn(layout, p)) \in Nat
  BY <1>2, <1>3, <1>5, <1>6, MappedAreMeant
<1>8. CASE mapped = {}
  <2>1. on = {}
    BY <1>7, <1>8
  <2>2. b = Answer(<<DM_NX, DM_NX>>)
    BY <1>5, <1>8 DEF track_boundaries
  <2>3. b.value[1] = DM_NX /\ b.value[2] = DM_NX /\ DM_NX \in Int
    BY <2>2, Kinds DEF DM_NX
  <2>4. PICK v \in IntoLba(DM_NX), w \in IntoLba(DM_NX) : reply = Answer(<<v, w>>)
    BY <1>4, <2>3
  <2>5. reply.value[1] = v /\ reply.value[2] = w
    BY <2>4, Kinds
  <2>6. v % IntRange = DM_NX % IntRange /\ w % IntRange = DM_NX % IntRange
    BY <2>3, LowerHalf
  <2> HIDE DEF on
  <2> QED
    BY <2>1, <2>5, <2>6
<1>9. CASE mapped # {}
  <2> DEFINE s1 == CHOOSE s \in mapped : \A r \in mapped : s <= r
             s2 == CHOOSE s \in mapped : \A r \in mapped : r <= s
  <2>1. s1 \in mapped /\ \A r \in mapped : s1 <= r
    <3>1. \E s \in mapped : \A r \in mapped : s <= r
      BY <1>7, <1>9, LeastOf
    <3> HIDE DEF mapped
    <3> QED
      BY <3>1
  <2>2. s2 \in mapped /\ \A r \in mapped : r <= s2
    <3>1. \E s \in mapped : \A r \in mapped : r <= s
      BY <1>7, <1>9, GreatestOf
    <3> HIDE DEF mapped
    <3> QED
      BY <3>1
  <2>3. b = Answer(<<At(s1), At(s2)>>)
    BY <1>5, <1>9 DEF track_boundaries
  <2> HIDE DEF s1, s2, mapped, b
  <2>4. b.value[1] = At(s1) /\ b.value[2] = At(s2)
    BY <2>3, Kinds
  <2>5. PICK v \in IntoLba(At(s1)), w \in IntoLba(At(s2)) : reply = Answer(<<v, w>>)
    BY <1>4, <2>4
  <2>6. reply.value[1] = v /\ reply.value[2] = w
    BY <2>5, Kinds
  <2>7. At(s1) \in 0 .. IntRange - 1 /\ At(s2) \in 0 .. IntRange - 1 /\ At(s1) \in Int /\ At(s2) \in Int
    BY <1>7, <2>1, <2>2
  <2> HIDE DEF At
  <2>8. low(reply.value[1]) = At(s1) /\ low(reply.value[2]) = At(s2)
    BY <2>5, <2>6, <2>7, LowerHalf
  <2>9. PICK m1 \in on : m1.lbn = At(s1) /\ m1.pbn.sector = s1
    BY <1>7, <2>1
  <2>10. PICK m2 \in on : m2.lbn = At(s2) /\ m2.pbn.sector = s2
    BY <1>7, <2>2
  <2>11. \A n \in on : m1.pbn.sector <= n.pbn.sector /\ n.pbn.sector <= m2.pbn.sector
    BY <1>7, <2>1, <2>2, <2>9, <2>10
  <2>12. Growing(p) => \A m \in on : m1.lbn <= m.lbn /\ m.lbn <= m2.lbn
    BY <1>2, <2>11, TrackGrows
  <2> HIDE DEF on, low
  <2>13. on # {}
    BY <2>9
  <2>14. low(reply.value[1]) = m1.lbn /\ low(reply.value[2]) = m2.lbn
    BY <2>8, <2>9, <2>10
  <2> QED
    BY <2>11, <2>12, <2>13, <2>14
<1> QED
  BY <1>8, <1>9

\* The walk for a skew ends on every track that has extents.
LEMMA ReachedIs ==
  ASSUME WellLaid(raw), HoldsFile(layout, raw), SkewsUpTo(layout, raw, Len(layout.ltop_map) + 1, zi), NEW p
  PROVE  /\ MeantOn(p) # {} => layout.first[p.cyl] # 0 /\ Reached(layout, p) # {}
         /\ Reached(layout, p) # {} => MeantOn(p) # {}
<1> DEFINE map == layout.ltop_map
<1>1. map = NodesOf(raw) /\ map \in Seq(Node)
  BY NodesAre DEF HoldsFile
<1>2. ASSUME NEW m \in MeantOn(p) PROVE layout.first[p.cyl] # 0 /\ Reached(layout, p) # {}
  <2>1. m \in Meant /\ m.pbn.cyl = p.cyl /\ m.pbn.head = p.head
    BY DEF MeantOn, ShareTrack
  <2>2. PICK e \in DOMAIN map : HasLbn(map[e], m.lbn) /\ m.lbn \in Nat /\ m.pbn = Place(map[e], m.lbn)
    BY <2>1, MeantIs
  <2>3. map[e].cyl = p.cyl /\ map[e].head = p.head
    BY <2>1, <2>2 DEF Place
  <2>4. e < Len(map) + 1 /\ e \in Nat
    BY <1>1
  <2>5. layout.first[map[e].cyl] \in 1 .. e
    BY <2>4 DEF SkewsUpTo
  <2>6. layout.first[p.cyl] # 0 /\ layout.first[p.cyl] <= e
    BY <2>3, <2>4, <2>5
  <2>7. e \in Reached(layout, p)
    BY <2>3, <2>6 DEF Reached, ShareTrack
  <2> QED
    BY <2>6, <2>7
<1>3. ASSUME NEW e \in Reached(layout, p) PROVE MeantOn(p) # {}
  <2>1. e \in DOMAIN map /\ ShareTrack(map[e], p)
    BY DEF Reached
  <2>2. map[e].lbn \in Nat /\ map[e].len \in Nat \ {0}
    BY <1>1, <2>1, NodesType
  <2> DEFINE x == map[e].lbn
             m == [lbn |-> x, pbn |-> Place(map[e], x)]
  <2>3. HasLbn(map[e], x) /\ x \in Int
    BY <2>2 DEF HasLbn
  <2>4. m \in Meant
    BY <2>1, <2>3, MeantIs
  <2>5. m.pbn.cyl = map[e].cyl /\ m.pbn.head = map[e].head
    BY DEF Place
  <2>6. m \in MeantOn(p)
    BY <2>1, <2>4, <2>5 DEF MeantOn, ShareTrack
  <2> QED
    BY <2>6
<1> QED
  BY <1>2, <1>3

\* An answer of a zone is there when the zone is.
LEMMA InZoneIs ==
  ASSUME NEW z, NEW v
  PROVE  /\ InZone(z, v).kind \in {"answer", "aborted"}
         /\ InZone(z, v).kind = "aborted" <=> z = 0
BY DEF InZone, Aborted, Answer

\* Answers to what is asked of an LBN.
LEMMA LbnAborts ==
  ASSUME G2Inv, question.op \in {"ltop", "st_lbn", "distance"}
  PROVE  reply.kind \in {"answer", "aborted"} /\ AbortsWhen
<1>1. /\ WellLaid(raw) /\ HoldsFile(layout, raw) /\ InOrder(layout.ltop_map)
  BY LoadedHolds
<1>2. /\ question.lbn \in Int
      /\ question.op = "ltop" => reply = g2_ltop(layout, question.lbn)
      /\ question.op = "st_lbn" => reply = st_lbn(layout, question.lbn)
      /\ question.op = "distance" =>
           question.to \in Int /\ reply = g2_seek_distance(layout, question.lbn, question.to)
  BY DEF G2Inv, Truthful
<1> DEFINE a == question.lbn
           b == question.to
<1>3. CASE question.op = "ltop"
  <2>0. a \in Int /\ reply = g2_ltop(layout, a)
    BY <1>2, <1>3
  <2> HIDE DEF a
  <2>1. reply.kind \in {"answer", "aborted"} /\ (reply.kind = "aborted" <=> ~Covered(a))
    <3>1. ~Covered(a) => reply = Aborted
      BY <1>1, <2>0, LtopIs
    <3>2. Covered(a) => \E v : reply = Answer(v)
      BY <1>1, <2>0, LtopIs
    <3> QED
      BY <3>1, <3>2, Kinds
  <2> QED
    BY <1>3, <2>1 DEF AbortsWhen, a
<1>4. CASE question.op = "st_lbn"
  <2>1. \E v : reply = InZone(find_zone_lbn(layout, a), v)
    BY <1>2, <1>4 DEF st_lbn
  <2>2. find_zone_lbn(layout, a) = 0 <=> ~Covered(a)
    BY <1>1, ZonesAre
  <2>3. reply.kind \in {"answer", "aborted"} /\ (reply.kind = "aborted" <=> ~Covered(a))
    BY <2>1, <2>2, InZoneIs
  <2> QED
    BY <1>4, <2>3 DEF AbortsWhen
<1>5. CASE question.op = "distance"
  <2>1. a \in Int /\ b \in Int /\ reply = g2_seek_distance(layout, a, b)
    BY <1>2, <1>5
  <2>2. (find_zone_lbn(layout, a) = 0 <=> ~Covered(a)) /\ (find_zone_lbn(layout, b) = 0 <=> ~Covered(b))
    BY <1>1, ZonesAre
  <2>3. Bsearch(layout, a) # 0 <=> \E m \in Meant : m.lbn = a
    BY <1>1, <2>1, LtopIs
  <2> HIDE DEF a, b
  <2>4. reply = Aborted \/ \E v : reply = Answer(v)
    BY <2>1 DEF g2_seek_distance
  <2>5. reply = Aborted <=> ~Covered(a) \/ (Bsearch(layout, a) # 0 /\ ~Covered(b))
    <3>1. ASSUME ~Covered(a) \/ (Bsearch(layout, a) # 0 /\ ~Covered(b)) PROVE reply = Aborted
      BY <2>1, <2>2, <3>1 DEF g2_seek_distance
    <3>2. ASSUME ~(~Covered(a) \/ (Bsearch(layout, a) # 0 /\ ~Covered(b))) PROVE \E v : reply = Answer(v)
      BY <2>1, <2>2, <3>2 DEF g2_seek_distance
    <3> QED
      BY <3>1, <3>2, Kinds
  <2>6. reply.kind \in {"answer", "aborted"} /\ (reply.kind = "aborted" <=> reply = Aborted)
    BY <2>4, Kinds
  <2> QED
    BY <1>5, <2>3, <2>5, <2>6 DEF AbortsWhen, a, b
<1> QED
  BY <1>3, <1>4, <1>5

\* Answers to what is asked of a sector or a track.
LEMMA PbnAborts ==
  ASSUME G2Inv, question.op \in {"ptol", "bounds", "skew", "st_pbn", "width", "atop", "ptoa"}
  PROVE  reply.kind \in {"answer", "aborted", "crashed"} /\ AbortsWhen
<1> DEFINE p == question.pbn
           z == find_zone_pbn(layout, p)
<1>1. /\ WellLaid(raw) /\ HoldsFile(layout, raw) /\ InOrder(layout.ltop_map)
      /\ layout.cyls = raw.cyls /\ layout.heads = raw.heads
      /\ raw.cyls \in Nat \ {0} /\ raw.heads \in Nat \ {0}
      /\ SkewsUpTo(layout, raw, Len(layout.ltop_map) + 1, zi)
  BY LoadedHolds
<1>2. /\ p \in PlacesOf(layout)
      /\ question.op = "ptol" =>
           \/ reply = Aborted /\ g2_ptol(layout, p) = Aborted
           \/ g2_ptol(layout, p) # Aborted /\ \E v : reply = Answer(v)
      /\ question.op = "bounds" =>
           \/ reply = Aborted /\ track_boundaries(layout, p) = Aborted
           \/ track_boundaries(layout, p) # Aborted /\ \E v : reply = Answer(v)
      /\ question.op = "skew" => reply = pbn_skew_new(layout, p)
      /\ question.op \in {"st_pbn", "width", "atop", "ptoa"} =>
           (\E v : reply = InZone(z, v)) \/ (z # 0 /\ reply = Crashed)
  BY DEF G2Inv, Truthful
<1>3. p.cyl \in Nat /\ p.head \in Nat
  BY <1>1, <1>2, PlacesAre
<1>4. z = 0 <=> ~CoveredCyl(p.cyl)
  BY <1>1, ZonesAre
<1>5. CoveredCyl(p.cyl) => p.cyl < raw.cyls
  <2> SUFFICES ASSUME NEW k \in DOMAIN raw.zones, p.cyl <= raw.zones[k].cylhigh PROVE p.cyl < raw.cyls
    BY DEF CoveredCyl
  <2>1. raw.zones \in Seq(G2Zone) /\ raw.zones[k].cylhigh < raw.cyls
    BY <1>1, NodesAre
  <2>2. raw.zones[k] \in G2Zone
    BY <2>1
  <2>3. raw.zones[k].cylhigh \in Nat
    BY <2>2 DEF G2Zone
  <2> QED
    BY <1>1, <1>3, <2>1, <2>3
<1> HIDE DEF p, z
<1>6. CASE question.op = "ptol"
  <2>1. g2_ptol(layout, p) = Aborted <=> p.cyl >= raw.cyls \/ p.head >= raw.heads
    <3>1. (p.cyl < layout.cyls /\ p.head < layout.heads) <=> ~(p.cyl >= raw.cyls \/ p.head >= raw.heads)
      BY <1>1, <1>3
    <3>2. ASSUME p.cyl < layout.cyls /\ p.head < layout.heads PROVE g2_ptol(layout, p) # Aborted
      BY <3>2, Kinds DEF g2_ptol
    <3>3. ASSUME ~(p.cyl < layout.cyls /\ p.head < layout.heads) PROVE g2_ptol(layout, p) = Aborted
      BY <3>3 DEF g2_ptol
    <3> QED
      BY <3>1, <3>2, <3>3
  <2>2. reply.kind \in {"answer", "aborted"} /\ (reply.kind = "aborted" <=> g2_ptol(layout, p) = Aborted)
    BY <1>2, <1>6, Kinds
  <2> QED
    BY <1>6, <2>1, <2>2 DEF AbortsWhen, p
<1>7. CASE question.op = "bounds"
  <2>1. track_boundaries(layout, p) = Aborted <=> ~CoveredCyl(p.cyl) \/ p.head >= raw.heads
    <3>1. (z = 0 \/ p.cyl >= layout.cyls \/ p.head >= layout.heads) <=> (~CoveredCyl(p.cyl) \/ p.head >= raw.heads)
      BY <1>1, <1>3, <1>4, <1>5
    <3>2. ASSUME z = 0 \/ p.cyl >= layout.cyls \/ p.head >= layout.heads PROVE track_boundaries(layout, p) = Aborted
      BY <3>2 DEF track_boundaries, z
    <3>3. ASSUME ~(z = 0 \/ p.cyl >= layout.cyls \/ p.head >= layout.heads) PROVE \E v : track_boundaries(layout, p) = Answer(v)
      BY <3>3 DEF track_boundaries, z
    <3> QED
      BY <3>1, <3>2, <3>3, Kinds
  <2>2. reply.kind \in {"answer", "aborted"} /\ (reply.kind = "aborted" <=> track_boundaries(layout, p) = Aborted)
    BY <1>2, <1>7, Kinds
  <2> QED
    BY <1>7, <2>1, <2>2 DEF AbortsWhen, p
<1>8. CASE question.op = "skew"
  <2>1. reply = pbn_skew_new(layout, p)
    BY <1>2, <1>8
  <2>2. /\ MeantOn(p) # {} => layout.first[p.cyl] # 0 /\ Reached(layout, p) # {}
        /\ Reached(layout, p) # {} => MeantOn(p) # {}
    BY <1>1, ReachedIs
  <2>3. ASSUME z = 0 \/ layout.first[p.cyl] = 0 \/ Reached(layout, p) = {} PROVE reply = Aborted
    BY <2>1, <2>3 DEF pbn_skew_new, z
  <2>4. ASSUME ~(z = 0 \/ layout.first[p.cyl] = 0 \/ Reached(layout, p) = {}) PROVE \E v : reply = Answer(v)
    BY <2>1, <2>4 DEF pbn_skew_new, z
  <2>5. reply.kind \in {"answer", "aborted"}
        /\ (reply.kind = "aborted" <=> z = 0 \/ layout.first[p.cyl] = 0 \/ Reached(layout, p) = {})
    BY <2>3, <2>4, Kinds
  <2>6. reply.kind = "aborted" <=> ~CoveredCyl(p.cyl) \/ MeantOn(p) = {}
    BY <1>4, <2>2, <2>5
  <2> QED
    BY <1>8, <2>5, <2>6 DEF AbortsWhen, p
<1>9. CASE question.op \in {"st_pbn", "width", "atop", "ptoa"}
  <2>1. reply.kind \in {"answer", "aborted", "crashed"} /\ (reply.kind = "aborted" <=> ~CoveredCyl(p.cyl))
    BY <1>2, <1>4, <1>9, InZoneIs DEF Crashed
  <2> QED
    BY <1>9, <2>1 DEF AbortsWhen, p
<1> QED
  BY <1>6, <1>7, <1>8, <1>9

LEMMA AbortsHold ==
  ASSUME G2Inv
  PROVE  reply.kind \in {"answer", "aborted", "crashed"} /\ AbortsWhen
<1>1. CASE question.op \in {"ltop", "st_lbn", "distance"}
  BY <1>1, LbnAborts
<1>2. CASE question.op \in {"ptol", "bounds", "skew", "st_pbn", "width", "atop", "ptoa"}
  BY <1>2, PbnAborts
<1>3. CASE question.op = "none" /\ reply = Answer(0)
  BY <1>3, Kinds DEF AbortsWhen
<1>4. CASE question.op \in {"ltop_0t", "ptol_0t"} /\ reply = Aborted
  BY <1>4, Kinds DEF AbortsWhen
<1>5. CASE question.op \in {"zone", "zone_id", "offset", "zerol", "defects", "numzones"} /\ reply.kind \in {"answer", "crashed"}
  BY <1>5 DEF AbortsWhen
<1> QED
  BY <1>1, <1>2, <1>3, <1>4, <1>5 DEF G2Inv, Truthful

LEMMA G2TypeHolds ==
  ASSUME G2Inv
  PROVE  G2TypeOK
<1>1. /\ raw \in Files /\ ReadOf(layout, raw) /\ SkewsUpTo(layout, raw, ext, zi)
      /\ stage \in {"extents", "defects", "skews", "loaded", "overrun"}
  BY DEF G2Inv, LoadInv
<1>2. raw.cyls \in Nat \ {0} /\ raw.heads \in Nat \ {0} /\ raw.extents \in Seq(Line)
  BY <1>1, FilesAssumption, NodesAre
<1>3. ext \in 1 .. Len(raw.extents) + 1
  <2>1. Len(raw.extents) \in Nat /\ Len(layout.ltop_map) \in Nat /\ Len(layout.ltop_map) <= Len(raw.extents)
    BY <1>1, <1>2 DEF ReadOf
  <2>2. ext \in 1 .. Len(layout.ltop_map) + 1
    BY <1>1 DEF SkewsUpTo
  <2> QED
    BY <2>1, <2>2
<1> QED
  BY <1>1, <1>2, <1>3, AbortsHold DEF G2TypeOK, ReadOf, SkewsUpTo

\* The invariant of the G2 layout: the tables hold the file, the skews are angles, and
\* the answers are those of the tables (layout_g2_load.c:87-255, layout_g2.c:39-336).
THEOREM G2Invariant == G2Spec => []G2Inv
<1>1. G2Init => G2Inv
  BY G2Initially
<1>2. G2Inv /\ [G2Next]_g2vars => G2Inv'
  BY G2Step
<1> QED
  BY <1>1, <1>2, PTL DEF G2Spec

\* Whatever raw file of extents is loaded, an LBN is translated to the sector the file
\* gives it and back, by a binary search that misses none, and a sector without an LBN
\* to no LBN (layout_g2.c:78-167).
THEOREM ExtentsAreMeant == G2Spec => []ExtentsAsMeant
<1>1. G2Inv => ExtentsAsMeant
  BY LtopPlacesHolds, PtolPlacesHolds DEF ExtentsAsMeant
<1> QED
  BY <1>1, G2Invariant, PTL

\* Whatever raw file is loaded, the bounds of a track are the LBNs of its first and last
\* sectors that have one, and a call fails an assertion only for what is outside the zones
\* or the disk (layout_g2.c:39-73, 258-336).
THEOREM BoundsAreMeant == G2Spec => []BoundsAsMeant
<1>1. G2Inv => BoundsAsMeant
  BY G2TypeHolds, TrackBoundsHolds, AbortsHold DEF BoundsAsMeant
<1> QED
  BY <1>1, G2Invariant, PTL

-----------------------------------------------------------------------------
(* Skews *)

\* The zone of a cylinder.
ZoneOn(l, c) == CHOOSE z \in DOMAIN l.zones : l.zones[z].cyllow <= c /\ c <= l.zones[z].cylhigh

HasCyl(l, z, c) == z \in DOMAIN l.zones /\ l.zones[z].cyllow <= c /\ c <= l.zones[z].cylhigh

\* A cylinder has an extent before e.
Seen(l, e, c) == \E k \in DOMAIN l.ltop_map : k < e /\ l.ltop_map[k].cyl = c

\* A cylinder begins with the skew of its zone.
Starts(l, c) == c # 0 /\ l.zones[ZoneOn(l, c)].cyllow = c

\* Of the extents before e, the last of its cylinder so far.
LastSeen(l, e, k) == k < e /\ (k = e - 1 \/ l.ltop_map[k + 1].cyl # l.ltop_map[k].cyl)

\* What a cylinder hands on of its own skew.
HandedOn(l, c) == IF Starts(l, c) THEN 0 ELSE l.skew[c]

\* The skew that the cylinder after that of extent k gets.
Carried(l, k) ==
  LET c == l.ltop_map[k].cyl
      z == ZoneOn(l, c)
  IN  (HandedOn(l, c) + SwitchSums(l.ltop_map, l.first[c], l.zones[z])[k]
                      + SwitchTo(l, k, l.ltop_map[k + 1], z)) % Circle

FirstsFound(l, e) ==
  /\ \A k \in DOMAIN l.ltop_map : k < e =>
       LET c == l.ltop_map[k].cyl IN
       /\ l.first[c] \in 1 .. k /\ l.ltop_map[l.first[c]].cyl = c
       /\ \A j \in 1 .. l.first[c] - 1 : l.ltop_map[j].cyl # c
  /\ \A c \in CylsOf(l) : c # 0 /\ l.first[c] # 0 => Seen(l, e, c)
  /\ l.first[0] = 1

SkewsFound(l, e) ==
  /\ \A c \in CylsOf(l) : ~Seen(l, e, c - 1) /\ ~(Seen(l, e, c) /\ Starts(l, c)) => l.skew[c] = 0
  /\ \A c \in CylsOf(l) : Seen(l, e, c) /\ Starts(l, c) => l.skew[c] = l.zones[ZoneOn(l, c)].zskew
  /\ \A k \in 1 .. Len(l.ltop_map) - 1 : LastSeen(l, e, k) =>
       LET c == l.ltop_map[k].cyl + 1 IN
       c \in CylsOf(l) /\ ~(Seen(l, e, c) /\ Starts(l, c)) => l.skew[c] = Carried(l, k)

SweptTo(l, e, z) ==
  /\ IF e = 1 THEN z = 1 ELSE HasCyl(l, z, l.ltop_map[e - 1].cyl)
  /\ FirstsFound(l, e) /\ SkewsFound(l, e)

NothingSwept ==
  /\ layout.skew = [c \in CylsOf(layout) |-> 0]
  /\ layout.first = [c \in CylsOf(layout) |-> IF c = 0 THEN 1 ELSE 0]
  /\ ext = 1 /\ zi = 1

SweepInv ==
  /\ stage \in {"extents", "defects"} => NothingSwept
  /\ stage \in {"skews", "loaded"} /\ InSweep(raw) => SweptTo(layout, ext, zi)

-----------------------------------------------------------------------------
(* Sums of switches *)

NextSwitchSum(map, g, zone, f, e) == IF e = g THEN 0 ELSE f[e - 1] + Switches(map, e, zone)

\* The sum at each extent is that at the one before and a switch.
LEMMA SwitchSumsAre ==
  ASSUME NEW map \in Seq(Node), NEW g \in DOMAIN map, NEW zone \in G2Zone
  PROVE  /\ SwitchSums(map, g, zone)[g] = 0
         /\ \A e \in g + 1 .. Len(map) :
              SwitchSums(map, g, zone)[e] = SwitchSums(map, g, zone)[e - 1] + Switches(map, e, zone)
         /\ \A e \in g .. Len(map) : SwitchSums(map, g, zone)[e] \in Nat
<1> DEFINE N == Len(map)
           Ends(n) == \E f : f = [e \in g .. g + n |-> NextSwitchSum(map, g, zone, f, e)]
<1>0. N \in Nat /\ g \in Nat /\ g <= N
  OBVIOUS
<1>1. Ends(0)
  <2> DEFINE f == [e \in g .. g + 0 |-> 0]
  <2>1. \A e \in g .. g + 0 : e = g
    BY <1>0
  <2>2. f = [e \in g .. g + 0 |-> NextSwitchSum(map, g, zone, f, e)]
    BY <2>1 DEF NextSwitchSum
  <2> QED
    BY <2>2
<1>2. ASSUME NEW n \in Nat, Ends(n) PROVE Ends(n + 1)
  <2>1. PICK f : f = [e \in g .. g + n |-> NextSwitchSum(map, g, zone, f, e)]
    BY <1>2
  <2> DEFINE h == [e \in g .. g + (n + 1) |-> NextSwitchSum(map, g, zone, f, e)]
  <2>2. \A e \in g .. g + n : h[e] = f[e]
    <3>1. \A e \in g .. g + n : f[e] = NextSwitchSum(map, g, zone, f, e)
      BY <2>1
    <3>2. \A e \in g .. g + n : e \in g .. g + (n + 1)
      BY <1>0
    <3> QED
      BY <3>1, <3>2
  <2> HIDE DEF h
  <2>3. \A e \in g .. g + (n + 1) : NextSwitchSum(map, g, zone, h, e) = NextSwitchSum(map, g, zone, f, e)
    <3> SUFFICES ASSUME NEW e \in g .. g + (n + 1), e # g PROVE h[e - 1] = f[e - 1]
      BY DEF NextSwitchSum
    <3>1. e - 1 \in g .. g + n
      BY <1>0
    <3> QED
      BY <2>2, <3>1
  <2>4. h = [e \in g .. g + (n + 1) |-> NextSwitchSum(map, g, zone, h, e)]
    BY <2>3 DEF h
  <2> QED
    BY <2>4
<1> HIDE DEF Ends
<1> DEFINE T == { n \in Nat : Ends(n) }
<1>3. T = Nat
  <2>1. T \subseteq Nat /\ 0 \in T /\ \A n \in T : n + 1 \in T
    BY <1>1, <1>2
  <2> HIDE DEF T
  <2> QED
    BY <2>1, OneByOne
<1>4. \E f : f = [e \in g .. N |-> NextSwitchSum(map, g, zone, f, e)]
  <2>1. N - g \in Nat /\ g + (N - g) = N
    BY <1>0
  <2>2. Ends(N - g)
    BY <1>3, <2>1
  <2> QED
    BY <2>1, <2>2 DEF Ends
<1>5. SwitchSums(map, g, zone) = CHOOSE f : f = [e \in g .. N |-> NextSwitchSum(map, g, zone, f, e)]
  BY DEF SwitchSums, NextSwitchSum
<1> DEFINE p == SwitchSums(map, g, zone)
<1> HIDE DEF p, N
<1>6. p = [e \in g .. N |-> NextSwitchSum(map, g, zone, p, e)]
  BY <1>4, <1>5 DEF p
<1>7. \A e \in g .. N : p[e] = NextSwitchSum(map, g, zone, p, e)
  BY <1>6
<1>8. p[g] = 0
  BY <1>0, <1>7 DEF NextSwitchSum
<1>9. \A e \in g + 1 .. N : p[e] = p[e - 1] + Switches(map, e, zone)
  <2> SUFFICES ASSUME NEW e \in g + 1 .. N PROVE p[e] = p[e - 1] + Switches(map, e, zone)
    OBVIOUS
  <2>1. e \in g .. N /\ e # g
    BY <1>0
  <2> QED
    BY <1>7, <2>1 DEF NextSwitchSum
<1>10. \A e : Switches(map, e, zone) \in Nat
  BY DEF Switches, G2Zone
<1>11. \A e \in g .. N : p[e] \in Nat
  <2> DEFINE U == { n \in Nat : g + n <= N => p[g + n] \in Nat }
  <2>1. 0 \in U
    BY <1>0, <1>8
  <2>2. ASSUME NEW n \in U PROVE n + 1 \in U
    <3> SUFFICES ASSUME g + (n + 1) <= N PROVE p[g + (n + 1)] \in Nat
      OBVIOUS
    <3>1. g + (n + 1) \in g + 1 .. N /\ (g + (n + 1)) - 1 = g + n /\ g + n <= N
      BY <1>0
    <3>2. p[g + n] \in Nat
      BY <3>1
    <3> QED
      BY <1>9, <1>10, <3>1, <3>2
  <2>3. U = Nat
    <3>1. U \subseteq Nat
      OBVIOUS
    <3> HIDE DEF U
    <3> QED
      BY <2>1, <2>2, <3>1, OneByOne
  <2> SUFFICES ASSUME NEW e \in g .. N PROVE p[e] \in Nat
    OBVIOUS
  <2>4. e - g \in Nat /\ g + (e - g) = e /\ e <= N
    BY <1>0
  <2>5. e - g \in U
    BY <2>3, <2>4
  <2> QED
    BY <2>4, <2>5
<1> QED
  BY <1>8, <1>9, <1>11 DEF p, N

-----------------------------------------------------------------------------
(* Files that sweep over the disk *)

\* What InSweep says, of the tables.
Sweeping(l) ==
  /\ l.ltop_map \in Seq(Node) /\ l.cyls \in Nat \ {0}
  /\ \A k \in DOMAIN l.ltop_map : l.ltop_map[k].cyl \in CylsOf(l)
  /\ \A j, k \in DOMAIN l.ltop_map : j < k => l.ltop_map[j].cyl <= l.ltop_map[k].cyl
  /\ \A j, k \in DOMAIN l.ltop_map : j < k /\ ShareTrack(l.ltop_map[j], l.ltop_map[k]) =>
       \A h \in j .. k : ShareTrack(l.ltop_map[h], l.ltop_map[j])
  /\ l.zones \in Seq(G2Zone) /\ 1 \in DOMAIN l.zones
  /\ \A y, z \in DOMAIN l.zones : y < z => l.zones[y].cylhigh < l.zones[z].cyllow
  /\ \A z \in DOMAIN l.zones : \E k \in DOMAIN l.ltop_map : HasCyl(l, z, l.ltop_map[k].cyl)
  /\ \A k \in DOMAIN l.ltop_map : \E z \in DOMAIN l.zones : HasCyl(l, z, l.ltop_map[k].cyl)

LEMMA FileSweeps ==
  ASSUME NEW f, WellLaid(f), InSweep(f), NEW l, HoldsFile(l, f)
  PROVE  Sweeping(l)
<1> DEFINE map == l.ltop_map
<1>1. /\ map = NodesOf(f) /\ map \in Seq(Node) /\ DOMAIN map = DOMAIN f.extents
      /\ l.cyls = f.cyls /\ l.cyls \in Nat \ {0} /\ l.zones = f.zones /\ f.zones \in Seq(G2Zone)
  BY NodesAre DEF HoldsFile
<1>2. ASSUME NEW k \in DOMAIN map
      PROVE  /\ map[k].cyl = f.extents[k].cyl /\ map[k].head = f.extents[k].head
             /\ map[k].cyl \in CylsOf(l)
             /\ \E z \in DOMAIN f.zones : f.zones[z].cyllow <= map[k].cyl /\ map[k].cyl <= f.zones[z].cylhigh
  <2>1. map[k] = NodeOf(f.extents[k]) /\ map[k].cyl < f.cyls
    BY <1>1, NodesAre
  <2>2. map[k].cyl \in Nat
    BY <1>1, NodesType
  <2>3. \E z \in DOMAIN f.zones : f.zones[z].cyllow <= map[k].cyl /\ map[k].cyl <= f.zones[z].cylhigh
    BY <1>1, NodesAre
  <2> QED
    BY <1>1, <2>1, <2>2, <2>3 DEF NodeOf, CylsOf
<1> HIDE DEF map
<1>3. \A j, k \in DOMAIN map : j < k => map[j].cyl <= map[k].cyl
  BY <1>1, <1>2 DEF InSweep
<1>4. ASSUME NEW j \in DOMAIN map, NEW k \in DOMAIN map, j < k, ShareTrack(map[j], map[k]), NEW h \in j .. k
      PROVE  ShareTrack(map[h], map[j])
  <2>1. h \in DOMAIN map
    BY <1>1
  <2>2. ShareTrack(f.extents[j], f.extents[k])
    BY <1>2, <1>4 DEF ShareTrack
  <2>3. ShareTrack(f.extents[h], f.extents[j])
    BY <1>1, <1>4, <2>2 DEF InSweep
  <2> QED
    BY <1>2, <2>1, <2>3 DEF ShareTrack
<1>5. \A y, z \in DOMAIN l.zones : y < z => l.zones[y].cylhigh < l.zones[z].cyllow
  BY <1>1 DEF InSweep
<1>6. \A z \in DOMAIN l.zones : \E k \in DOMAIN map : HasCyl(l, z, map[k].cyl)
  BY <1>1, <1>2 DEF InSweep, HasCyl
<1>7. \A k \in DOMAIN map : \E z \in DOMAIN l.zones : HasCyl(l, z, map[k].cyl)
  BY <1>1, <1>2 DEF HasCyl
<1>8. 1 \in DOMAIN l.zones
  <2>1. f.extents \in Seq(Line) \ {<<>>}
    BY NodesAre
  <2>2. 1 \in DOMAIN f.extents
    BY <2>1
  <2>3. \E z : z \in DOMAIN l.zones
    BY <1>1, <1>7, <2>2
  <2> QED
    BY <1>1, <2>3
<1> QED
  BY <1>1, <1>2, <1>3, <1>4, <1>5, <1>6, <1>7, <1>8 DEF Sweeping, map

\* One zone has a cylinder with extents.
LEMMA ZoneOnIs ==
  ASSUME NEW l, Sweeping(l)
  PROVE  /\ \A z \in DOMAIN l.zones, c \in Nat : HasCyl(l, z, c) => z = ZoneOn(l, c)
         /\ \A k \in DOMAIN l.ltop_map :
              LET z == ZoneOn(l, l.ltop_map[k].cyl) IN
              z \in DOMAIN l.zones /\ l.zones[z] \in G2Zone /\ HasCyl(l, z, l.ltop_map[k].cyl)
<1>1. /\ l.zones \in Seq(G2Zone)
      /\ \A y, z \in DOMAIN l.zones : y < z => l.zones[y].cylhigh < l.zones[z].cyllow
  BY DEF Sweeping
<1>2. \A z \in DOMAIN l.zones : z \in Nat /\ l.zones[z].cyllow \in Nat /\ l.zones[z].cylhigh \in Nat
  <2>1. \A z \in DOMAIN l.zones : z \in Nat /\ l.zones[z] \in G2Zone
    BY <1>1
  <2> QED
    BY <2>1 DEF G2Zone
<1>3. ASSUME NEW y \in DOMAIN l.zones, NEW z \in DOMAIN l.zones, NEW c \in Nat, HasCyl(l, y, c), HasCyl(l, z, c)
      PROVE  y = z
  <2>1. ~(y < z) /\ ~(z < y)
    BY <1>1, <1>2, <1>3 DEF HasCyl
  <2> QED
    BY <1>2, <2>1
<1>4. ASSUME NEW z \in DOMAIN l.zones, NEW c \in Nat, HasCyl(l, z, c)
      PROVE  ZoneOn(l, c) \in DOMAIN l.zones /\ HasCyl(l, ZoneOn(l, c), c)
  BY <1>4 DEF ZoneOn, HasCyl
<1>5. \A k \in DOMAIN l.ltop_map : l.ltop_map[k].cyl \in Nat /\ \E z \in DOMAIN l.zones : HasCyl(l, z, l.ltop_map[k].cyl)
  BY NodesType DEF Sweeping
<1> QED
  BY <1>1, <1>3, <1>4, <1>5

\* An extent begins a cylinder, other than the first of the disk, if it is the first of it.
LEMMA BeginsWhen ==
  ASSUME NEW l, Sweeping(l), l.first \in [CylsOf(l) -> Nat],
         NEW e \in DOMAIN l.ltop_map, FirstsFound(l, e)
  PROVE  LET c == l.ltop_map[e].cyl IN
         /\ c \in CylsOf(l) /\ c \in Nat
         /\ l.first[c] = 0 <=> c # 0 /\ ~Seen(l, e, c)
         /\ ~Seen(l, e, c) => \A k \in DOMAIN l.ltop_map : k < e => l.ltop_map[k].cyl < c
         /\ Seen(l, e, c) => e - 1 \in DOMAIN l.ltop_map /\ l.ltop_map[e - 1].cyl = c
         /\ \A d : c < d => ~Seen(l, e, d) /\ ~Seen(l, e + 1, d)
         /\ \A d : Seen(l, e + 1, d) <=> Seen(l, e, d) \/ d = c
<1> DEFINE map == l.ltop_map
           c == map[e].cyl
<1>1. /\ map \in Seq(Node) /\ \A k \in DOMAIN map : map[k].cyl \in CylsOf(l) /\ map[k].cyl \in Nat /\ k \in Nat \ {0}
      /\ \A j, k \in DOMAIN map : j < k => map[j].cyl <= map[k].cyl
  <2>1. /\ map \in Seq(Node) /\ \A k \in DOMAIN map : map[k].cyl \in CylsOf(l)
        /\ \A j, k \in DOMAIN map : j < k => map[j].cyl <= map[k].cyl
    BY DEF Sweeping
  <2> HIDE DEF map
  <2>2. \A k \in DOMAIN map : map[k].cyl \in Nat /\ k \in Nat \ {0}
    BY <2>1, NodesType
  <2> QED
    BY <2>1, <2>2
<1> HIDE DEF map
<1>2. c \in CylsOf(l) /\ c \in Nat /\ e \in Nat \ {0} /\ e \in DOMAIN map
  BY <1>1 DEF map
<1>3. \A d : Seen(l, e, d) <=> \E k \in DOMAIN map : k < e /\ map[k].cyl = d
  BY DEF Seen, map
<1>4. \A d : Seen(l, e + 1, d) <=> \E k \in DOMAIN map : k < e + 1 /\ map[k].cyl = d
  BY DEF Seen, map
<1>5. \A k \in DOMAIN map : k < e + 1 <=> k < e \/ k = e
  BY <1>1, <1>2
<1>6. l.first[c] = 0 <=> c # 0 /\ ~Seen(l, e, c)
  <2>1. Seen(l, e, c) => l.first[c] # 0
    <3> SUFFICES ASSUME NEW k \in DOMAIN map, k < e, map[k].cyl = c PROVE l.first[c] # 0
      BY <1>3
    <3>1. l.first[c] \in 1 .. k
      BY DEF FirstsFound, map
    <3> QED
      BY <3>1
  <2>2. c # 0 /\ l.first[c] # 0 => Seen(l, e, c)
    BY <1>2 DEF FirstsFound
  <2>3. l.first[0] # 0
    BY DEF FirstsFound
  <2> QED
    BY <2>1, <2>2, <2>3
<1>7. ~Seen(l, e, c) => \A k \in DOMAIN map : k < e => map[k].cyl < c
  BY <1>1, <1>2, <1>3
<1>8. Seen(l, e, c) => e - 1 \in DOMAIN map /\ map[e - 1].cyl = c
  <2> SUFFICES ASSUME NEW k \in DOMAIN map, k < e, map[k].cyl = c
               PROVE  e - 1 \in DOMAIN map /\ map[e - 1].cyl = c
    BY <1>3
  <2>1. e - 1 \in DOMAIN map /\ (k = e - 1 \/ k < e - 1) /\ e - 1 < e
    BY <1>1, <1>2
  <2>2. map[k].cyl <= map[e - 1].cyl /\ map[e - 1].cyl <= c
    BY <1>1, <1>2, <2>1
  <2>3. map[e - 1].cyl \in Nat
    BY <1>1, <2>1
  <2> QED
    BY <1>2, <2>1, <2>2, <2>3
<1>9. \A d : c < d => ~Seen(l, e, d) /\ ~Seen(l, e + 1, d)
  <2> SUFFICES ASSUME NEW k \in DOMAIN map, k < e + 1 PROVE ~(c < map[k].cyl)
    BY <1>3, <1>4, <1>5
  <2>1. map[k].cyl <= c /\ map[k].cyl \in Nat
    BY <1>1, <1>2, <1>5
  <2> QED
    BY <1>2, <2>1
<1>10. \A d : Seen(l, e + 1, d) <=> Seen(l, e, d) \/ d = c
  BY <1>2, <1>3, <1>4, <1>5
<1> QED
  BY <1>2, <1>6, <1>7, <1>8, <1>9, <1>10 DEF map

\* The zone pointer is at the zone of the cylinder.
LEMMA ZoneMoves ==
  ASSUME NEW l, Sweeping(l), l.first \in [CylsOf(l) -> Nat],
         NEW e \in DOMAIN l.ltop_map, FirstsFound(l, e), NEW z,
         IF e = 1 THEN z = 1 ELSE HasCyl(l, z, l.ltop_map[e - 1].cyl)
  PROVE  LET c == l.ltop_map[e].cyl IN
         HasCyl(l, ZoneAt(l, z, c), c) /\ ZoneAt(l, z, c) = ZoneOn(l, c)
<1> DEFINE map == l.ltop_map
           c == map[e].cyl
           low(y) == l.zones[y].cyllow
           high(y) == l.zones[y].cylhigh
<1>1. /\ map \in Seq(Node) /\ \A k \in DOMAIN map : map[k].cyl \in Nat /\ k \in Nat \ {0}
      /\ \A j, k \in DOMAIN map : j < k => map[j].cyl <= map[k].cyl
  BY NodesType DEF Sweeping
<1>2. /\ l.zones \in Seq(G2Zone)
      /\ \A x, y \in DOMAIN l.zones : x < y => high(x) < low(y)
      /\ \A y \in DOMAIN l.zones : \E k \in DOMAIN map : HasCyl(l, y, map[k].cyl)
  BY DEF Sweeping
<1>3. \A y \in DOMAIN l.zones : y \in Nat \ {0} /\ low(y) \in Nat /\ high(y) \in Nat
  <2>1. \A y \in DOMAIN l.zones : y \in Nat \ {0} /\ l.zones[y] \in G2Zone
    BY <1>2
  <2> QED
    BY <2>1 DEF G2Zone
<1>4. \A y, d : HasCyl(l, y, d) <=> y \in DOMAIN l.zones /\ low(y) <= d /\ d <= high(y)
  BY DEF HasCyl
<1>5. /\ c \in Nat /\ e \in Nat \ {0} /\ e \in DOMAIN map
      /\ l.first[c] = 0 <=> c # 0 /\ ~Seen(l, e, c)
      /\ Seen(l, e, c) => e - 1 \in DOMAIN map /\ map[e - 1].cyl = c
  BY <1>1, BeginsWhen
<1>6. PICK o \in DOMAIN l.zones : HasCyl(l, o, c)
  BY DEF Sweeping
<1>7. ZoneAt(l, z, c) = IF l.first[c] = 0 /\ high(z) < c THEN z + 1 ELSE z
  BY DEF ZoneAt
<1> HIDE DEF map, c, low, high
<1>8. CASE e = 1
  <2>1. z = 1 /\ \A k \in DOMAIN map : c <= map[k].cyl
    <3> SUFFICES ASSUME NEW k \in DOMAIN map PROVE c <= map[k].cyl
      BY <1>8
    <3>1. k = e \/ e < k
      BY <1>1, <1>8
    <3> QED
      BY <1>1, <1>5, <3>1 DEF c
  <2>2. 1 \in DOMAIN l.zones
    BY DEF Sweeping
  <2>3. c <= high(1)
    <3>1. PICK k \in DOMAIN map : HasCyl(l, 1, map[k].cyl)
      BY <1>2, <2>2
    <3>2. c <= map[k].cyl /\ map[k].cyl <= high(1) /\ map[k].cyl \in Nat /\ high(1) \in Nat
      BY <1>1, <1>3, <1>4, <2>1, <2>2, <3>1
    <3> QED
      BY <1>5, <3>2
  <2>4. o = 1
    <3>1. low(o) <= c /\ o \in Nat \ {0} /\ low(o) \in Nat /\ high(1) \in Nat
      BY <1>3, <1>4, <1>6, <2>2
    <3>2. ~(1 < o)
      BY <1>2, <1>5, <2>2, <2>3, <3>1
    <3> QED
      BY <3>1, <3>2
  <2>5. ZoneAt(l, z, c) = 1
    BY <1>3, <1>5, <1>7, <2>1, <2>2, <2>3
  <2> QED
    BY <1>5, <1>6, <2>4, <2>5, ZoneOnIs DEF map, c
<1>9. CASE e # 1
  <2> DEFINE b == map[e - 1].cyl
  <2>1. e - 1 \in DOMAIN map /\ b \in Nat /\ b <= c /\ HasCyl(l, z, b)
    <3>1. e - 1 \in DOMAIN map /\ e - 1 < e
      BY <1>1, <1>5, <1>9
    <3> QED
      BY <1>1, <1>5, <1>9, <3>1 DEF c, map
  <2> HIDE DEF b
  <2>2. z \in DOMAIN l.zones /\ low(z) <= b /\ b <= high(z) /\ z \in Nat \ {0} /\ low(z) \in Nat /\ high(z) \in Nat
    BY <1>3, <1>4, <2>1
  <2>3. CASE ~(l.first[c] = 0 /\ high(z) < c)
    <3>1. c <= high(z)
      <4>1. CASE l.first[c] # 0
        <5>1. c = 0 \/ Seen(l, e, c)
          BY <1>5, <4>1
        <5>2. c = 0 \/ b = c
          BY <1>5, <5>1 DEF b
        <5> QED
          BY <1>5, <2>1, <2>2, <5>2
      <4>2. CASE ~(high(z) < c)
        BY <1>5, <2>2, <4>2
      <4> QED
        BY <2>3, <4>1, <4>2
    <3>2. HasCyl(l, z, c) /\ ZoneAt(l, z, c) = z
      BY <1>4, <1>5, <1>7, <2>1, <2>2, <2>3, <3>1
    <3> QED
      BY <1>5, <2>2, <3>2, ZoneOnIs DEF map, c
  <2>4. CASE l.first[c] = 0 /\ high(z) < c
    <3>1. low(o) <= c /\ c <= high(o) /\ o \in Nat \ {0} /\ low(o) \in Nat /\ high(o) \in Nat
      BY <1>3, <1>4, <1>6
    <3>2. z < o
      <4>1. ~(o < z)
        BY <1>2, <1>5, <2>1, <2>2, <3>1
      <4>2. o # z
        BY <1>5, <2>4, <3>1
      <4> QED
        BY <2>2, <3>1, <4>1, <4>2
    <3>3. z + 1 \in DOMAIN l.zones
      BY <1>2, <2>2, <3>1, <3>2
    <3>4. o = z + 1
      <4> SUFFICES ASSUME z + 1 < o PROVE FALSE
        BY <2>2, <3>1, <3>2
      <4>1. high(z + 1) < low(o) /\ high(z) < low(z + 1) /\ high(z + 1) \in Nat /\ low(z + 1) \in Nat
        BY <1>2, <1>3, <2>2, <3>3
      <4>2. PICK k \in DOMAIN map : HasCyl(l, z + 1, map[k].cyl)
        BY <1>2, <3>3
      <4>3. low(z + 1) <= map[k].cyl /\ map[k].cyl <= high(z + 1) /\ map[k].cyl \in Nat /\ k \in Nat
        BY <1>1, <1>4, <4>2
      <4>4. map[k].cyl < c /\ b < map[k].cyl
        BY <1>5, <2>1, <2>2, <3>1, <4>1, <4>3
      <4>5. ~(e < k) /\ e # k
        BY <1>1, <1>5, <4>3, <4>4 DEF c
      <4>6. k = e - 1 \/ k < e - 1
        BY <1>5, <4>3, <4>5
      <4>7. map[k].cyl <= b
        BY <1>1, <2>1, <4>3, <4>6 DEF b
      <4> QED
        BY <2>1, <4>3, <4>4, <4>7
    <3>5. ZoneAt(l, z, c) = z + 1
      BY <1>7, <2>4
    <3> QED
      BY <1>5, <1>6, <3>4, <3>5, ZoneOnIs DEF map, c
  <2> QED
    BY <2>3, <2>4
<1> QED
  BY <1>8, <1>9 DEF map, c

-----------------------------------------------------------------------------
(* A turn of precompute_skews *)

LEMMA ModSum ==
  ASSUME NEW a \in Int, NEW b \in Int
  PROVE  ((a % Circle) + b) % Circle = (a + b) % Circle
<1> DEFINE m == a % Circle
           r == (a + b) % Circle
<1>1. m \in Int /\ Cong(m, a)
  BY CongMod
<1>2. r \in 0 .. Circle - 1 /\ Cong(a + b, r)
  BY CongMod
<1> HIDE DEF m, r
<1>3. Cong(m + b, a + b)
  BY <1>1, CongSame, CongSum
<1>4. Cong(m + b, r)
  <2>1. Circle \in Int
    BY CircleAssumption
  <2>2. m + b \in Int /\ a + b \in Int /\ r \in Int
    BY <1>1, <1>2, <2>1
  <2> QED
    BY <1>2, <1>3, <2>2, CongOn
<1>5. (m + b) % Circle = r
  BY <1>1, <1>2, <1>4, CongOnly
<1> QED
  BY <1>5 DEF m, r

\* What the turn of extent e begins with.
Turning(l, e, z, next) ==
  /\ Sweeping(l) /\ l.first \in [CylsOf(l) -> Nat] /\ l.skew \in [CylsOf(l) -> 0 .. Circle - 1]
  /\ e \in DOMAIN l.ltop_map /\ FirstsFound(l, e) /\ z = ZoneOn(l, l.ltop_map[e].cyl)
  /\ e < Len(l.ltop_map) => next = [cyl |-> l.ltop_map[e + 1].cyl, head |-> l.ltop_map[e + 1].head]

\* The turn leaves the extents and zones as they were.
LEMMA SameExtents ==
  ASSUME NEW l, NEW e, NEW z, NEW next
  PROVE  LET m == TurnOf(l, e, z, next) IN
         /\ m.cyls = l.cyls /\ m.ltop_map = l.ltop_map /\ m.zones = l.zones /\ CylsOf(m) = CylsOf(l)
         /\ \A k, d : Seen(m, k, d) = Seen(l, k, d)
         /\ \A d : ZoneOn(m, d) = ZoneOn(l, d) /\ Starts(m, d) = Starts(l, d)
         /\ \A y, d : HasCyl(m, y, d) = HasCyl(l, y, d)
         /\ \A k, n, y : SwitchTo(m, k, n, y) = SwitchTo(l, k, n, y)
<1> DEFINE m == TurnOf(l, e, z, next)
<1>1. m.cyls = l.cyls /\ m.ltop_map = l.ltop_map /\ m.zones = l.zones
  BY DEF TurnOf
<1> HIDE DEF m
<1>2. CylsOf(m) = CylsOf(l)
  BY <1>1 DEF CylsOf
<1>3. \A k, d : Seen(m, k, d) = Seen(l, k, d)
  BY <1>1 DEF Seen
<1>4. \A d : ZoneOn(m, d) = ZoneOn(l, d)
  BY <1>1 DEF ZoneOn
<1>5. \A d : Starts(m, d) = Starts(l, d)
  BY <1>1, <1>4 DEF Starts
<1>6. \A y, d : HasCyl(m, y, d) = HasCyl(l, y, d)
  BY <1>1 DEF HasCyl
<1>7. \A k, n, y : SwitchTo(m, k, n, y) = SwitchTo(l, k, n, y)
  BY <1>1 DEF SwitchTo
<1> QED
  BY <1>1, <1>2, <1>3, <1>4, <1>5, <1>6, <1>7 DEF m

\* Which skews the turn changes, and how.
LEMMA TurnSkews ==
  ASSUME NEW l, NEW e, NEW z, NEW next, Turning(l, e, z, next)
  PROVE  LET m == TurnOf(l, e, z, next)
             c == l.ltop_map[e].cyl
             begin == c # 0 /\ ~Seen(l, e, c)
         IN  /\ \A d \in CylsOf(l) : d # c /\ d # c + 1 => m.skew[d] = l.skew[d]
             /\ m.skew[c] = IF begin /\ Starts(l, c) THEN l.zones[z].zskew ELSE l.skew[c]
             /\ c + 1 \in CylsOf(l) =>
                  m.skew[c + 1] = ((IF begin /\ ~Starts(l, c) THEN l.skew[c] ELSE l.skew[c + 1])
                                    + SwitchTo(l, e, next, z)) % Circle
<1> DEFINE m == TurnOf(l, e, z, next)
           c == l.ltop_map[e].cyl
           begin == c # 0 /\ ~Seen(l, e, c)
           a == SwitchTo(l, e, next, z)
           B == Begun(l, c, z)
<1>1. c \in CylsOf(l) /\ c \in Nat /\ (l.first[c] = 0 <=> begin)
  BY BeginsWhen DEF Turning
<1>2. Starts(l, c) <=> c # 0 /\ l.zones[z].cyllow = c
  BY DEF Starts, Turning
<1>3. B = IF ~begin THEN l.skew
          ELSE IF Starts(l, c) THEN [l.skew EXCEPT ![c] = l.zones[z].zskew]
          ELSE IF c + 1 \in CylsOf(l) THEN [l.skew EXCEPT ![c + 1] = l.skew[c]] ELSE l.skew
  BY <1>1, <1>2 DEF Begun
<1>4. m.skew = IF c + 1 \in CylsOf(l) THEN [B EXCEPT ![c + 1] = (B[c + 1] + a) % Circle] ELSE B
  BY DEF TurnOf, Added
<1>5. l.skew \in [CylsOf(l) -> 0 .. Circle - 1] /\ c # c + 1
  BY <1>1 DEF Turning
<1> HIDE DEF m, c, begin, a, B
<1>6. /\ DOMAIN B = CylsOf(l)
      /\ \A d \in CylsOf(l) : d # c /\ d # c + 1 => B[d] = l.skew[d]
      /\ B[c] = IF begin /\ Starts(l, c) THEN l.zones[z].zskew ELSE l.skew[c]
      /\ c + 1 \in CylsOf(l) => B[c + 1] = IF begin /\ ~Starts(l, c) THEN l.skew[c] ELSE l.skew[c + 1]
  <2>1. CASE ~begin
    BY <1>3, <1>5, <2>1
  <2>2. CASE begin /\ Starts(l, c)
    BY <1>1, <1>3, <1>5, <2>2
  <2>3. CASE begin /\ ~Starts(l, c)
    BY <1>1, <1>3, <1>5, <2>3
  <2> QED
    BY <2>1, <2>2, <2>3
<1>7. CASE c + 1 \in CylsOf(l)
  BY <1>1, <1>4, <1>5, <1>6, <1>7 DEF m, c, begin, a
<1>8. CASE c + 1 \notin CylsOf(l)
  BY <1>1, <1>4, <1>5, <1>6, <1>8 DEF m, c, begin, a
<1> QED
  BY <1>7, <1>8 DEF m, c, begin, a

LEMMA FirstsStep ==
  ASSUME NEW l, NEW e, NEW z, NEW next, Turning(l, e, z, next)
  PROVE  /\ FirstsFound(TurnOf(l, e, z, next), e + 1)
         /\ \A k \in DOMAIN l.ltop_map : k < e =>
              TurnOf(l, e, z, next).first[l.ltop_map[k].cyl] = l.first[l.ltop_map[k].cyl]
<1> DEFINE m == TurnOf(l, e, z, next)
           map == l.ltop_map
           c == map[e].cyl
           F == m.first
<1>1. /\ map \in Seq(Node) /\ e \in DOMAIN map /\ l.first \in [CylsOf(l) -> Nat] /\ FirstsFound(l, e) /\ Sweeping(l)
      /\ \A k \in DOMAIN map : map[k].cyl \in CylsOf(l)
  BY DEF Turning, Sweeping
<1>2. /\ c \in CylsOf(l) /\ c \in Nat
      /\ l.first[c] = 0 <=> c # 0 /\ ~Seen(l, e, c)
      /\ \A d : Seen(l, e + 1, d) <=> Seen(l, e, d) \/ d = c
  BY <1>1, BeginsWhen
<1>3. F = [l.first EXCEPT ![c] = IF l.first[c] = 0 THEN e ELSE l.first[c]]
  BY DEF TurnOf
<1>4. m.ltop_map = map /\ CylsOf(m) = CylsOf(l) /\ \A k, d : Seen(m, k, d) = Seen(l, k, d)
  BY SameExtents
<1>5. /\ \A k \in DOMAIN map : k < e =>
           /\ l.first[map[k].cyl] \in 1 .. k /\ map[l.first[map[k].cyl]].cyl = map[k].cyl
           /\ \A j \in 1 .. l.first[map[k].cyl] - 1 : map[j].cyl # map[k].cyl
      /\ \A d \in CylsOf(l) : d # 0 /\ l.first[d] # 0 => Seen(l, e, d)
      /\ l.first[0] = 1
  BY <1>1 DEF FirstsFound
<1>6. \A k, d : Seen(l, k, d) <=> \E j \in DOMAIN map : j < k /\ map[j].cyl = d
  BY DEF Seen
<1>7. e \in Nat \ {0} /\ DOMAIN map = 1 .. Len(map) /\ Len(map) \in Nat
  BY <1>1
<1> HIDE DEF m, map, c, F
<1>8. ASSUME NEW k \in DOMAIN map, k < e PROVE F[map[k].cyl] = l.first[map[k].cyl]
  <2>1. l.first[map[k].cyl] \in 1 .. k
    BY <1>5, <1>8
  <2>2. map[k].cyl = c => l.first[c] # 0
    BY <2>1
  <2> QED
    BY <1>1, <1>2, <1>3, <2>2
<1>9. ASSUME NEW k \in DOMAIN map, k < e + 1
      PROVE  /\ F[map[k].cyl] \in 1 .. k /\ map[F[map[k].cyl]].cyl = map[k].cyl
             /\ \A j \in 1 .. F[map[k].cyl] - 1 : map[j].cyl # map[k].cyl
  <2>1. CASE k < e
    BY <1>5, <1>8, <2>1
  <2>2. CASE k = e /\ ~Seen(l, e, c) /\ c # 0
    <3>1. F[c] = e
      BY <1>1, <1>2, <1>3, <2>2
    <3>2. \A j \in 1 .. e - 1 : map[j].cyl # c
      BY <1>6, <1>7, <2>2
    <3> QED
      BY <1>7, <2>2, <3>1, <3>2 DEF c
  <2>3. CASE k = e /\ Seen(l, e, c)
    <3>1. PICK j \in DOMAIN map : j < e /\ map[j].cyl = c
      BY <1>6, <2>3
    <3>2. F[c] = l.first[c] /\ F[c] \in 1 .. j /\ map[F[c]].cyl = c /\ \A i \in 1 .. F[c] - 1 : map[i].cyl # c
      BY <1>5, <1>8, <3>1
    <3>3. F[c] \in 1 .. e
      BY <1>7, <3>1, <3>2
    <3> QED
      BY <2>3, <3>2, <3>3 DEF c
  <2>4. CASE k = e /\ ~Seen(l, e, c) /\ c = 0
    <3>1. F[c] = 1
      BY <1>1, <1>2, <1>3, <1>5, <2>4
    <3>2. e = 1
      <4> SUFFICES ASSUME e # 1 PROVE FALSE
        OBVIOUS
      <4>1. 1 \in DOMAIN map /\ 1 < e
        BY <1>7
      <4>2. map[1].cyl < c /\ map[1].cyl \in Nat
        <5>1. \A j \in DOMAIN map : j < e => map[j].cyl < c
          BY <1>1, <2>4, BeginsWhen DEF map, c
        <5>2. map[1].cyl \in Nat
          BY <1>1, <4>1, NodesType
        <5> QED
          BY <4>1, <5>1, <5>2
      <4> QED
        BY <2>4, <4>2
    <3>3. map[1].cyl = c
      BY <3>2 DEF c
    <3> QED
      BY <1>7, <2>4, <3>1, <3>2, <3>3
  <2> QED
    BY <1>7, <1>9, <2>1, <2>2, <2>3, <2>4
<1>10. \A d \in CylsOf(l) : d # 0 /\ F[d] # 0 => Seen(l, e + 1, d)
  <2> SUFFICES ASSUME NEW d \in CylsOf(l), d # 0, F[d] # 0, d # c PROVE Seen(l, e, d)
    BY <1>2
  <2>1. F[d] = l.first[d]
    BY <1>1, <1>3
  <2> QED
    BY <1>5, <2>1
<1>11. F[0] = 1
  <2>1. 0 \in CylsOf(l)
    BY <1>1 DEF Sweeping, CylsOf
  <2>2. c = 0 => l.first[c] = 1
    BY <1>5
  <2> QED
    BY <1>1, <1>2, <1>3, <1>5, <2>1, <2>2
<1>12. FirstsFound(m, e + 1)
  BY <1>4, <1>9, <1>10, <1>11 DEF FirstsFound, F
<1> QED
  BY <1>8, <1>12 DEF m, map, F

\* Cylinders that no switch leads to keep 0, and those that begin a zone its skew.
LEMMA FixedSkewsStep ==
  ASSUME NEW l, NEW e, NEW z, NEW next, Turning(l, e, z, next), SkewsFound(l, e)
  PROVE  LET m == TurnOf(l, e, z, next) IN
         \A d \in CylsOf(l) :
           /\ ~Seen(l, e + 1, d - 1) /\ ~(Seen(l, e + 1, d) /\ Starts(l, d)) => m.skew[d] = 0
           /\ Seen(l, e + 1, d) /\ Starts(l, d) => m.skew[d] = l.zones[ZoneOn(l, d)].zskew
<1> DEFINE m == TurnOf(l, e, z, next)
           c == l.ltop_map[e].cyl
           begin == c # 0 /\ ~Seen(l, e, c)
<1>1. /\ c \in CylsOf(l) /\ c \in Nat
      /\ \A d : c < d => ~Seen(l, e, d) /\ ~Seen(l, e + 1, d)
      /\ \A d : Seen(l, e + 1, d) <=> Seen(l, e, d) \/ d = c
      /\ z = ZoneOn(l, c)
  BY BeginsWhen DEF Turning
<1>2. /\ \A d \in CylsOf(l) : d # c /\ d # c + 1 => m.skew[d] = l.skew[d]
      /\ m.skew[c] = IF begin /\ Starts(l, c) THEN l.zones[z].zskew ELSE l.skew[c]
  BY TurnSkews
<1>3. /\ \A d \in CylsOf(l) : ~Seen(l, e, d - 1) /\ ~(Seen(l, e, d) /\ Starts(l, d)) => l.skew[d] = 0
      /\ \A d \in CylsOf(l) : Seen(l, e, d) /\ Starts(l, d) => l.skew[d] = l.zones[ZoneOn(l, d)].zskew
  BY DEF SkewsFound
<1>4. Starts(l, c) => c # 0
  BY DEF Starts
<1> HIDE DEF m, c, begin
<1>5. ASSUME NEW d \in CylsOf(l), ~Seen(l, e + 1, d - 1), ~(Seen(l, e + 1, d) /\ Starts(l, d))
      PROVE  m.skew[d] = 0
  <2>1. d # c + 1
    <3>1. Seen(l, e + 1, c)
      BY <1>1
    <3>2. d = c + 1 => d - 1 = c
      BY <1>1
    <3> QED
      BY <1>5, <3>1, <3>2
  <2>2. l.skew[d] = 0
    BY <1>1, <1>3, <1>5
  <2>3. d = c => ~Starts(l, c)
    BY <1>1, <1>5
  <2> QED
    BY <1>2, <2>1, <2>2, <2>3
<1>6. ASSUME NEW d \in CylsOf(l), Seen(l, e + 1, d), Starts(l, d)
      PROVE  m.skew[d] = l.zones[ZoneOn(l, d)].zskew
  <2>1. CASE d = c
    <3>1. CASE begin
      BY <1>1, <1>2, <1>6, <2>1, <3>1
    <3>2. CASE ~begin
      <4>1. Seen(l, e, c)
        BY <1>4, <1>6, <2>1, <3>2 DEF begin
      <4> QED
        BY <1>2, <1>3, <1>6, <2>1, <3>2, <4>1
    <3> QED
      BY <3>1, <3>2
  <2>2. CASE d # c
    <3>1. d # c + 1 /\ Seen(l, e, d)
      BY <1>1, <1>6, <2>2
    <3> QED
      BY <1>2, <1>3, <1>6, <2>2, <3>1
  <2> QED
    BY <2>1, <2>2
<1> QED
  BY <1>5, <1>6 DEF m

\* What the cylinder of extent e hands on to the next.
LEMMA CarriedByTurn ==
  ASSUME NEW l, NEW e, NEW z, NEW next, Turning(l, e, z, next), SkewsFound(l, e), e < Len(l.ltop_map),
         l.ltop_map[e].cyl + 1 \in CylsOf(l)
  PROVE  LET m == TurnOf(l, e, z, next) IN m.skew[l.ltop_map[e].cyl + 1] = Carried(m, e)
<1> DEFINE m    == TurnOf(l, e, z, next)
           map  == l.ltop_map
           c    == map[e].cyl
           a    == SwitchTo(l, e, next, z)
           F    == m.first
           zone == l.zones[z]
           sum  == SwitchSums(map, F[c], zone)
<1>1. /\ c \in CylsOf(l) /\ c \in Nat
      /\ Seen(l, e, c) => e - 1 \in DOMAIN map /\ map[e - 1].cyl = c
      /\ \A d : c < d => ~Seen(l, e, d)
  BY BeginsWhen DEF Turning
<1>2. /\ m.skew[c] = IF c # 0 /\ ~Seen(l, e, c) /\ Starts(l, c) THEN zone.zskew ELSE l.skew[c]
      /\ m.skew[c + 1] = ((IF c # 0 /\ ~Seen(l, e, c) /\ ~Starts(l, c) THEN l.skew[c] ELSE l.skew[c + 1]) + a) % Circle
  BY TurnSkews
<1>3. /\ \A d \in CylsOf(l) : ~Seen(l, e, d - 1) /\ ~(Seen(l, e, d) /\ Starts(l, d)) => l.skew[d] = 0
      /\ \A k \in 1 .. Len(map) - 1 : LastSeen(l, e, k) =>
           (map[k].cyl + 1 \in CylsOf(l) /\ ~(Seen(l, e, map[k].cyl + 1) /\ Starts(l, map[k].cyl + 1))
              => l.skew[map[k].cyl + 1] = Carried(l, k))
  BY DEF SkewsFound
<1>4. /\ map \in Seq(Node) /\ e \in DOMAIN map /\ z = ZoneOn(l, c) /\ zone \in G2Zone
      /\ l.skew \in [CylsOf(l) -> 0 .. Circle - 1] /\ Sweeping(l)
      /\ next = [cyl |-> map[e + 1].cyl, head |-> map[e + 1].head]
  BY ZoneOnIs DEF Turning, Sweeping
<1>5. /\ m.ltop_map = map /\ ZoneOn(m, c) = z /\ m.zones[z] = zone /\ Starts(m, c) = Starts(l, c)
      /\ \A k, n, y : SwitchTo(m, k, n, y) = SwitchTo(l, k, n, y)
      /\ \A k, d : Seen(m, k, d) = Seen(l, k, d)
  BY <1>4, SameExtents
<1>6. a = SwitchTo(l, e, map[e + 1], z) /\ a \in Nat
  <2>1. zone.csskew \in Nat /\ zone.hsskew \in Nat
    BY <1>4 DEF G2Zone
  <2> QED
    BY <1>4, <2>1 DEF SwitchTo
<1>7. /\ F[c] \in 1 .. e /\ map[F[c]].cyl = c
      /\ \A k \in DOMAIN map : k < e => F[map[k].cyl] = l.first[map[k].cyl]
  <2>1. FirstsFound(m, e + 1)
    BY FirstsStep
  <2>2. e \in DOMAIN map /\ e < e + 1
    BY <1>4
  <2> QED
    BY <1>5, <2>1, <2>2, FirstsStep DEF FirstsFound
<1>8. Carried(m, e) = (HandedOn(m, c) + sum[e] + a) % Circle
  BY <1>5, <1>6 DEF Carried
<1>9. HandedOn(m, c) = IF Starts(l, c) THEN 0 ELSE m.skew[c]
  BY <1>5 DEF HandedOn
<1>10. /\ sum[F[c]] = 0
       /\ \A k \in F[c] + 1 .. Len(map) : sum[k] = sum[k - 1] + Switches(map, k, zone)
       /\ \A k \in F[c] .. Len(map) : sum[k] \in Nat
  <2> HIDE DEF map, F, c, zone
  <2>1. F[c] \in DOMAIN map
    BY <1>4, <1>7
  <2> QED
    BY <1>4, <2>1, SwitchSumsAre
<1>11. l.skew[c] \in Nat /\ l.skew[c + 1] \in Nat /\ Circle \in Nat \ {0} /\ e \in Nat \ {0} /\ Len(map) \in Nat
  BY <1>1, <1>4, CircleAssumption
<1>12. Starts(l, c) => c # 0
  BY DEF Starts
<1>13. \A k \in DOMAIN map : map[k].cyl \in Nat
  BY <1>4, NodesType
<1> HIDE DEF m, map, c, a, F, zone, sum
<1>14. CASE ~Seen(l, e, c)
  <2>1. F[c] = e
    <3>1. F[c] < e => Seen(l, e, c)
      BY <1>4, <1>7 DEF Seen, map
    <3> QED
      BY <1>7, <1>11, <1>14, <3>1
  <2>2. sum[e] = 0
    BY <1>10, <2>1
  <2>3. l.skew[c + 1] = 0
    <3>1. (c + 1) - 1 = c /\ c < c + 1
      BY <1>1
    <3>2. c + 1 \in CylsOf(l)
      BY DEF c, map
    <3> QED
      BY <1>1, <1>3, <1>14, <3>1, <3>2
  <2>4. c = 0 => l.skew[c] = 0
    <3> SUFFICES ASSUME c = 0 PROVE l.skew[c] = 0
      OBVIOUS
    <3>1. ~Seen(l, e, c - 1)
      BY <1>13 DEF Seen, map
    <3>2. ~Starts(l, c)
      BY <1>12
    <3> QED
      BY <1>1, <1>3, <3>1, <3>2
  <2>5. HandedOn(m, c) + sum[e] + a
          = (IF c # 0 /\ ~Seen(l, e, c) /\ ~Starts(l, c) THEN l.skew[c] ELSE l.skew[c + 1]) + a
    BY <1>2, <1>6, <1>9, <1>11, <1>12, <1>14, <2>2, <2>3, <2>4
  <2>6. m.skew[c + 1] = Carried(m, e)
    BY <1>2, <1>8, <2>5
  <2> QED
    BY <2>6 DEF m, c, map
<1>15. CASE Seen(l, e, c)
  <2> DEFINE h == HandedOn(l, c)
             s == Switches(map, e, zone)
  <2>1. e - 1 \in 1 .. Len(map) - 1 /\ map[e - 1].cyl = c /\ e - 1 < e /\ (e - 1) + 1 = e /\ e - 1 \in DOMAIN map
    BY <1>1, <1>4, <1>11, <1>15
  <2>2. F[c] = l.first[c] /\ F[c] \in 1 .. e - 1
    <3>1. F[c] = l.first[c]
      BY <1>7, <2>1
    <3>2. l.first[c] \in 1 .. e - 1
      BY <2>1 DEF Turning, FirstsFound, map
    <3> QED
      BY <3>1, <3>2
  <2>3. l.skew[c + 1] = Carried(l, e - 1)
    <3>1. LastSeen(l, e, e - 1)
      BY <2>1 DEF LastSeen
    <3>2. c + 1 \in CylsOf(l) /\ ~Seen(l, e, c + 1)
      BY <1>1 DEF c, map
    <3> QED
      BY <1>3, <2>1, <3>1, <3>2
  <2>4. Carried(l, e - 1) = (h + sum[e - 1] + SwitchTo(l, e - 1, map[e], z)) % Circle
    BY <1>4, <2>1, <2>2 DEF Carried, map, sum, zone
  <2>5. SwitchTo(l, e - 1, map[e], z) = s
    <3>1. map[e].cyl = map[e - 1].cyl
      BY <2>1 DEF c
    <3>2. s = IF map[e].head # map[e - 1].head THEN zone.hsskew ELSE 0
      <4>1. zone.hsskew \in Nat
        BY <1>4 DEF G2Zone
      <4> QED
        BY <3>1, <4>1 DEF Switches
    <3> QED
      BY <3>1, <3>2 DEF SwitchTo, map, zone
  <2>6. sum[e] = sum[e - 1] + s /\ sum[e - 1] \in Nat /\ sum[e] \in Nat
    <3>1. e \in F[c] + 1 .. Len(map) /\ e - 1 \in F[c] .. Len(map) /\ e \in F[c] .. Len(map)
      BY <1>4, <1>11, <2>2
    <3> QED
      BY <1>10, <3>1
  <2>7. HandedOn(m, c) = h /\ h \in Nat
    BY <1>2, <1>9, <1>11, <1>15 DEF HandedOn
  <2>8. s \in Nat
    BY <1>4 DEF Switches, G2Zone
  <2>9. m.skew[c + 1] = (l.skew[c + 1] + a) % Circle
    BY <1>2, <1>15
  <2> HIDE DEF h, s
  <2>10. m.skew[c + 1] = (h + sum[e - 1] + s + a) % Circle
    <3> DEFINE x == h + sum[e - 1] + s
    <3>1. x \in Int /\ a \in Int
      BY <1>6, <2>6, <2>7, <2>8
    <3>2. l.skew[c + 1] = x % Circle
      BY <2>3, <2>4, <2>5
    <3> HIDE DEF x
    <3>3. ((x % Circle) + a) % Circle = (x + a) % Circle
      BY <3>1, ModSum
    <3>4. m.skew[c + 1] = (x + a) % Circle
      BY <2>9, <3>2, <3>3
    <3> QED
      BY <3>4 DEF x
  <2>11. h + sum[e - 1] + s + a = HandedOn(m, c) + sum[e] + a
    BY <1>6, <2>6, <2>7, <2>8
  <2>12. m.skew[c + 1] = Carried(m, e)
    BY <1>8, <2>10, <2>11
  <2> QED
    BY <2>12 DEF m, c, map
<1> QED
  BY <1>14, <1>15

LEMMA SkewsStep ==
  ASSUME NEW l, NEW e, NEW z, NEW next, Turning(l, e, z, next), SkewsFound(l, e)
  PROVE  SkewsFound(TurnOf(l, e, z, next), e + 1)
<1> DEFINE m   == TurnOf(l, e, z, next)
           map == l.ltop_map
           c   == map[e].cyl
<1>1. /\ m.ltop_map = map /\ m.zones = l.zones /\ CylsOf(m) = CylsOf(l)
      /\ \A k, d : Seen(m, k, d) = Seen(l, k, d)
      /\ \A d : ZoneOn(m, d) = ZoneOn(l, d) /\ Starts(m, d) = Starts(l, d)
      /\ \A k, n, y : SwitchTo(m, k, n, y) = SwitchTo(l, k, n, y)
  BY SameExtents
<1>2. \A d \in CylsOf(l) :
        /\ ~Seen(l, e + 1, d - 1) /\ ~(Seen(l, e + 1, d) /\ Starts(l, d)) => m.skew[d] = 0
        /\ Seen(l, e + 1, d) /\ Starts(l, d) => m.skew[d] = l.zones[ZoneOn(l, d)].zskew
  BY FixedSkewsStep
<1>3. ASSUME NEW k \in 1 .. Len(map) - 1, LastSeen(m, e + 1, k), map[k].cyl + 1 \in CylsOf(l),
             ~(Seen(l, e + 1, map[k].cyl + 1) /\ Starts(l, map[k].cyl + 1))
      PROVE  m.skew[map[k].cyl + 1] = Carried(m, k)
  <2>1. /\ map \in Seq(Node) /\ e \in DOMAIN map /\ e \in Nat \ {0} /\ Len(map) \in Nat
        /\ \A i, j \in DOMAIN map : i < j => map[i].cyl <= map[j].cyl
    <3>1. /\ map \in Seq(Node) /\ e \in DOMAIN map
          /\ \A i, j \in DOMAIN map : i < j => map[i].cyl <= map[j].cyl
      BY DEF Turning, Sweeping
    <3> HIDE DEF map
    <3> QED
      BY <3>1
  <2>2. k < e + 1 /\ (k = e \/ map[k + 1].cyl # map[k].cyl) /\ k \in Nat \ {0} /\ k <= Len(map) - 1
    <3>1. k < e + 1 /\ (k = (e + 1) - 1 \/ map[k + 1].cyl # map[k].cyl)
      BY <1>1, <1>3 DEF LastSeen
    <3> QED
      BY <2>1, <3>1
  <2>3. CASE k = e
    <3>1. e < Len(map)
      BY <2>1, <2>2, <2>3
    <3> QED
      BY <1>3, <2>3, <3>1, CarriedByTurn
  <2>4. CASE k # e
    <3> DEFINE b == map[k].cyl
    <3>1. k < e /\ k \in DOMAIN map /\ k + 1 \in DOMAIN map /\ (k + 1 = e \/ k + 1 < e)
      BY <2>1, <2>2, <2>4
    <3>2. b \in Nat /\ map[k + 1].cyl \in Nat /\ c \in Nat
      BY <2>1, <3>1, NodesType
    <3>3. b <= map[k + 1].cyl /\ map[k + 1].cyl <= c
      BY <2>1, <2>2, <3>1, <3>2
    <3>4. b < c
      BY <2>2, <2>4, <3>2, <3>3
    <3>5. LastSeen(l, e, k)
      BY <2>2, <2>4, <3>1 DEF LastSeen
    <3>6. /\ \A d : Seen(l, e + 1, d) <=> Seen(l, e, d) \/ d = c
          /\ c \in CylsOf(l)
      BY BeginsWhen DEF Turning
    <3>7. l.skew[b + 1] = Carried(l, k)
      BY <1>3, <3>5, <3>6 DEF SkewsFound
    <3>8. /\ \A d \in CylsOf(l) : d # c /\ d # c + 1 => m.skew[d] = l.skew[d]
          /\ m.skew[c] = IF c # 0 /\ ~Seen(l, e, c) /\ Starts(l, c) THEN l.zones[z].zskew ELSE l.skew[c]
      BY TurnSkews
    <3>9. m.first[b] = l.first[b]
      BY <3>1, FirstsStep
    <3>10. b \in CylsOf(l)
      BY <3>1 DEF Turning, Sweeping
    <3> HIDE DEF m, map, c, b
    <3>11. m.skew[b] = l.skew[b]
      BY <3>2, <3>4, <3>8, <3>10
    <3>12. m.skew[b + 1] = l.skew[b + 1]
      <4>1. b + 1 \in CylsOf(l) /\ ~(Seen(l, e + 1, b + 1) /\ Starts(l, b + 1))
        BY <1>3 DEF b
      <4>2. CASE b + 1 = c
        BY <3>6, <3>8, <4>1, <4>2
      <4>3. CASE b + 1 # c
        BY <3>2, <3>4, <3>8, <4>1, <4>3
      <4> QED
        BY <4>2, <4>3
    <3>13. HandedOn(m, b) = HandedOn(l, b)
      BY <1>1, <3>11 DEF HandedOn
    <3>14. Carried(m, k) = Carried(l, k)
      BY <1>1, <3>9, <3>13 DEF Carried, b, map
    <3> QED
      BY <3>7, <3>12, <3>14 DEF b
  <2> QED
    BY <2>3, <2>4
<1> QED
  BY <1>1, <1>2, <1>3 DEF SkewsFound

\* A turn keeps what all the turns before have done.
LEMMA SweptStep ==
  ASSUME NEW l, Sweeping(l), l.first \in [CylsOf(l) -> Nat], l.skew \in [CylsOf(l) -> 0 .. Circle - 1],
         NEW e \in DOMAIN l.ltop_map, NEW z, SweptTo(l, e, z), NEW next \in NextExtents(l, e)
  PROVE  LET y == ZoneAt(l, z, l.ltop_map[e].cyl)
         IN  SweptTo(TurnOf(l, e, y, next), e + 1, y)
<1> DEFINE c == l.ltop_map[e].cyl
           y == ZoneAt(l, z, c)
           m == TurnOf(l, e, y, next)
<1>1. /\ FirstsFound(l, e) /\ SkewsFound(l, e)
      /\ IF e = 1 THEN z = 1 ELSE HasCyl(l, z, l.ltop_map[e - 1].cyl)
  BY DEF SweptTo
<1>2. HasCyl(l, y, c) /\ y = ZoneOn(l, c)
  BY <1>1, ZoneMoves
<1>3. e < Len(l.ltop_map) => next = [cyl |-> l.ltop_map[e + 1].cyl, head |-> l.ltop_map[e + 1].head]
  BY DEF NextExtents
<1> HIDE DEF y
<1>4. Turning(l, e, y, next)
  BY <1>1, <1>2, <1>3 DEF Turning
<1>5. FirstsFound(m, e + 1) /\ SkewsFound(m, e + 1)
  BY <1>1, <1>4, FirstsStep, SkewsStep
<1>6. HasCyl(m, y, m.ltop_map[e].cyl)
  BY <1>2, SameExtents
<1>7. e \in Nat \ {0}
  <2>1. l.ltop_map \in Seq(Node)
    BY DEF Sweeping
  <2> QED
    BY <2>1
<1>8. (e + 1) - 1 = e /\ e + 1 # 1
  BY <1>7
<1> QED
  BY <1>5, <1>6, <1>8 DEF SweptTo, y

\* Before the first turn.
LEMMA SweptStart ==
  ASSUME NEW l, l.ltop_map \in Seq(Node), l.cyls \in Nat \ {0},
         l.skew = [c \in CylsOf(l) |-> 0], l.first = [c \in CylsOf(l) |-> IF c = 0 THEN 1 ELSE 0]
  PROVE  SweptTo(l, 1, 1)
<1>1. \A k \in DOMAIN l.ltop_map : ~(k < 1) /\ k \in Nat
  OBVIOUS
<1>2. \A c : ~Seen(l, 1, c)
  BY <1>1 DEF Seen
<1>3. \A k \in 1 .. Len(l.ltop_map) - 1 : ~LastSeen(l, 1, k)
  <2>1. \A k \in 1 .. Len(l.ltop_map) - 1 : ~(k < 1)
    OBVIOUS
  <2> QED
    BY <2>1 DEF LastSeen
<1>4. 0 \in CylsOf(l)
  BY DEF CylsOf
<1>5. FirstsFound(l, 1)
  BY <1>1, <1>4 DEF FirstsFound
<1>6. SkewsFound(l, 1)
  BY <1>2, <1>3 DEF SkewsFound
<1> QED
  BY <1>5, <1>6 DEF SweptTo

-----------------------------------------------------------------------------
(* Every step *)

LEMMA SweepInit ==
  G2Init => SweepInv
BY DEF G2Init, SweepInv, NothingSwept, CylsOf

LEMMA ReadingKeepsSweep ==
  ASSUME LoadInv, SweepInv, ReadExtent \/ SortTracks \/ ReadDefect
  PROVE  SweepInv'
<1>1. stage \in {"extents", "defects"} /\ NothingSwept
  BY DEF SweepInv, ReadExtent, SortTracks, ReadDefect
<1>2. Shape(layout)
  BY DEF LoadInv, ReadOf
<1>3. layout' = layout \/ (layout'.cyls = layout.cyls /\ layout'.skew = layout.skew /\ layout'.first = layout.first)
  <2>1. CASE ReadExtent
    BY <1>2, <2>1 DEF ReadExtent, Shape
  <2>2. CASE SortTracks
    BY <1>2, <2>2 DEF SortTracks, Shape
  <2>3. CASE ReadDefect
    BY <1>2, <2>3 DEF ReadDefect, Shape
  <2> QED
    BY <2>1, <2>2, <2>3
<1>4. UNCHANGED <<ext, zi>> /\ stage' \in {"extents", "defects", "overrun"}
  BY <1>1 DEF ReadExtent, SortTracks, ReadDefect
<1>5. layout'.cyls = layout.cyls /\ layout'.skew = layout.skew /\ layout'.first = layout.first
  BY <1>3
<1>6. NothingSwept'
  BY <1>1, <1>4, <1>5 DEF NothingSwept, CylsOf
<1> QED
  BY <1>4, <1>6 DEF SweepInv

LEMMA EndOfMapStartsSweep ==
  ASSUME LoadInv, SweepInv, EndOfMap
  PROVE  SweepInv'
<1>1. /\ NothingSwept /\ stage' = "skews" /\ UNCHANGED <<raw, layout, ext, zi>>
      /\ ReadOf(layout, raw) /\ raw \in Files
  BY DEF SweepInv, EndOfMap, LoadInv
<1>2. layout.ltop_map \in Seq(Node) /\ layout.cyls \in Nat \ {0}
  BY <1>1, FilesAssumption, NodesAre DEF ReadOf
<1>3. SweptTo(layout, 1, 1)
  BY <1>1, <1>2, SweptStart DEF NothingSwept
<1>4. SweptTo(layout', ext', zi')
  BY <1>1, <1>3 DEF NothingSwept
<1> QED
  BY <1>1, <1>4 DEF SweepInv

LEMMA TurnKeepsSweep ==
  ASSUME LoadInv, SweepInv, PrecomputeSkew
  PROVE  SweepInv'
<1> DEFINE c == layout.ltop_map[ext].cyl
           z == ZoneAt(layout, zi, c)
<1>1. /\ WellLaid(raw) /\ HoldsFile(layout, raw) /\ ext \in DOMAIN layout.ltop_map /\ stage = "skews"
      /\ layout.cyls \in Nat \ {0} /\ \A k \in DOMAIN layout.ltop_map : layout.ltop_map[k].cyl \in CylsOf(layout)
      /\ z \in DOMAIN layout.zones
      /\ zi' = z /\ ext' = ext + 1 /\ raw' = raw /\ stage' = stage
  BY SkewTurn
<1>2. PICK next \in NextExtents(layout, ext) : layout' = TurnOf(layout, ext, z, next)
  BY SkewTurn
<1>3. /\ layout.ltop_map \in Seq(Node) /\ layout.skew \in [CylsOf(layout) -> 0 .. Circle - 1]
      /\ layout.first \in [CylsOf(layout) -> Nat]
  <2>1. /\ layout.ltop_map \in Seq(Node) /\ layout.skew \in [CylsOf(layout) -> 0 .. Circle - 1]
        /\ layout.first \in [CylsOf(layout) -> 0 .. Len(raw.extents)]
    BY DEF LoadInv, ReadOf, SkewsUpTo
  <2>2. raw.extents \in Seq(Line)
    BY <1>1, NodesAre
  <2>3. 0 .. Len(raw.extents) \subseteq Nat
    BY <2>2
  <2> QED
    BY <2>1, <2>3
<1>4. InSweep(raw) => SweptTo(layout, ext, zi)
  BY <1>1 DEF SweepInv
<1> HIDE DEF z
<1>5. ASSUME InSweep(raw) PROVE SweptTo(layout', ext', zi')
  <2>1. Sweeping(layout)
    BY <1>1, <1>5, FileSweeps
  <2>2. SweptTo(TurnOf(layout, ext, z, next), ext + 1, z)
    BY <1>1, <1>3, <1>4, <1>5, <2>1, SweptStep DEF z
  <2> QED
    BY <1>1, <1>2, <2>2
<1> QED
  BY <1>1, <1>5 DEF SweepInv

LEMMA SweepNext ==
  LoadInv /\ SweepInv /\ [G2Next]_g2vars => SweepInv'
<1> SUFFICES ASSUME LoadInv, SweepInv, [G2Next]_g2vars PROVE SweepInv'
  OBVIOUS
<1>1. CASE UNCHANGED <<raw, layout, ext, zi>> /\ (stage' = stage \/ (stage = "skews" /\ stage' = "loaded"))
  BY <1>1 DEF SweepInv, NothingSwept
<1>2. CASE ReadExtent \/ SortTracks \/ ReadDefect
  BY <1>2, ReadingKeepsSweep
<1>3. CASE EndOfMap
  BY <1>3, EndOfMapStartsSweep
<1>4. CASE PrecomputeSkew
  BY <1>4, TurnKeepsSweep
<1>5. CASE Loaded
  BY <1>1, <1>5 DEF Loaded
<1>6. CASE AskLbn \/ AskSector \/ AskTrack \/ AskDisk
  <2>1. UNCHANGED <<raw, stage, layout, ext, zi>>
    BY <1>6 DEF AskLbn, AskSector, AskTrack, AskDisk, Asked
  <2> QED
    BY <1>1, <2>1
<1>7. CASE UNCHANGED g2vars
  BY <1>1, <1>7 DEF g2vars
<1> QED
  BY <1>2, <1>3, <1>4, <1>5, <1>6, <1>7 DEF G2Next

-----------------------------------------------------------------------------
(* The skews of tracks *)

\* Along a track nothing is added.
LEMMA SumsOnTrack ==
  ASSUME NEW l, Sweeping(l), NEW g \in DOMAIN l.ltop_map, NEW zone \in G2Zone,
         NEW t \in DOMAIN l.ltop_map, NEW j \in DOMAIN l.ltop_map, g <= t, t <= j,
         ShareTrack(l.ltop_map[t], l.ltop_map[j])
  PROVE  SwitchSums(l.ltop_map, g, zone)[j] = SwitchSums(l.ltop_map, g, zone)[t]
<1> DEFINE map == l.ltop_map
           sum == SwitchSums(map, g, zone)
<1>1. map \in Seq(Node)
  BY DEF Sweeping
<1>2. \A h \in t .. j : ShareTrack(map[h], map[t])
  <2>1. CASE t < j
    BY <2>1 DEF Sweeping
  <2>2. CASE t = j
    BY <2>2 DEF ShareTrack
  <2> QED
    BY <1>1, <2>1, <2>2
<1>3. /\ \A e \in g + 1 .. Len(map) : sum[e] = sum[e - 1] + Switches(map, e, zone)
      /\ \A e \in g .. Len(map) : sum[e] \in Nat
  BY <1>1, SwitchSumsAre
<1> HIDE DEF map, sum
<1>4. /\ g \in Nat \ {0} /\ t \in Nat \ {0} /\ j \in Nat \ {0} /\ Len(map) \in Nat /\ j <= Len(map)
  BY <1>1 DEF map
<1> DEFINE T == { n \in Nat : t + n <= j => sum[t + n] = sum[t] }
<1>5. 0 \in T
  BY <1>4
<1>6. ASSUME NEW n \in T PROVE n + 1 \in T
  <2> SUFFICES ASSUME t + (n + 1) <= j PROVE sum[t + (n + 1)] = sum[t]
    OBVIOUS
  <2> DEFINE e == t + (n + 1)
  <2>1. /\ e \in g + 1 .. Len(map) /\ e - 1 = t + n /\ t + n <= j /\ e \in t .. j /\ e - 1 \in t .. j
        /\ e - 1 \in g .. Len(map)
    BY <1>4
  <2>2. sum[e - 1] = sum[t]
    BY <2>1
  <2> HIDE DEF e
  <2>3. ShareTrack(map[e], map[t]) /\ ShareTrack(map[e - 1], map[t])
    BY <1>2, <2>1
  <2>4. Switches(map, e, zone) = 0
    BY <2>3 DEF Switches, ShareTrack
  <2>5. sum[e] = sum[e - 1] /\ sum[e - 1] \in Nat
    BY <1>3, <2>1, <2>4
  <2> QED
    BY <2>2, <2>5 DEF e
<1>7. T = Nat
  <2>1. T \subseteq Nat
    OBVIOUS
  <2> HIDE DEF T
  <2> QED
    BY <1>5, <1>6, <2>1, OneByOne
<1>8. j - t \in Nat /\ t + (j - t) = j
  BY <1>4
<1>9. j - t \in T
  BY <1>7, <1>8
<1>10. sum[j] = sum[t]
  <2>1. t + (j - t) <= j => sum[t + (j - t)] = sum[t]
    BY <1>9
  <2> HIDE DEF T
  <2>2. t + (j - t) = j /\ t + (j - t) <= j
    BY <1>4, <1>8
  <2>3. sum[t + (j - t)] = sum[t]
    BY <2>1, <2>2
  <2> QED
    BY <2>2, <2>3
<1> QED
  BY <1>10 DEF sum, map

\* The skew of the track of an extent: that of its cylinder and the switches before.
LEMMA SkewAtIs ==
  ASSUME WellLaid(raw), HoldsFile(layout, raw), Sweeping(layout), NEW z, SweptTo(layout, Len(layout.ltop_map) + 1, z),
         layout.skew \in [CylsOf(layout) -> 0 .. Circle - 1],
         NEW j \in DOMAIN layout.ltop_map
  PROVE  LET c == layout.ltop_map[j].cyl
             zone == layout.zones[ZoneOn(layout, c)]
         IN  /\ layout.skew[c] \in 0 .. Circle - 1
             /\ zone \in G2Zone /\ HasCyl(layout, ZoneOn(layout, c), c)
             /\ layout.first[c] \in 1 .. j /\ layout.first[c] \in DOMAIN layout.ltop_map
             /\ layout.ltop_map[layout.first[c]].cyl = c
             /\ SwitchSums(layout.ltop_map, layout.first[c], zone)[j] \in Nat
             /\ SkewAt(raw.extents[j])
                  = (layout.skew[c] + SwitchSums(layout.ltop_map, layout.first[c], zone)[j]) % Circle
<1> DEFINE map == layout.ltop_map
           c == map[j].cyl
           y == ZoneOn(layout, c)
           zone == layout.zones[y]
           g == layout.first[c]
           sum == SwitchSums(map, g, zone)
           p == [cyl |-> raw.extents[j].cyl, head |-> raw.extents[j].head, sector |-> 0]
           R == Reached(layout, p)
<1>1. map = NodesOf(raw) /\ map \in Seq(Node) /\ layout.zones = raw.zones
  BY NodesAre DEF HoldsFile
<1>2. map[j] = NodeOf(raw.extents[j])
  BY <1>1, NodesAre
<1>3. p.cyl = c /\ p.head = map[j].head /\ p.sector = 0
  BY <1>2 DEF NodeOf
<1>4. y \in DOMAIN layout.zones /\ zone \in G2Zone /\ HasCyl(layout, y, c)
  BY ZoneOnIs
<1>5. g \in 1 .. j /\ map[g].cyl = c /\ c \in CylsOf(layout) /\ c \in Nat
  <2>1. j < Len(map) + 1
    BY <1>1
  <2>2. g \in 1 .. j /\ map[g].cyl = c
    BY <2>1 DEF SweptTo, FirstsFound
  <2>3. c \in CylsOf(layout)
    BY DEF Sweeping
  <2>4. c \in Nat
    BY <1>1, NodesType
  <2> QED
    BY <2>2, <2>3, <2>4
<1>6. find_zone_pbn(layout, p) = y
  <2> DEFINE x == find_zone_pbn(layout, p)
  <2>1. CoveredCyl(p.cyl)
    BY <1>1, <1>3, <1>4 DEF CoveredCyl, HasCyl
  <2>2. x # 0
    BY <2>1, ZonesAre
  <2>3. x \in DOMAIN raw.zones /\ raw.zones[x].cyllow <= p.cyl /\ p.cyl <= raw.zones[x].cylhigh
    BY <2>2, ZonesAre
  <2> HIDE DEF x
  <2>4. HasCyl(layout, x, c) /\ x \in DOMAIN layout.zones
    BY <1>1, <1>3, <2>3 DEF HasCyl
  <2>5. x = ZoneOn(layout, c)
    BY <1>5, <2>4, ZoneOnIs
  <2> QED
    BY <2>5 DEF x
<1>7. \A e : e \in R <=> e \in DOMAIN map /\ g <= e /\ map[e].cyl = c /\ map[e].head = map[j].head
  BY <1>3 DEF Reached, ShareTrack
<1>8. pbn_skew_new(layout, p) =
        IF y = 0 \/ g = 0 \/ R = {} THEN Aborted
        ELSE Answer((layout.skew[c] + sum[CHOOSE e \in R : \A k \in R : e <= k] + p.sector * zone.sector_width) % Circle)
  <2>1. /\ layout.first[p.cyl] = g /\ layout.skew[p.cyl] = layout.skew[c] /\ layout.ltop_map = map
        /\ Reached(layout, p) = R /\ layout.zones[y] = zone /\ SwitchSums(map, g, zone) = sum
    BY <1>3
  <2> HIDE DEF map, c, y, zone, g, sum, p, R
  <2> QED
    BY <1>6, <2>1 DEF pbn_skew_new
<1>9. SkewAt(raw.extents[j]) = pbn_skew_new(layout, p).value
  BY DEF SkewAt
<1>10. layout.skew[c] \in 0 .. Circle - 1
  BY <1>5
<1>11. g \in DOMAIN map /\ (\A e \in g .. Len(map) : sum[e] \in Nat)
  <2>1. j \in Nat /\ j <= Len(map) /\ Len(map) \in Nat /\ DOMAIN map = 1 .. Len(map)
    BY <1>1
  <2>2. g \in DOMAIN map
    BY <1>5, <2>1
  <2> HIDE DEF map, g, zone
  <2> QED
    BY <1>1, <1>4, <2>2, SwitchSumsAre
<1> HIDE DEF map, c, y, zone, g, sum, p, R
<1>12. /\ j \in R /\ j \in Nat /\ Len(map) \in Nat /\ j <= Len(map) /\ j \in DOMAIN map
  BY <1>1, <1>5, <1>7 DEF c, map
<1>13. R \subseteq Nat
  BY <1>1, <1>7
<1> DEFINE t == CHOOSE e \in R : \A k \in R : e <= k
<1>14. t \in R /\ t <= j
  <2>1. \E e \in R : \A k \in R : e <= k
    BY <1>12, <1>13, LeastOf
  <2>2. t \in R /\ \A k \in R : t <= k
    BY <2>1
  <2> QED
    BY <1>12, <2>2
<1> HIDE DEF t
<1>15. t \in DOMAIN map /\ g <= t /\ t <= j /\ ShareTrack(map[t], map[j])
  BY <1>7, <1>14 DEF ShareTrack, c
<1>16. sum[j] = sum[t]
  BY <1>4, <1>11, <1>12, <1>15, SumsOnTrack DEF map, sum
<1>17. y # 0
  <2>1. layout.zones \in Seq(G2Zone)
    BY DEF Sweeping
  <2> QED
    BY <1>4, <2>1
<1>18. pbn_skew_new(layout, p) = Answer((layout.skew[c] + sum[t] + p.sector * zone.sector_width) % Circle)
  BY <1>5, <1>8, <1>12, <1>17 DEF t
<1>19. p.sector * zone.sector_width = 0
  <2>1. zone.sector_width \in Nat
    BY <1>4 DEF G2Zone
  <2> QED
    BY <1>3, <2>1
<1>20. sum[j] \in Nat /\ g \in 1 .. j
  BY <1>5, <1>11, <1>12
<1>21. SkewAt(raw.extents[j]) = (layout.skew[c] + sum[j]) % Circle
  <2>1. layout.skew[c] + sum[t] + 0 = layout.skew[c] + sum[j]
    BY <1>10, <1>16, <1>20, CircleAssumption
  <2> QED
    BY <1>9, <1>18, <1>19, <2>1 DEF Answer
<1> QED
  BY <1>4, <1>5, <1>10, <1>11, <1>20, <1>21 DEF map, c, y, zone, g, sum

LEMMA SkewsHold ==
  ASSUME LoadInv, SweepInv
  PROVE  SkewsAsMeant
<1> SUFFICES ASSUME stage = "loaded", InSweep(raw), NEW k \in DOMAIN raw.extents, k < Len(raw.extents)
             PROVE  LET a == raw.extents[k]
                        b == raw.extents[k + 1]
                        z == ZoneOfCyl(a.cyl)
                        Begins(x) == x.cyl = ZoneOfCyl(x.cyl).cyllow
                    IN  /\ a.cyl = b.cyl /\ a.head # b.head => SkewAt(b) = (SkewAt(a) + z.hsskew) % Circle
                        /\ a.cyl # b.cyl /\ Begins(b) => SkewAt(b) = ZoneOfCyl(b.cyl).zskew
                        /\ /\ b.cyl = a.cyl + 1 /\ ~Begins(b)
                           /\ Begins(a) => a.cyl = 0 \/ z.zskew = 0
                           => SkewAt(b) = (SkewAt(a) + z.csskew) % Circle
  BY DEF SkewsAsMeant
<1> DEFINE map == layout.ltop_map
           N == Len(map)
           a == raw.extents[k]
           b == raw.extents[k + 1]
           c == map[k].cyl
           d == map[k + 1].cyl
           z == layout.zones[ZoneOn(layout, c)]
           y == layout.zones[ZoneOn(layout, d)]
           g == layout.first[c]
           h == layout.first[d]
           sum == SwitchSums(map, g, z)
           lost == IF a.cyl = ZoneOfCyl(a.cyl).cyllow /\ a.cyl # 0 THEN ZoneOfCyl(a.cyl).zskew ELSE 0
<1>1. /\ WellLaid(raw) /\ HoldsFile(layout, raw) /\ SweptTo(layout, N + 1, zi) /\ N = Len(raw.extents)
      /\ layout.skew \in [CylsOf(layout) -> 0 .. Circle - 1]
  <2>1. /\ raw \in Files /\ ext = N + 1 /\ ReadOf(layout, raw) /\ Sorted(layout) /\ N = Len(raw.extents)
        /\ layout.skew \in [CylsOf(layout) -> 0 .. Circle - 1]
    BY DEF LoadInv, SkewsUpTo
  <2>2. WellLaid(raw)
    BY <2>1, FilesAssumption
  <2>3. SweptTo(layout, N + 1, zi)
    BY <2>1 DEF SweepInv
  <2> QED
    BY <2>1, <2>2, <2>3, ReadHolds
<1>2. Sweeping(layout)
  BY <1>1, FileSweeps
<1>3. map \in Seq(Node) /\ map = NodesOf(raw) /\ layout.zones = raw.zones
  BY <1>1, NodesAre DEF HoldsFile
<1>4. /\ k \in Nat \ {0} /\ k \in DOMAIN map /\ k + 1 \in DOMAIN map /\ N \in Nat /\ k < N
      /\ DOMAIN map = 1 .. N
  <2>1. k \in DOMAIN map /\ k < N
    BY <1>1, NodesAre DEF HoldsFile
  <2> HIDE DEF map
  <2>2. DOMAIN map = 1 .. N /\ N \in Nat
    BY <1>3
  <2> QED
    BY <2>1, <2>2
<1>5. c \in Nat /\ d \in Nat /\ c <= d /\ c \in CylsOf(layout) /\ d \in CylsOf(layout)
  <2>1. c \in Nat /\ d \in Nat
    BY <1>3, <1>4, NodesType
  <2>2. k < k + 1
    BY <1>4
  <2> QED
    BY <1>2, <1>4, <2>1, <2>2 DEF Sweeping
<1>6. a.cyl = c /\ a.head = map[k].head /\ b.cyl = d /\ b.head = map[k + 1].head
  <2>1. map[k] = NodeOf(a) /\ map[k + 1] = NodeOf(b)
    BY <1>1, <1>3, <1>4, NodesAre
  <2> QED
    BY <2>1 DEF NodeOf
<1>7. ZoneOfCyl(a.cyl) = z /\ ZoneOfCyl(b.cyl) = y
  BY <1>3, <1>6 DEF ZoneOfCyl, ZoneOn
<1>8. /\ layout.skew[c] \in 0 .. Circle - 1 /\ z \in G2Zone /\ g \in 1 .. k /\ g \in DOMAIN map
      /\ sum[k] \in Nat /\ SkewAt(a) = (layout.skew[c] + sum[k]) % Circle
  BY <1>1, <1>2, <1>4, SkewAtIs
<1>9. /\ layout.skew[d] \in 0 .. Circle - 1 /\ y \in G2Zone /\ h \in 1 .. k + 1 /\ h \in DOMAIN map
      /\ map[h].cyl = d
      /\ SkewAt(b) = (layout.skew[d] + SwitchSums(map, h, y)[k + 1]) % Circle
  BY <1>1, <1>2, <1>4, SkewAtIs
<1>10. \A e \in g + 1 .. N : sum[e] = sum[e - 1] + Switches(map, e, z)
  <2> HIDE DEF map, g, z
  <2> QED
    BY <1>3, <1>8, SwitchSumsAre
<1>11. Seen(layout, N + 1, d)
  <2>1. k + 1 < N + 1
    BY <1>4
  <2> QED
    BY <1>4, <2>1 DEF Seen
<1>12. /\ Starts(layout, c) <=> c # 0 /\ z.cyllow = c
       /\ Starts(layout, d) <=> d # 0 /\ y.cyllow = d
  BY DEF Starts
<1>13. lost = IF Starts(layout, c) THEN z.zskew ELSE 0
  BY <1>6, <1>7, <1>12
<1>14. SkewsFound(layout, N + 1)
  BY <1>1 DEF SweptTo
<1>15. /\ z.csskew \in Nat /\ z.hsskew \in Nat /\ z.zskew \in 0 .. Circle - 1 /\ y.zskew \in 0 .. Circle - 1
       /\ Circle \in Nat \ {0}
  BY <1>8, <1>9, CircleAssumption DEF G2Zone
<1> HIDE DEF map, N, c, d, z, y, g, h, sum, a, b, lost
<1>16. ASSUME c = d, map[k].head # map[k + 1].head
       PROVE  SkewAt(b) = (SkewAt(a) + z.hsskew) % Circle
  <2>1. SkewAt(b) = (layout.skew[c] + sum[k + 1]) % Circle
    BY <1>9, <1>16 DEF sum, g, h, z, y
  <2>2. Switches(map, k + 1, z) = z.hsskew
    <3>1. (k + 1) - 1 = k /\ map[k + 1].cyl = map[k].cyl
      BY <1>4, <1>16 DEF c, d
    <3> QED
      BY <1>15, <1>16, <3>1 DEF Switches
  <2>3. sum[k + 1] = sum[k] + z.hsskew
    <3>1. k + 1 \in g + 1 .. N /\ (k + 1) - 1 = k
      BY <1>4, <1>8
    <3> QED
      BY <1>10, <2>2, <3>1
  <2> DEFINE s == layout.skew[c] + sum[k]
  <2>4. s \in Int /\ layout.skew[c] + sum[k + 1] = s + z.hsskew
    BY <1>8, <1>15, <2>3
  <2>5. SkewAt(a) = s % Circle
    BY <1>8
  <2> HIDE DEF s
  <2>6. ((s % Circle) + z.hsskew) % Circle = (s + z.hsskew) % Circle
    <3>1. z.hsskew \in Int
      BY <1>15
    <3> QED
      BY <2>4, <3>1, ModSum
  <2> QED
    BY <2>1, <2>4, <2>5, <2>6
<1>17. ASSUME c # d
       PROVE  SkewAt(b) = layout.skew[d] /\ c < d
  <2>1. c < d
    BY <1>5, <1>17
  <2>2. h = k + 1
    <3> SUFFICES ASSUME h # k + 1 PROVE FALSE
      OBVIOUS
    <3>1. h = k \/ h < k
      BY <1>4, <1>9
    <3>2. map[h].cyl <= c
      BY <1>2, <1>4, <1>5, <1>9, <3>1 DEF Sweeping, map, c
    <3> QED
      BY <1>5, <1>9, <2>1, <3>2
  <2>3. SwitchSums(map, h, y)[k + 1] = 0
    BY <1>3, <1>9, <2>2, SwitchSumsAre
  <2>4. SkewAt(b) = layout.skew[d] % Circle
    BY <1>9, <1>15, <2>3
  <2>5. layout.skew[d] % Circle = layout.skew[d]
    <3>1. Cong(layout.skew[d], layout.skew[d])
      BY <1>9, CongSame
    <3> QED
      BY <1>9, <3>1, CongOnly
  <2> QED
    BY <2>1, <2>4, <2>5
<1>18. ASSUME c # d, d = y.cyllow
       PROVE  SkewAt(b) = y.zskew
  <2>1. Starts(layout, d)
    BY <1>5, <1>12, <1>17, <1>18
  <2>2. layout.skew[d] = y.zskew
    BY <1>5, <1>11, <1>14, <2>1 DEF SkewsFound, y
  <2> QED
    BY <1>17, <1>18, <2>2
<1>19. ASSUME d = c + 1, d # y.cyllow
       PROVE  SkewAt(b) = (SkewAt(a) + z.csskew - lost) % Circle
  <2>1. c # d /\ ~Starts(layout, d)
    BY <1>5, <1>12, <1>19
  <2>2. LastSeen(layout, N + 1, k) /\ k \in 1 .. N - 1
    <3>1. k < N + 1 /\ k \in 1 .. N - 1
      BY <1>4
    <3> QED
      BY <2>1, <3>1 DEF LastSeen, c, d, map
  <2>3. layout.skew[d] = Carried(layout, k)
    BY <1>5, <1>14, <1>19, <2>1, <2>2 DEF SkewsFound, c, N, map
  <2>4. SwitchTo(layout, k, map[k + 1], ZoneOn(layout, c)) = z.csskew
    BY <2>1 DEF SwitchTo, c, d, map, z
  <2>5. Carried(layout, k) = (HandedOn(layout, c) + sum[k] + z.csskew) % Circle
    BY <2>4 DEF Carried, c, map, sum, g, z
  <2>6. Starts(layout, c) => layout.skew[c] = z.zskew
    <3>1. Seen(layout, N + 1, c)
      BY <1>4 DEF Seen, c, map
    <3> QED
      BY <1>5, <1>14, <3>1 DEF SkewsFound, z
  <2>7. HandedOn(layout, c) = layout.skew[c] - lost /\ lost \in Int
    BY <1>8, <1>13, <1>15, <2>6 DEF HandedOn
  <2> DEFINE s == layout.skew[c] + sum[k]
             x == z.csskew - lost
  <2>8. s \in Int /\ x \in Int /\ HandedOn(layout, c) + sum[k] + z.csskew = s + x
    <3>1. layout.skew[c] \in Int /\ sum[k] \in Int
      BY <1>8, <1>15
    <3>2. z.csskew \in Int /\ lost \in Int
      BY <1>15, <2>7
    <3> QED
      BY <2>7, <3>1, <3>2
  <2>9. SkewAt(a) = s % Circle /\ s % Circle \in Int
    <3>1. s % Circle \in 0 .. Circle - 1
      BY <2>8, CongMod
    <3> HIDE DEF s
    <3>2. s % Circle \in Int
      BY <1>15, <3>1
    <3> QED
      BY <1>8, <3>2 DEF s
  <2>10. SkewAt(a) + z.csskew - lost = (s % Circle) + x
    BY <1>15, <2>7, <2>9
  <2> HIDE DEF s, x
  <2>11. ((s % Circle) + x) % Circle = (s + x) % Circle
    BY <2>8, ModSum
  <2>12. SkewAt(b) = (s + x) % Circle
    BY <1>17, <2>1, <2>3, <2>5, <2>8
  <2> QED
    BY <2>10, <2>11, <2>12
<1>21. a.cyl = b.cyl /\ a.head # b.head => SkewAt(b) = (SkewAt(a) + z.hsskew) % Circle
  BY <1>6, <1>16
<1>22. a.cyl # b.cyl /\ b.cyl = y.cyllow => SkewAt(b) = y.zskew
  BY <1>6, <1>18
<1>23. b.cyl = a.cyl + 1 /\ b.cyl # y.cyllow => SkewAt(b) = (SkewAt(a) + z.csskew - lost) % Circle
  <2> SUFFICES ASSUME b.cyl = a.cyl + 1, b.cyl # y.cyllow
               PROVE  SkewAt(b) = (SkewAt(a) + z.csskew - lost) % Circle
    OBVIOUS
  <2>1. d = c + 1 /\ d # y.cyllow /\ c # d
    BY <1>5, <1>6
  <2> QED
    BY <1>19, <2>1
<1>24. ASSUME b.cyl = a.cyl + 1, b.cyl # y.cyllow, a.cyl = z.cyllow => a.cyl = 0 \/ z.zskew = 0
       PROVE  SkewAt(b) = (SkewAt(a) + z.csskew) % Circle
  <2>1. lost = 0
    BY <1>7, <1>24 DEF lost, a
  <2>2. SkewAt(a) \in Int
    <3>1. layout.skew[c] + sum[k] \in Int
      BY <1>8, <1>15
    <3> DEFINE s == layout.skew[c] + sum[k]
    <3> HIDE DEF s
    <3>2. s % Circle \in 0 .. Circle - 1
      BY <3>1, CongMod DEF s
    <3>3. s % Circle \in Int
      BY <1>15, <3>2
    <3> QED
      BY <1>8, <3>3 DEF s
  <2>3. SkewAt(a) + z.csskew - lost = SkewAt(a) + z.csskew
    BY <1>15, <2>1, <2>2
  <2> QED
    BY <1>23, <1>24, <2>3
<1> QED
  BY <1>7, <1>21, <1>22, <1>24 DEF a, b

\* Whatever raw file is loaded whose extents go through the cylinders upwards, the skew of each
\* track follows from that of the track before it: by the head skew, by the cylinder skew, or by
\* starting afresh with a zone; left out are the first cylinder after a gap and the second of a
\* zone that has a skew (layout_g2_load.c:214-255, layout_g2.c:300-336).
THEOREM SkewsAreMeant == G2Spec => []SkewsAsMeant
<1>1. G2Init => LoadInv /\ SweepInv
  BY LoadInit, SweepInit
<1>2. LoadInv /\ SweepInv /\ [G2Next]_g2vars => LoadInv' /\ SweepInv'
  BY LoadNext, SweepNext
<1>3. LoadInv /\ SweepInv => SkewsAsMeant
  BY SkewsHold
<1> QED
  BY <1>1, <1>2, <1>3, PTL DEF G2Spec
=============================================================================

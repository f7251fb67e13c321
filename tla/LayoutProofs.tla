---------------------------- MODULE LayoutProofs ----------------------------
(***************************************************************************)
(* The layouts, for disks of any size.  G4: a layout file whose tree tiles *)
(* the disk keeps every promise that the clients of the layout rest on;    *)
(* and a client that turns the head by the skew of a sector finds itself   *)
(* over that sector, whatever well formed layout file was loaded and       *)
(* whatever calls it has made before.  G1: numbering the sectors of a band *)
(* and finding a sector by its number are inverse, for every mapping of    *)
(* heads.                                                                  *)
(***************************************************************************)
EXTENDS LayoutG4, MechServiceProofs

G1 == INSTANCE G1Map

-----------------------------------------------------------------------------
(* Tiled trees *)

\* What grows from each to the next grows from each to every later one.
LEMMA Grows ==
  ASSUME NEW n \in Nat, NEW f, \A k \in 1 .. n : f[k] \in Int,
         \A k \in 1 .. n - 1 : f[k] <= f[k + 1]
  PROVE  \A i \in 1 .. n, j \in 1 .. n : i <= j => f[i] <= f[j]
<1> SUFFICES ASSUME NEW i \in 1 .. n PROVE \A j \in 1 .. n : i <= j => f[i] <= f[j]
  OBVIOUS
<1> DEFINE T == { k \in Nat : i + k <= n => f[i] <= f[i + k] }
<1>1. 0 \in T
  OBVIOUS
<1>2. ASSUME NEW k \in T PROVE k + 1 \in T
  <2> SUFFICES ASSUME i + (k + 1) <= n PROVE f[i] <= f[i + (k + 1)]
    OBVIOUS
  <2>1. i + k \in 1 .. n - 1 /\ i + k \in 1 .. n /\ (i + k) + 1 = i + (k + 1) /\ i + (k + 1) \in 1 .. n
    OBVIOUS
  <2>2. f[i] <= f[i + k] /\ f[i + k] <= f[i + (k + 1)]
    BY <2>1
  <2>3. f[i] \in Int /\ f[i + k] \in Int /\ f[i + (k + 1)] \in Int
    BY <2>1
  <2> QED
    BY <2>2, <2>3
<1>3. T = Nat
  <2>1. T \subseteq Nat
    OBVIOUS
  <2> HIDE DEF T
  <2> QED
    BY <1>1, <1>2, <2>1, OneByOne, Zenon
<1> SUFFICES ASSUME NEW j \in 1 .. n, i <= j PROVE f[i] <= f[j]
  OBVIOUS
<1>4. j - i \in Nat /\ i + (j - i) = j
  OBVIOUS
<1>5. j - i \in T
  BY <1>3, <1>4, Zenon
<1> QED
  BY <1>4, <1>5

\* One more term in front.
LEMMA TotalOfOneMore ==
  ASSUME NEW u \in Seq(Int), NEW v \in Seq(Int), Len(u) = Len(v) + 1,
         \A i \in 1 .. Len(v) : u[i + 1] = v[i]
  PROVE  Total(u) = u[1] + Total(v)
<1> DEFINE n == Len(v)
           T == { k \in Nat : k <= n => Sums(u)[k + 1] = u[1] + Sums(v)[k] }
<1>1. n \in Nat /\ Len(u) = n + 1 /\ 1 \in 1 .. Len(u)
  OBVIOUS
<1>2. /\ Sums(u)[0] = 0 /\ \A k \in 1 .. n + 1 : Sums(u)[k] = Sums(u)[k - 1] + u[k]
      /\ Sums(v)[0] = 0 /\ \A k \in 1 .. n : Sums(v)[k] = Sums(v)[k - 1] + v[k]
      /\ \A k \in 0 .. n : Sums(v)[k] \in Int
  BY <1>1, SumsAre, Zenon
<1>3. u[1] \in Int /\ \A k \in 1 .. n : v[k] \in Int /\ u[k + 1] = v[k]
  BY <1>1
<1> HIDE DEF n
<1>4. 0 \in T
  <2>1. 1 \in 1 .. n + 1 /\ 1 - 1 = 0 /\ 0 + 1 = 1
    BY <1>1
  <2>2. Sums(u)[1] = 0 + u[1]
    BY <1>2, <2>1
  <2> QED
    BY <1>2, <1>3, <2>2
<1>5. ASSUME NEW k \in T PROVE k + 1 \in T
  <2> SUFFICES ASSUME k + 1 <= n PROVE Sums(u)[(k + 1) + 1] = u[1] + Sums(v)[k + 1]
    OBVIOUS
  <2>1. /\ k + 1 \in 1 .. n /\ k \in 0 .. n /\ (k + 1) - 1 = k
        /\ (k + 1) + 1 \in 1 .. n + 1 /\ ((k + 1) + 1) - 1 = k + 1
    BY <1>1
  <2>2. Sums(u)[(k + 1) + 1] = Sums(u)[k + 1] + u[(k + 1) + 1]
    BY <1>2, <2>1
  <2>3. Sums(v)[k + 1] = Sums(v)[k] + v[k + 1]
    BY <1>2, <2>1
  <2>4. Sums(u)[k + 1] = u[1] + Sums(v)[k] /\ u[(k + 1) + 1] = v[k + 1]
    BY <1>3, <2>1
  <2>5. Sums(v)[k] \in Int /\ v[k + 1] \in Int
    BY <1>2, <1>3, <2>1
  <2> QED
    BY <1>3, <2>2, <2>3, <2>4, <2>5
<1>6. T = Nat
  <2>1. T \subseteq Nat
    OBVIOUS
  <2> HIDE DEF T
  <2> QED
    BY <1>4, <1>5, <2>1, OneByOne, Zenon
<1>7. Sums(u)[n + 1] = u[1] + Sums(v)[n]
  BY <1>1, <1>6
<1> QED
  BY <1>1, <1>7 DEF Total, n

\* What a node adds to the cylinder, or to the address, of what is below it.
Adds(kind, node) ==
  IF kind = "cyl" THEN node.e.cyl + node.quot * node.e.cyllen
  ELSE node.e.lbn + node.quot * node.e.len
Terms(kind, path) == [i \in DOMAIN IdxNodes(path) |-> Adds(kind, IdxNodes(path)[i])]

LEMMA AddsType ==
  ASSUME NEW kind, NEW node \in InnerNode
  PROVE  Adds(kind, node) \in Int
<1>1. /\ node.e.cyl \in Int /\ node.quot \in Int /\ node.e.cyllen \in Int
      /\ node.e.lbn \in Int /\ node.e.len \in Int
  BY DEF InnerNode, IdxEntry
<1>2. node.quot * node.e.cyllen \in Int /\ node.quot * node.e.len \in Int
  BY <1>1
<1> QED
  BY <1>1, <1>2 DEF Adds

LEMMA TermsAre ==
  ASSUME NEW kind, NEW path, IsPath(path)
  PROVE  /\ Terms(kind, path) \in Seq(Int)
         /\ Len(Terms(kind, path)) = Len(path) - 1
         /\ \A i \in 1 .. Len(path) - 1 : Terms(kind, path)[i] = Adds(kind, path[i])
<1> DEFINE nodes == IdxNodes(path)
           n == Len(path) - 1
           terms == [i \in 1 .. n |-> Adds(kind, path[i])]
<1>1. n \in Nat /\ \A i \in 1 .. n : path[i] \in InnerNode
  BY DEF IsPath
<1>2. nodes = [i \in 1 .. n |-> path[i]]
  BY IdxNodesAre
<1> HIDE DEF nodes, n
<1>3. Terms(kind, path) = terms
  BY <1>2 DEF Terms, nodes
<1>4. \A i \in 1 .. n : Adds(kind, path[i]) \in Int
  BY <1>1, AddsType
<1>5. terms \in Seq(Int) /\ Len(terms) = n
  BY <1>1, <1>4
<1> QED
  BY <1>3, <1>5, Zenon DEF n

LEMMA SumBelow ==
  ASSUME NEW kind, NEW node \in InnerNode, NEW rest, IsPath(rest)
  PROVE  Total(Terms(kind, Extend(node, rest))) = Adds(kind, node) + Total(Terms(kind, rest))
<1> DEFINE x == Extend(node, rest)
           u == Terms(kind, x)
           v == Terms(kind, rest)
           n == Len(rest)
<1>1. /\ IsPath(x) /\ Len(x) = n + 1 /\ x[1] = node
      /\ \A i \in 1 .. n : x[i + 1] = rest[i]
  BY ExtendPath
<1>2. n \in Nat /\ n >= 2
  BY DEF IsPath
<1> HIDE DEF x, n
<1>3. v \in Seq(Int) /\ Len(v) = n - 1 /\ \A i \in 1 .. n - 1 : v[i] = Adds(kind, rest[i])
  BY TermsAre DEF n
<1>4. u \in Seq(Int) /\ Len(u) = n /\ \A i \in 1 .. n : u[i] = Adds(kind, x[i])
  <2>1. Len(x) - 1 = n
    BY <1>1, <1>2
  <2>2. /\ u \in Seq(Int) /\ Len(u) = Len(x) - 1
        /\ \A i \in 1 .. Len(x) - 1 : u[i] = Adds(kind, x[i])
    BY <1>1, TermsAre, Zenon
  <2> QED
    BY <2>1, <2>2
<1> HIDE DEF u, v
<1>5. \A i \in 1 .. Len(v) : u[i + 1] = v[i]
  <2> SUFFICES ASSUME NEW i \in 1 .. n - 1 PROVE u[i + 1] = v[i]
    BY <1>3
  <2>1. i + 1 \in 1 .. n /\ i \in 1 .. n
    BY <1>2
  <2> QED
    BY <1>1, <1>3, <1>4, <2>1
<1>6. u[1] = Adds(kind, node) /\ Len(u) = Len(v) + 1
  BY <1>1, <1>2, <1>3, <1>4
<1> QED
  BY <1>3, <1>4, <1>5, <1>6, TotalOfOneMore, Zenon DEF u, v, x

LEMMA SumShort ==
  ASSUME NEW kind, NEW node \in InnerNode, NEW leaf \in LeafNode
  PROVE  Total(Terms(kind, Extend(node, <<leaf>>))) = Adds(kind, node)
<1> DEFINE x == Extend(node, <<leaf>>)
           u == Terms(kind, x)
<1>1. IsPath(x) /\ Len(x) = 2 /\ x[1] = node
  BY ShortPath
<1> HIDE DEF x
<1>2. u \in Seq(Int) /\ Len(u) = 1 /\ u[1] = Adds(kind, node)
  <2>1. Len(x) - 1 = 1 /\ 1 \in 1 .. Len(x) - 1
    BY <1>1
  <2>2. /\ u \in Seq(Int) /\ Len(u) = Len(x) - 1
        /\ \A i \in 1 .. Len(x) - 1 : u[i] = Adds(kind, x[i])
    BY <1>1, TermsAre, Zenon
  <2> QED
    BY <1>1, <2>1, <2>2
<1> HIDE DEF u
<1>3. Total(u) = Sums(u)[0] + u[1] /\ Sums(u)[0] = 0
  BY <1>2, SumsAre DEF Total
<1>4. u[1] \in Int
  BY <1>2, AddsType
<1> QED
  BY <1>2, <1>3, <1>4 DEF u, x

\* The place and the address a path leads to.
LEMMA EndsOf ==
  ASSUME NEW path, IsPath(path)
  PROVE  /\ PlaceOf(path) = [cyl    |-> Total(Terms("cyl", path)),
                             head   |-> path[Len(path) - 1].e.head,
                             sector |-> TrackOf(path).low + path[Len(path) - 1].resid]
         /\ \A p : AddressOf(path, p) = Total(Terms("lbn", path)) + (p.sector - TrackOf(path).low)
<1>1. Len(IdxNodes(path)) = Len(path) - 1 /\ Len(path) - 1 \in 1 .. Len(path) - 1
  BY IdxNodesAre DEF IsPath
<1>2. IdxNodes(path)[Len(path) - 1] = path[Len(path) - 1]
  BY <1>1, IdxNodesAre
<1>3. PlaceOf(path).cyl = Total(Terms("cyl", path))
  BY DEF PlaceOf, Terms, Adds
<1>4. \A p : AddressOf(path, p) = Total(Terms("lbn", path)) + (p.sector - TrackOf(path).low)
  BY DEF AddressOf, Terms, Adds
<1> QED
  BY <1>1, <1>2, <1>3, <1>4 DEF PlaceOf

\* A node above a path moves both.
LEMMA EndsBelow ==
  ASSUME NEW node \in InnerNode, NEW rest, IsPath(rest)
  PROVE  LET x == Extend(node, rest)
         IN  /\ IsPath(x) /\ TrackOf(x) = TrackOf(rest)
             /\ PlaceOf(x) = [PlaceOf(rest) EXCEPT !.cyl = Adds("cyl", node) + PlaceOf(rest).cyl]
             /\ \A p : p.sector \in Int => AddressOf(x, p) = Adds("lbn", node) + AddressOf(rest, p)
<1> DEFINE x == Extend(node, rest)
           n == Len(rest)
<1>1. /\ IsPath(x) /\ Len(x) = n + 1 /\ x[Len(x)] = rest[n]
      /\ \A i \in 1 .. n : x[i + 1] = rest[i]
  BY ExtendPath
<1>2. n \in Nat /\ n >= 2 /\ rest[n] \in LeafNode
  BY DEF IsPath
<1>3. TrackOf(x) = TrackOf(rest) /\ TrackOf(rest).low = 0
  BY <1>1, <1>2 DEF TrackOf, LeafNode, TrackPattern
<1> HIDE DEF x
<1>4. x[Len(x) - 1] = rest[n - 1]
  <2>1. n - 1 \in 1 .. n /\ (n - 1) + 1 = n /\ Len(x) - 1 = n
    BY <1>1, <1>2
  <2> QED
    BY <1>1, <2>1
<1>5. \A kind : Total(Terms(kind, x)) = Adds(kind, node) + Total(Terms(kind, rest))
  BY SumBelow DEF x
<1>6. PlaceOf(x) = [cyl    |-> Adds("cyl", node) + Total(Terms("cyl", rest)),
                    head   |-> rest[n - 1].e.head,
                    sector |-> TrackOf(rest).low + rest[n - 1].resid]
  BY <1>1, <1>3, <1>4, <1>5, EndsOf
<1>7. PlaceOf(rest) = [cyl    |-> Total(Terms("cyl", rest)),
                       head   |-> rest[n - 1].e.head,
                       sector |-> TrackOf(rest).low + rest[n - 1].resid]
  BY EndsOf
<1>8. ASSUME NEW p, p.sector \in Int PROVE AddressOf(x, p) = Adds("lbn", node) + AddressOf(rest, p)
  <2>1. AddressOf(x, p) = (Adds("lbn", node) + Total(Terms("lbn", rest))) + (p.sector - 0)
    BY <1>1, <1>3, <1>5, EndsOf
  <2>2. AddressOf(rest, p) = Total(Terms("lbn", rest)) + (p.sector - 0)
    BY <1>3, EndsOf
  <2>3. Adds("lbn", node) \in Int /\ Total(Terms("lbn", rest)) \in Int
    BY AddsType, TermsAre, TotalType
  <2> QED
    BY <1>8, <2>1, <2>2, <2>3
<1> QED
  BY <1>1, <1>3, <1>6, <1>7, <1>8 DEF x

LEMMA EndsShort ==
  ASSUME NEW node \in InnerNode, NEW leaf \in LeafNode
  PROVE  LET x == Extend(node, <<leaf>>)
         IN  /\ IsPath(x) /\ TrackOf(x) = leaf.t
             /\ PlaceOf(x) = [cyl |-> Adds("cyl", node), head |-> node.e.head, sector |-> node.resid]
             /\ \A p : p.sector \in Int => AddressOf(x, p) = Adds("lbn", node) + p.sector
<1> DEFINE x == Extend(node, <<leaf>>)
<1>1. IsPath(x) /\ Len(x) = 2 /\ x[1] = node /\ x[Len(x)] = leaf
  BY ShortPath
<1>2. TrackOf(x) = leaf.t /\ leaf.t.low = 0 /\ node.resid \in Int
  BY <1>1 DEF TrackOf, LeafNode, TrackPattern, InnerNode
<1>3. \A kind : Total(Terms(kind, x)) = Adds(kind, node)
  BY SumShort
<1>4. Adds("lbn", node) \in Int
  BY AddsType
<1> HIDE DEF x
<1>5. x[Len(x) - 1] = node
  BY <1>1
<1>6. 0 + node.resid = node.resid /\ \A v \in Int : v - 0 = v
  BY <1>2
<1> QED
  BY <1>1, <1>2, <1>3, <1>5, <1>6, EndsOf DEF x

-----------------------------------------------------------------------------
(* Entries of a tiled tree *)

LEMMA TiledEntry ==
  ASSUME NEW d, Tiled(d), NEW k \in DOMAIN d.idx, NEW i \in DOMAIN d.idx[k]
  PROVE  LET e == d.idx[k][i]
         IN  /\ k \in Nat /\ e \in IdxEntry
             /\ e.lbn \in Int /\ e.cyl \in Int /\ e.len \in Nat \ {0} /\ e.cyllen \in Nat \ {0}
             /\ e.runlen \in Nat \ {0} /\ e.cylrunlen \in Int /\ CopiesIn(e) \in Nat \ {0}
             /\ e.runlen = CopiesIn(e) * e.len
             /\ Magnitude(e.cylrunlen) = CopiesIn(e) * e.cyllen
             /\ e.childtype = "TRACK" => FitsTrack(d, e) /\ d.track[e.child] \in TrackPattern
             /\ e.childtype # "TRACK" =>
                  FitsNode(d, e) /\ e.child \in DOMAIN d.idx /\ e.child < k
<1> DEFINE e == d.idx[k][i]
<1>1. WellFormed(d) /\ TiledNode(d, k)
  BY DEF Tiled
<1>2. /\ k \in Nat /\ e \in IdxEntry
      /\ e.childtype = "TRACK" => d.track[e.child] \in TrackPattern
      /\ e.childtype # "TRACK" => e.child \in DOMAIN d.idx /\ e.child < k
  <2>1. k \in 1 .. Len(d.idx) /\ Len(d.idx) \in Nat
    <3>1. d.idx \in Seq(Seq(IdxEntry))
      BY <1>1 DEF WellFormed
    <3> QED
      BY <3>1
  <2> QED
    BY <1>1, <2>1, EntryIs
<1>3. WholeRun(e) /\ Fits(d, e)
  BY <1>1 DEF TiledNode
<1> HIDE DEF e
<1>4. /\ e.lbn \in Int /\ e.cyl \in Int /\ e.len \in Nat \ {0} /\ e.cyllen \in Nat \ {0}
      /\ e.runlen \in Int /\ e.cylrunlen \in Int
  BY <1>2 DEF IdxEntry
<1>5. CopiesIn(e) \in Nat \ {0}
  <2>1. e.runlen \div e.len \in Int
    BY <1>4
  <2> QED
    BY <1>3, <2>1 DEF WholeRun, CopiesIn
<1>6. e.runlen = CopiesIn(e) * e.len /\ Magnitude(e.cylrunlen) = CopiesIn(e) * e.cyllen
  BY <1>3 DEF WholeRun
<1> DEFINE n == CopiesIn(e)
<1> HIDE DEF n
<1>7. e.runlen \in Nat \ {0}
  <2>1. n \in Nat \ {0} /\ e.runlen = n * e.len
    BY <1>5, <1>6 DEF n
  <2> QED
    BY <1>4, <2>1
<1> QED
  BY <1>2, <1>3, <1>4, <1>5, <1>6, <1>7 DEF Fits, e

\* The entries of a node follow each other, and every address of the node is in one.
LEMMA TiledFollow ==
  ASSUME NEW d, Tiled(d), NEW k \in DOMAIN d.idx
  PROVE  LET ents == d.idx[k]
         IN  /\ SizeOf(d, k) \in Nat \ {0}
             /\ \A i, j \in DOMAIN ents : i < j => ents[i].lbn + ents[i].runlen <= ents[j].lbn
             /\ \A i \in DOMAIN ents : 0 <= ents[i].lbn /\ ents[i].lbn + ents[i].runlen <= SizeOf(d, k)
             /\ \A x \in 0 .. SizeOf(d, k) - 1 : \E i \in DOMAIN ents : LbnCovers(ents[i], x)
<1> DEFINE ents == d.idx[k]
           n == Len(ents)
           at == [i \in 1 .. n |-> ents[i].lbn]
           size == SizeOf(d, k)
<1>1. n \in Nat \ {0} /\ DOMAIN ents = 1 .. n
  <2>1. d.idx \in Seq(Seq(IdxEntry))
    BY DEF Tiled, WellFormed
  <2>2. ents \in Seq(IdxEntry) /\ ents # <<>>
    BY <2>1 DEF Tiled, TiledNode
  <2> QED
    BY <2>2
<1>2. \A i \in 1 .. n : ents[i].lbn \in Int /\ ents[i].runlen \in Nat \ {0}
  BY <1>1, TiledEntry
<1>3. ents[1].lbn = 0 /\ \A i \in 1 .. n - 1 : ents[i + 1].lbn = ents[i].lbn + ents[i].runlen
  BY Zenon DEF Tiled, TiledNode
<1>4. size = ents[n].lbn + ents[n].runlen
  BY DEF SizeOf
<1> HIDE DEF ents, n, size
<1>5. \A i \in 1 .. n, j \in 1 .. n : i <= j => at[i] <= at[j]
  <2>1. \A i \in 1 .. n : at[i] \in Int
    BY <1>2
  <2>2. \A i \in 1 .. n - 1 : at[i] <= at[i + 1]
    <3> SUFFICES ASSUME NEW i \in 1 .. n - 1 PROVE at[i] <= at[i + 1]
      OBVIOUS
    <3>1. i \in 1 .. n /\ i + 1 \in 1 .. n
      BY <1>1
    <3> QED
      BY <1>2, <1>3, <3>1
  <2> HIDE DEF at
  <2> QED
    BY <1>1, <2>1, <2>2, Grows, Zenon
<1>6. ASSUME NEW i \in 1 .. n, NEW j \in 1 .. n, i < j PROVE ents[i].lbn + ents[i].runlen <= ents[j].lbn
  <2>1. i \in 1 .. n - 1 /\ i + 1 \in 1 .. n /\ i + 1 <= j
    BY <1>1, <1>6
  <2>2. at[i + 1] <= at[j]
    BY <1>5, <2>1
  <2> QED
    BY <1>3, <2>1, <2>2
<1>7. ASSUME NEW i \in 1 .. n PROVE 0 <= ents[i].lbn /\ ents[i].lbn + ents[i].runlen <= size
  <2>1. 1 \in 1 .. n /\ n \in 1 .. n /\ 1 <= i /\ i <= n
    BY <1>1
  <2>2. at[1] <= at[i]
    BY <1>5, <2>1
  <2>3. 0 <= ents[i].lbn
    BY <1>3, <2>1, <2>2
  <2>4. CASE i = n
    BY <1>2, <1>4, <2>1, <2>3, <2>4
  <2>5. CASE i < n
    <3>1. ents[i].lbn + ents[i].runlen <= ents[n].lbn
      BY <1>6, <2>1, <2>5
    <3> QED
      BY <1>2, <1>4, <2>1, <2>3, <3>1
  <2> QED
    BY <1>1, <2>4, <2>5
<1>8. size \in Nat \ {0}
  <2>1. n \in 1 .. n
    BY <1>1
  <2> QED
    BY <1>2, <1>4, <1>7, <2>1
<1>9. ASSUME NEW x \in 0 .. size - 1 PROVE \E i \in 1 .. n : LbnCovers(ents[i], x)
  <2> DEFINE T == { i \in 1 .. n : x < ents[i].lbn + ents[i].runlen }
  <2>1. x \in Int /\ 0 <= x /\ x < size
    BY <1>8
  <2>2. n \in T /\ T \subseteq Nat
    BY <1>1, <1>4, <2>1
  <2>3. PICK m \in T : \A i \in T : m <= i
    <3> HIDE DEF T
    <3> QED
      BY <2>2, LeastOf, Zenon
  <2>4. m \in 1 .. n /\ x < ents[m].lbn + ents[m].runlen
    BY <2>3
  <2>5. ents[m].lbn <= x
    <3>1. CASE m = 1
      BY <1>3, <2>1, <3>1
    <3>2. CASE m # 1
      <4>1. m - 1 \in 1 .. n - 1 /\ m - 1 \in 1 .. n /\ (m - 1) + 1 = m /\ ~(m <= m - 1)
        BY <1>1, <2>4, <3>2
      <4>2. ~(x < ents[m - 1].lbn + ents[m - 1].runlen)
        BY <2>3, <4>1
      <4>3. ents[m].lbn = ents[m - 1].lbn + ents[m - 1].runlen
        BY <1>3, <4>1
      <4>4. ents[m].lbn \in Int
        BY <1>2, <2>4
      <4> QED
        BY <2>1, <4>2, <4>3, <4>4
    <3> QED
      BY <3>1, <3>2
  <2> QED
    BY <2>4, <2>5 DEF LbnCovers
<1> QED
  BY <1>1, <1>6, <1>7, <1>8, <1>9, Zenon DEF ents, size

-----------------------------------------------------------------------------
(* Copies of an entry's child *)

LEMMA CopyInside ==
  ASSUME NEW n \in Nat \ {0}, NEW len \in Nat \ {0}, NEW q \in 0 .. n - 1, NEW r \in 0 .. len - 1
  PROVE  /\ q * len \in Nat /\ q * len + r \in Nat
         /\ q * len + r < (q + 1) * len
         /\ (q + 1) * len <= n * len
<1>1. q * len \in Nat
  OBVIOUS
<1>2. (q + 1) * len = q * len + len
  OBVIOUS
<1>3. (n - q) * len = n * len - q * len
  OBVIOUS
<1>4. (n - q) * len >= len
  BY AtLeast
<1> QED
  BY <1>1, <1>2, <1>3, <1>4

LEMMA CopySplits ==
  ASSUME NEW n \in Nat \ {0}, NEW len \in Nat \ {0}, NEW y \in Nat, y < n * len
  PROVE  y \div len \in 0 .. n - 1 /\ y % len \in 0 .. len - 1 /\ y = (y \div len) * len + (y % len)
<1> DEFINE q == y \div len
           r == y % len
<1>1. q \in Nat /\ r \in 0 .. len - 1 /\ y = q * len + r
  <2>1. y \in Int
    OBVIOUS
  <2> QED
    BY <2>1, DivisionIs, DivisionNat, Zenon
<1> HIDE DEF q, r
<1>2. ~(q >= n)
  <2> SUFFICES ASSUME q >= n PROVE FALSE
    OBVIOUS
  <2>1. (q - n) * len >= 0 /\ (q - n) * len = q * len - n * len
    BY <1>1
  <2> QED
    BY <1>1, <2>1
<1> QED
  BY <1>1, <1>2 DEF q, r

\* Towards lower cylinders when the entry's run is negative.
Towards(e, q) == IF e.cylrunlen < 0 THEN -q ELSE q
LbnDown(d, e, r) ==
  IF e.childtype = "TRACK" THEN LbnLeaf(d.track[e.child], r) ELSE LbnPaths(d)[<<e.child, r>>]

\* Address r of copy q of entry i is behind that entry.
LEMMA LbnGoes ==
  ASSUME NEW d, Tiled(d), NEW k \in DOMAIN d.idx, NEW i \in DOMAIN d.idx[k],
         NEW q \in 0 .. CopiesIn(d.idx[k][i]) - 1, NEW r \in 0 .. d.idx[k][i].len - 1
  PROVE  LET e == d.idx[k][i]
             x == e.lbn + q * e.len + r
         IN  /\ x \in 0 .. SizeOf(d, k) - 1 /\ x < e.lbn + e.runlen
             /\ IdxNode(e, Towards(e, q), r) \in InnerNode
             /\ LbnPaths(d)[<<k, x>>] = Extend(IdxNode(e, Towards(e, q), r), LbnDown(d, e, r))
<1> DEFINE ents == d.idx[k]
           e == ents[i]
           x == e.lbn + q * e.len + r
           n == CopiesIn(e)
           size == SizeOf(d, k)
           at == <<k, x>>
<1>1. /\ e \in IdxEntry /\ e.lbn \in Int /\ e.len \in Nat \ {0} /\ n \in Nat \ {0}
      /\ e.runlen = n * e.len
  BY TiledEntry
<1>2. /\ \A j, m \in DOMAIN ents : j < m => ents[j].lbn + ents[j].runlen <= ents[m].lbn
      /\ 0 <= e.lbn /\ e.lbn + e.runlen <= size
      /\ size \in Nat \ {0}
  BY TiledFollow
<1>3. DOMAIN ents \subseteq Nat
  <2>1. d.idx \in Seq(Seq(IdxEntry))
    BY DEF Tiled, WellFormed
  <2>2. ents \in Seq(IdxEntry)
    BY <2>1
  <2> QED
    BY <2>2
<1>4. \A j \in DOMAIN ents : ents[j].lbn \in Int /\ ents[j].runlen \in Nat
  BY TiledEntry
<1>5. q \in Int /\ r \in Int /\ q \in 0 .. n - 1 /\ r \in 0 .. e.len - 1
  BY <1>1
<1> HIDE DEF n, size, ents
<1>6. q * e.len \in Nat /\ q * e.len + r \in Nat /\ q * e.len + r < n * e.len
  <2>1. /\ q * e.len \in Nat /\ q * e.len + r \in Nat
        /\ q * e.len + r < (q + 1) * e.len
        /\ (q + 1) * e.len <= n * e.len
    BY <1>1, <1>5, CopyInside
  <2>2. (q + 1) * e.len \in Int /\ n * e.len \in Int
    BY <1>1, <1>5
  <2> QED
    BY <2>1, <2>2
<1>7. x \in Int /\ e.lbn <= x /\ x < e.lbn + e.runlen /\ x \in 0 .. size - 1
  <2> DEFINE y == q * e.len
  <2> HIDE DEF y
  <2>1. y \in Nat /\ y + r \in Nat /\ y + r < e.runlen /\ x = e.lbn + y + r
    BY <1>1, <1>6 DEF y
  <2>2. e.runlen \in Nat
    BY <1>4 DEF ents
  <2> QED
    BY <1>1, <1>2, <1>5, <2>1, <2>2
<1>8. LbnHere(d, at) = {i}
  <2> SUFFICES ASSUME NEW j \in DOMAIN ents PROVE LbnCovers(ents[j], x) <=> j = i
    BY DEF LbnHere, ents
  <2>1. i \in DOMAIN ents /\ i \in Nat /\ j \in Nat
    BY <1>3 DEF ents
  <2>2. CASE j = i
    BY <1>7, <2>2 DEF LbnCovers
  <2>3. CASE j < i
    <3>1. ents[j].lbn + ents[j].runlen <= e.lbn
      BY <1>2, <2>1, <2>3
    <3> QED
      BY <1>1, <1>4, <1>7, <2>1, <2>3, <3>1 DEF LbnCovers
  <2>4. CASE i < j
    <3>1. e.lbn + e.runlen <= ents[j].lbn
      BY <1>2, <2>1, <2>4
    <3> QED
      BY <1>1, <1>4, <1>7, <2>1, <2>4, <3>1 DEF LbnCovers
  <2> QED
    BY <2>1, <2>2, <2>3, <2>4
<1>9. LbnEntry(d, at) = e
  <2>1. Lowest({i}) = i
    <3>1. {i} \subseteq Nat /\ {i} # {}
      BY <1>3 DEF ents
    <3> QED
      BY <3>1, LowestIs
  <2> QED
    BY <1>8, <2>1 DEF LbnEntry, ents
<1>10. (x - e.lbn) \div e.len = q /\ (x - e.lbn) % e.len = r
  <2>1. x - e.lbn = q * e.len + r
    <3> DEFINE y == q * e.len
    <3> HIDE DEF y
    <3>1. y \in Nat /\ x = e.lbn + y + r
      BY <1>6 DEF y
    <3>2. x - e.lbn = y + r
      BY <1>1, <1>5, <3>1
    <3> QED
      BY <3>2 DEF y
  <2>2. (q * e.len + r) \div e.len = q /\ (q * e.len + r) % e.len = r
    BY <1>1, <1>5, DivisionOnly, Zenon
  <2> HIDE DEF x
  <2> QED
    BY <2>1, <2>2
<1> HIDE DEF x
<1>11. LbnRest(d, at) = r
  BY <1>9, <1>10 DEF LbnRest
<1>12. LbnNode(e, x) = IdxNode(e, Towards(e, q), r)
  BY <1>10 DEF LbnNode, Towards
<1>13. LbnPaths(d)[at] = LbnLevel(d, LbnPaths(d), at)
  BY <1>7, LbnPathsIs DEF Tiled
<1>14. LbnPaths(d)[at] = Extend(LbnNode(e, x), LbnDown(d, e, r))
  BY <1>8, <1>9, <1>11, <1>13, Zenon DEF LbnLevel, LbnDown
<1>15. IdxNode(e, Towards(e, q), r) \in InnerNode
  BY <1>1, <1>5 DEF IdxNode, InnerNode, Towards
<1> QED
  BY <1>7, <1>12, <1>14, <1>15 DEF x, e, ents, size

\* Every address of a node is in a copy of an entry.
LEMMA LbnSplits ==
  ASSUME NEW d, Tiled(d), NEW k \in DOMAIN d.idx, NEW x \in 0 .. SizeOf(d, k) - 1
  PROVE  \E i \in DOMAIN d.idx[k] :
           LET e == d.idx[k][i]
           IN  \E q \in 0 .. CopiesIn(e) - 1, r \in 0 .. e.len - 1 : x = e.lbn + q * e.len + r
<1>1. PICK i \in DOMAIN d.idx[k] : LbnCovers(d.idx[k][i], x)
  BY TiledFollow
<1> DEFINE e == d.idx[k][i]
           n == CopiesIn(e)
           y == x - e.lbn
<1>2. e.lbn \in Int /\ e.len \in Nat \ {0} /\ n \in Nat \ {0} /\ e.runlen = n * e.len
  BY TiledEntry
<1>3. e.lbn <= x /\ x < e.lbn + e.runlen
  BY <1>1 DEF LbnCovers
<1>4. x \in Int
  BY TiledFollow
<1> HIDE DEF n, e
<1>5. y \in Nat /\ y < n * e.len
  <2>1. n * e.len \in Int
    BY <1>2
  <2> QED
    BY <1>2, <1>3, <1>4, <2>1
<1> HIDE DEF y
<1>6. y \div e.len \in 0 .. n - 1 /\ y % e.len \in 0 .. e.len - 1 /\ y = (y \div e.len) * e.len + (y % e.len)
  BY <1>2, <1>5, CopySplits, Zenon
<1> DEFINE q == y \div e.len
           r == y % e.len
<1>7. x = e.lbn + q * e.len + r
  <2>1. x = e.lbn + y
    BY <1>2, <1>4 DEF y
  <2>2. y = q * e.len + r /\ q * e.len \in Int /\ r \in Int
    <3>1. q \in Int /\ r \in Int /\ e.len \in Int
      BY <1>2, <1>5
    <3>2. q * e.len \in Int
      BY <3>1
    <3> QED
      BY <1>6, <3>1, <3>2
  <2> HIDE DEF q, r
  <2> DEFINE z == q * e.len
  <2> HIDE DEF z
  <2>3. z \in Int /\ y = z + r
    BY <2>2 DEF z
  <2>4. x = e.lbn + z + r
    BY <1>2, <2>1, <2>2, <2>3
  <2> QED
    BY <2>4 DEF z
<1>8. \E q1 \in 0 .. n - 1, r1 \in 0 .. e.len - 1 : x = e.lbn + q1 * e.len + r1
  BY <1>6, <1>7
<1> QED
  BY <1>8 DEF n, e

LEMMA CDivIs ==
  ASSUME NEW len \in Nat \ {0}, NEW q \in Nat, NEW c \in 0 .. len - 1
  PROVE  CDiv(q * len + c, len) = q /\ CMod(q * len + c, len) = c
<1> DEFINE a == q * len + c
<1>1. q * len \in Nat /\ a \in Nat
  OBVIOUS
<1>2. a \div len = q
  BY DivisionOnly
<1> HIDE DEF a
<1>3. CDiv(a, len) = q
  BY <1>1, <1>2 DEF CDiv
<1>4. CMod(a, len) = a - len * q
  BY <1>3 DEF CMod
<1>5. a - len * q = c
  <2>1. len * q = q * len
    OBVIOUS
  <2> QED
    BY <1>1, <2>1 DEF a
<1> QED
  BY <1>3, <1>4, <1>5 DEF a

LEMMA CDivByOne ==
  ASSUME NEW a \in Int
  PROVE  CDiv(a, 1) = a /\ CMod(a, 1) = 0
<1>1. \A b \in Nat : b \div 1 = b
  OBVIOUS
<1>2. CDiv(a, 1) = a
  BY <1>1 DEF CDiv
<1> QED
  BY <1>2 DEF CMod

\* The cylinder of a copy is in the entry's run and leads back to the copy.
LEMMA CopyFound ==
  ASSUME NEW d, Tiled(d), NEW k \in DOMAIN d.idx, NEW i \in DOMAIN d.idx[k],
         NEW q \in 0 .. CopiesIn(d.idx[k][i]) - 1, NEW c \in 0 .. d.idx[k][i].cyllen - 1
  PROVE  LET e == d.idx[k][i]
             a == e.cyl + Towards(e, q) * e.cyllen + c
         IN  /\ a \in Int /\ LowCyl(e) <= a /\ a <= HighCyl(e)
             /\ CopyOf(e, a) = q /\ CMod(a - e.cyl, e.cyllen) = c
<1> DEFINE e == d.idx[k][i]
           n == CopiesIn(e)
           a == e.cyl + Towards(e, q) * e.cyllen + c
<1>1. /\ e.cyl \in Int /\ e.cyllen \in Nat \ {0} /\ e.cylrunlen \in Int /\ n \in Nat \ {0}
      /\ Magnitude(e.cylrunlen) = n * e.cyllen
      /\ e.childtype = "TRACK" => e.cyllen = 1
      /\ e.childtype # "TRACK" => e.cylrunlen > 0
  BY TiledEntry DEF FitsTrack, FitsNode
<1>2. q \in 0 .. n - 1 /\ c \in 0 .. e.cyllen - 1
  OBVIOUS
<1> HIDE DEF n, e
<1>3. CASE e.cylrunlen < 0
  <2>1. e.cyllen = 1 /\ c = 0 /\ n * e.cyllen = n
    BY <1>1, <1>2, <1>3
  <2>2. e.cylrunlen = -n
    BY <1>1, <1>3, <2>1 DEF Magnitude
  <2>3. a = e.cyl + (-q)
    BY <1>1, <1>2, <1>3, <2>1 DEF Towards
  <2> HIDE DEF a
  <2>4. a - e.cyl = -q /\ -q \in Int /\ -(-q) = q /\ a \in Int
    BY <1>1, <1>2, <2>3
  <2>5. CDiv(a - e.cyl, 1) = -q /\ CMod(a - e.cyl, 1) = 0
    BY <2>4, CDivByOne
  <2>6. CopyOf(e, a) = q /\ CMod(a - e.cyl, e.cyllen) = c
    BY <1>3, <2>1, <2>4, <2>5 DEF CopyOf
  <2>7. LowCyl(e) = e.cyl + e.cylrunlen + 1 /\ HighCyl(e) = e.cyl
    BY <1>1, <1>3 DEF LowCyl, HighCyl
  <2>8. LowCyl(e) <= a /\ a <= HighCyl(e)
    BY <1>1, <1>2, <2>2, <2>3, <2>7
  <2> QED
    BY <2>4, <2>6, <2>8 DEF a, e
<1>4. CASE ~(e.cylrunlen < 0)
  <2> DEFINE y == q * e.cyllen
             z == n * e.cyllen
  <2>1. y \in Nat /\ y + c < z /\ z \in Int
    <3>1. /\ q * e.cyllen \in Nat /\ q * e.cyllen + c \in Nat
          /\ q * e.cyllen + c < (q + 1) * e.cyllen
          /\ (q + 1) * e.cyllen <= n * e.cyllen
      BY <1>1, <1>2, CopyInside
    <3>2. (q + 1) * e.cyllen \in Int /\ n * e.cyllen \in Int
      BY <1>1, <1>2
    <3> QED
      BY <1>2, <3>1, <3>2
  <2>2. e.cylrunlen = z
    BY <1>1, <1>4 DEF Magnitude
  <2>3. a = e.cyl + y + c
    BY <1>4 DEF Towards
  <2>4. CDiv(y + c, e.cyllen) = q /\ CMod(y + c, e.cyllen) = c
    <3>1. q \in Nat
      BY <1>2
    <3> QED
      BY <1>1, <1>2, <3>1, CDivIs, Zenon
  <2> HIDE DEF a, y, z
  <2>5. a - e.cyl = y + c /\ a \in Int
    BY <1>1, <1>2, <2>1, <2>3
  <2>6. CopyOf(e, a) = q /\ CMod(a - e.cyl, e.cyllen) = c
    BY <1>4, <2>4, <2>5 DEF CopyOf
  <2>7. LowCyl(e) <= a /\ a <= HighCyl(e)
    <3>1. e.cylrunlen > 0
      BY <1>2, <2>1, <2>2
    <3>2. LowCyl(e) = e.cyl /\ HighCyl(e) = e.cyl + e.cylrunlen - 1
      BY <1>4, <3>1 DEF LowCyl, HighCyl
    <3> QED
      BY <1>1, <1>2, <2>1, <2>2, <2>3, <3>2
  <2> QED
    BY <2>5, <2>6, <2>7 DEF a, e
<1> QED
  BY <1>3, <1>4

\* What is found in a copy is cut down to the highest address.
LEMMA HighestCuts ==
  ASSUME NEW lbn \in Int, NEW len \in Nat \ {0}, NEW run \in Nat, NEW q \in Nat, NEW max \in Int,
         NEW r \in 0 .. len - 1, q * len + r < run,
         NEW e, e.lbn = lbn, e.len = len, e.runlen = run
  PROVE  /\ HighestIn(e, q, max) \in Int
         /\ r <= HighestIn(e, q, max) <=> lbn + q * len + r <= max
<1> DEFINE y == q * len
<1>1. y \in Nat /\ (q + 1) * len = y + len
  OBVIOUS
<1>2. HighestIn(e, q, max) = Lesser(Lesser(max, lbn + run - 1) - lbn, y + len - 1) - y
  BY <1>1 DEF HighestIn
<1>3. y + r < run
  OBVIOUS
<1> HIDE DEF y
<1>4. CASE max < lbn + run - 1
  <2>1. Lesser(max, lbn + run - 1) = max
    BY <1>4 DEF Lesser
  <2>2. HighestIn(e, q, max) = Lesser(max - lbn, y + len - 1) - y
    BY <1>2, <2>1
  <2>3. /\ Lesser(max - lbn, y + len - 1) - y \in Int
        /\ r <= Lesser(max - lbn, y + len - 1) - y <=> lbn + y + r <= max
    BY <1>1 DEF Lesser
  <2> QED
    BY <2>2, <2>3 DEF y
<1>5. CASE ~(max < lbn + run - 1)
  <2>1. Lesser(max, lbn + run - 1) = lbn + run - 1
    BY <1>5 DEF Lesser
  <2>2. HighestIn(e, q, max) = Lesser(lbn + run - 1 - lbn, y + len - 1) - y
    BY <1>2, <2>1
  <2>3. /\ Lesser(lbn + run - 1 - lbn, y + len - 1) - y \in Int
        /\ r <= Lesser(lbn + run - 1 - lbn, y + len - 1) - y
    BY <1>1, <1>3 DEF Lesser
  <2>4. lbn + y + r <= max
    BY <1>1, <1>3, <1>5
  <2> QED
    BY <2>2, <2>3, <2>4 DEF y
<1> QED
  BY <1>4, <1>5

PbnDown(d, p, e, c, max) ==
  IF e.childtype = "TRACK" THEN PbnLeaf(p, d.track[e.child], max)
  ELSE PbnPaths(d, p)[<<e.child, c, max>>]

\* Cylinder c of copy q of entry i is found behind that entry.
LEMMA PbnGoes ==
  ASSUME NEW d, Tiled(d), NEW k \in DOMAIN d.idx, NEW i \in DOMAIN d.idx[k],
         NEW q \in 0 .. CopiesIn(d.idx[k][i]) - 1, NEW c \in 0 .. d.idx[k][i].cyllen - 1,
         NEW p, d.idx[k][i].childtype = "TRACK" => p.head = d.idx[k][i].head, NEW max \in Int
  PROVE  LET e == d.idx[k][i]
             a == e.cyl + Towards(e, q) * e.cyllen + c
         IN  /\ IdxNode(e, q, c) \in InnerNode
             /\ PbnPaths(d, p)[<<k, a, max>>]
                  = Extend(IdxNode(e, q, c), PbnDown(d, p, e, c, HighestIn(e, q, max)))
<1> DEFINE ents == d.idx[k]
           e == ents[i]
           a == e.cyl + Towards(e, q) * e.cyllen + c
           at == <<k, a, max>>
<1>1. e \in IdxEntry /\ CopiesIn(e) \in Nat /\ e.cyllen \in Nat
  BY TiledEntry
<1>2. /\ a \in Int /\ LowCyl(e) <= a /\ a <= HighCyl(e)
      /\ CopyOf(e, a) = q /\ CMod(a - e.cyl, e.cyllen) = c
  BY CopyFound
<1>3. \A j \in DOMAIN ents : LowCyl(ents[j]) \in Int /\ HighCyl(ents[j]) \in Int
  <2> SUFFICES ASSUME NEW j \in DOMAIN ents PROVE LowCyl(ents[j]) \in Int /\ HighCyl(ents[j]) \in Int
    OBVIOUS
  <2>1. ents[j].cyl \in Int /\ ents[j].cylrunlen \in Int
    BY TiledEntry
  <2> QED
    BY <2>1 DEF LowCyl, HighCyl
<1>4. \A j \in DOMAIN ents : j # i => TracksApart(e, ents[j])
  BY DEF Tiled, TiledNode
<1>5. i \in DOMAIN ents /\ i \in Nat
  <2>1. d.idx \in Seq(Seq(IdxEntry))
    BY DEF Tiled, WellFormed
  <2>2. ents \in Seq(IdxEntry)
    BY <2>1
  <2> QED
    BY <2>2
<1>6. e.childtype = "TRACK" => p.head = e.head
  OBVIOUS
<1>7. q \in Int /\ c \in Int
  BY <1>1
<1> HIDE DEF a, ents
<1>8. PbnHere(d, p, at) = {i}
  <2> SUFFICES ASSUME NEW j \in DOMAIN ents PROVE PbnCovers(p, ents[j], a) <=> j = i
    BY <1>5 DEF PbnHere, ents
  <2>1. CASE j = i
    BY <1>2, <1>6, <2>1 DEF PbnCovers
  <2>2. CASE j # i
    <3>1. TracksApart(e, ents[j])
      BY <1>4, <2>2
    <3>2. LowCyl(ents[j]) \in Int /\ HighCyl(ents[j]) \in Int /\ LowCyl(e) \in Int /\ HighCyl(e) \in Int
      BY <1>3, <1>5
    <3> HIDE DEF e
    <3> QED
      BY <1>2, <1>6, <2>2, <3>1, <3>2 DEF PbnCovers, TracksApart
  <2> QED
    BY <2>1, <2>2
<1>9. PbnEntry(d, p, at) = e
  <2>1. Lowest({i}) = i
    <3>1. {i} \subseteq Nat /\ {i} # {}
      BY <1>5
    <3> QED
      BY <3>1, LowestIs
  <2> QED
    BY <1>8, <2>1 DEF PbnEntry, ents
<1>10. PbnPaths(d, p)[at] = PbnLevel(d, p, PbnPaths(d, p), at)
  <2>1. at \in (DOMAIN d.idx) \X Int \X Int
    BY <1>2
  <2> QED
    BY <2>1, PbnPathsIs DEF Tiled
<1>11. PbnRest(d, p, at) = c /\ PbnLeft(d, p, at) = HighestIn(e, q, max)
  BY <1>2, <1>9 DEF PbnRest, PbnLeft
<1>12. PbnNode(d, p, at) = IdxNode(e, q, c)
  BY <1>2, <1>9, <1>11 DEF PbnNode
<1>13. PbnPaths(d, p)[at] = Extend(IdxNode(e, q, c), PbnDown(d, p, e, c, HighestIn(e, q, max)))
  BY <1>8, <1>9, <1>10, <1>11, <1>12, Zenon DEF PbnLevel, PbnDown
<1>14. IdxNode(e, q, c) \in InnerNode
  BY <1>1, <1>7 DEF IdxNode, InnerNode
<1> QED
  BY <1>13, <1>14 DEF a, ents

-----------------------------------------------------------------------------
(* Paths to an address and back *)

PathTo(d, k, x)  == LbnPaths(d)[<<k, x>>]
PlaceIn(d, k, x) == PlaceOf(PathTo(d, k, x))
TrackIn(d, k, x) == TrackOf(PathTo(d, k, x))

TracksOf(d) == { d.track[j] : j \in DOMAIN d.track }

\* Address x of node k is a sector of a track the node has.
Placed(d, k, x) ==
  LET place == PlaceIn(d, k, x)
  IN  /\ IsPath(PathTo(d, k, x))
      /\ TrackIn(d, k, x) \in TracksOf(d)
      /\ TrackIn(d, k, x).high = TrackIn(d, k, x).spt - 1
      /\ place.cyl \in Int
      /\ \E i \in DOMAIN d.idx[k] : LowCyl(d.idx[k][i]) <= place.cyl /\ place.cyl <= HighCyl(d.idx[k][i])
      /\ place.head \in 0 .. d.heads - 1
      /\ place.sector \in 0 .. TrackIn(d, k, x).high

\* The track's sectors follow each other around it.
Neighboured(d, k, x) ==
  \A s \in 0 .. TrackIn(d, k, x).high :
    LET b == x - PlaceIn(d, k, x).sector + s
    IN  /\ b \in 0 .. SizeOf(d, k) - 1
        /\ IsPath(PathTo(d, k, b))
        /\ PlaceIn(d, k, b) = [PlaceIn(d, k, x) EXCEPT !.sector = s]
        /\ TrackIn(d, k, b) = TrackIn(d, k, x)

\* The sector leads back, unless x is behind the highest address.
FoundBack(d, k, x) ==
  \A p, max :
    max \in Int /\ p.head = PlaceIn(d, k, x).head /\ p.sector = PlaceIn(d, k, x).sector =>
      LET back == PbnPaths(d, p)[<<k, PlaceIn(d, k, x).cyl, max>>]
      IN  IF x <= max
          THEN IsPath(back) /\ AddressOf(back, p) = x /\ TrackOf(back) = TrackIn(d, k, x)
          ELSE back = <<>>

Serves(d, k) ==
  \A x \in 0 .. SizeOf(d, k) - 1 : Placed(d, k, x) /\ Neighboured(d, k, x) /\ FoundBack(d, k, x)

\* The path to a sector of copy q of a track.
LEMMA TrackPlaces ==
  ASSUME NEW d, Tiled(d), NEW k \in DOMAIN d.idx, NEW i \in DOMAIN d.idx[k],
         d.idx[k][i].childtype = "TRACK",
         NEW q \in 0 .. CopiesIn(d.idx[k][i]) - 1, NEW r \in 0 .. d.idx[k][i].len - 1
  PROVE  LET e == d.idx[k][i]
             x == e.lbn + q * e.len + r
         IN  /\ x \in 0 .. SizeOf(d, k) - 1
             /\ IsPath(PathTo(d, k, x))
             /\ TrackIn(d, k, x) = d.track[e.child]
             /\ PlaceIn(d, k, x) = [cyl    |-> e.cyl + Towards(e, q) * e.cyllen,
                                    head   |-> e.head,
                                    sector |-> r]
<1> DEFINE e == d.idx[k][i]
           t == d.track[e.child]
           x == e.lbn + q * e.len + r
           node == IdxNode(e, Towards(e, q), r)
           leaf == TrackNode(t, r)
<1>1. t \in TrackPattern /\ e.len = t.high + 1
  BY TiledEntry DEF FitsTrack
<1>2. /\ x \in 0 .. SizeOf(d, k) - 1 /\ node \in InnerNode
      /\ LbnPaths(d)[<<k, x>>] = Extend(node, LbnDown(d, e, r))
  BY LbnGoes
<1>3. t.low = 0 /\ t.high \in Nat /\ r \in 0 .. t.high /\ r - t.low = r
  <2>1. t.low = 0 /\ t.high \in Nat
    BY <1>1 DEF TrackPattern
  <2>2. r \in 0 .. e.len - 1
    OBVIOUS
  <2> HIDE DEF e, t
  <2> QED
    BY <1>1, <2>1, <2>2
<1>4. LbnDown(d, e, r) = <<leaf>>
  BY <1>3 DEF LbnDown, LbnLeaf
<1>5. leaf \in LeafNode
  BY <1>1, <1>3 DEF LeafNode, TrackNode
<1>6. leaf.t = t /\ node.e = e /\ node.resid = r /\ Adds("cyl", node) = e.cyl + Towards(e, q) * e.cyllen
  BY DEF TrackNode, IdxNode, Adds
<1> HIDE DEF leaf, node, x, t, e
<1> DEFINE y == Extend(node, <<leaf>>)
<1>7. /\ IsPath(y) /\ TrackOf(y) = leaf.t
      /\ PlaceOf(y) = [cyl |-> Adds("cyl", node), head |-> node.e.head, sector |-> node.resid]
  BY <1>2, <1>5, EndsShort
<1>8. PathTo(d, k, x) = y
  BY <1>2, <1>4 DEF PathTo
<1> HIDE DEF y
<1>9. /\ x \in 0 .. SizeOf(d, k) - 1 /\ IsPath(PathTo(d, k, x)) /\ TrackIn(d, k, x) = t
      /\ PlaceIn(d, k, x) = [cyl |-> e.cyl + Towards(e, q) * e.cyllen, head |-> e.head, sector |-> r]
  BY <1>2, <1>6, <1>7, <1>8 DEF TrackIn, PlaceIn
<1> QED
  BY <1>9 DEF x, t, e

\* What is r into copy q of an entry, moved to another sector of the track.
LEMMA MovedBy ==
  ASSUME NEW lbn \in Int, NEW y \in Int, NEW r \in Int, NEW s \in Int
  PROVE  (lbn + y + r) - r + s = lbn + y + s
OBVIOUS

LEMMA TrackListed ==
  ASSUME NEW d, Tiled(d), NEW k \in DOMAIN d.idx, NEW i \in DOMAIN d.idx[k],
         d.idx[k][i].childtype = "TRACK"
  PROVE  d.track[d.idx[k][i].child] \in TracksOf(d)
<1>1. StandsFor(d, k, d.idx[k][i])
  BY DEF Tiled, WellFormed
<1>2. d.idx[k][i].child \in DOMAIN d.track
  BY <1>1 DEF StandsFor
<1> QED
  BY <1>2 DEF TracksOf

LEMMA ServesTrack ==
  ASSUME NEW d, Tiled(d), NEW k \in DOMAIN d.idx, NEW i \in DOMAIN d.idx[k],
         d.idx[k][i].childtype = "TRACK",
         NEW q \in 0 .. CopiesIn(d.idx[k][i]) - 1, NEW r \in 0 .. d.idx[k][i].len - 1,
         NEW x, x = d.idx[k][i].lbn + q * d.idx[k][i].len + r
  PROVE  Placed(d, k, x) /\ Neighboured(d, k, x) /\ FoundBack(d, k, x)
<1> DEFINE e == d.idx[k][i]
           t == d.track[e.child]
           cyl == e.cyl + Towards(e, q) * e.cyllen
           place(s) == [cyl |-> cyl, head |-> e.head, sector |-> s]
<1>1. /\ e \in IdxEntry /\ e.lbn \in Int /\ e.len \in Nat \ {0} /\ CopiesIn(e) \in Nat \ {0}
      /\ t \in TrackPattern /\ FitsTrack(d, e) /\ e.cyllen \in Nat \ {0} /\ e.runlen \in Nat
      /\ e.runlen = CopiesIn(e) * e.len /\ e.cyl \in Int
  BY TiledEntry
<1>2. e.len = t.spt /\ e.len = t.high + 1 /\ t.low = 0 /\ t.high \in Nat /\ t.spt \in Int
      /\ e.cyllen = 1 /\ e.head \in 0 .. d.heads - 1
  <2>1. t.low = 0 /\ t.high \in Nat
    BY <1>1 DEF TrackPattern
  <2>2. e.len = t.spt /\ e.len = t.high + 1 /\ e.cyllen = 1 /\ e.head \in 0 .. d.heads - 1
    BY <1>1, Zenon DEF FitsTrack
  <2> HIDE DEF e, t
  <2> QED
    BY <1>1, <2>1, <2>2
<1>3. ASSUME NEW s \in 0 .. e.len - 1
      PROVE  LET b == e.lbn + q * e.len + s
             IN  /\ b \in 0 .. SizeOf(d, k) - 1
                 /\ IsPath(PathTo(d, k, b)) /\ TrackIn(d, k, b) = t /\ PlaceIn(d, k, b) = place(s)
  BY TrackPlaces
<1>4. /\ cyl \in Int /\ LowCyl(e) <= cyl /\ cyl <= HighCyl(e)
  <2> DEFINE a == e.cyl + Towards(e, q) * e.cyllen + 0
  <2>1. 0 \in 0 .. e.cyllen - 1
    BY <1>1
  <2>2. a \in Int /\ LowCyl(e) <= a /\ a <= HighCyl(e)
    BY <2>1, CopyFound
  <2>3. a = cyl
    <3>1. q \in Int
      BY <1>1
    <3>2. \A f : Towards(f, q) \in Int
      BY <3>1 DEF Towards
    <3>3. Towards(e, q) \in Int /\ e.cyl \in Int /\ e.cyllen = 1
      BY <1>1, <1>2, <3>2, Zenon
    <3> HIDE DEF e
    <3> QED
      BY <3>3
  <2> QED
    BY <2>2, <2>3
<1>5. e.childtype = "TRACK" /\ r \in 0 .. e.len - 1 /\ r \in Int /\ q \in Nat /\ q \in 0 .. CopiesIn(e) - 1
  BY <1>1
<1>11. t \in TracksOf(d)
  BY TrackListed
<1> HIDE DEF e, t, cyl
<1>6. /\ IsPath(PathTo(d, k, x)) /\ TrackIn(d, k, x) = t /\ PlaceIn(d, k, x) = place(r)
      /\ x = e.lbn + q * e.len + r
  BY <1>3, <1>5 DEF e
<1>7. q * e.len \in Int /\ q * e.len + r < e.runlen
  <2>1. /\ q * e.len \in Nat
        /\ q * e.len + r < (q + 1) * e.len
        /\ (q + 1) * e.len <= CopiesIn(e) * e.len
    BY <1>1, <1>5, CopyInside
  <2>2. (q + 1) * e.len \in Int
    BY <1>1, <1>5
  <2> QED
    BY <1>1, <1>5, <2>1, <2>2
<1>8. Placed(d, k, x)
  <2>1. TrackIn(d, k, x).high = TrackIn(d, k, x).spt - 1
    <3>1. t.high = t.spt - 1
      BY <1>2
    <3> QED
      BY <1>6, <3>1
  <2>2. \E j \in DOMAIN d.idx[k] : LowCyl(d.idx[k][j]) <= cyl /\ cyl <= HighCyl(d.idx[k][j])
    BY <1>4 DEF e
  <2>3. r \in 0 .. t.high
    BY <1>2, <1>5
  <2>4. PlaceIn(d, k, x).cyl = cyl /\ PlaceIn(d, k, x).head = e.head /\ PlaceIn(d, k, x).sector = r
    BY <1>6
  <2>5. IsPath(PathTo(d, k, x)) /\ TrackIn(d, k, x) = t
    BY <1>6
  <2> QED
    BY <1>2, <1>4, <1>11, <2>1, <2>2, <2>3, <2>4, <2>5, Zenon DEF Placed
<1>9. Neighboured(d, k, x)
  <2> SUFFICES ASSUME NEW s \in 0 .. t.high
               PROVE  LET b == x - r + s
                      IN  /\ b \in 0 .. SizeOf(d, k) - 1 /\ IsPath(PathTo(d, k, b))
                          /\ PlaceIn(d, k, b) = place(s) /\ TrackIn(d, k, b) = t
    <3>1. PlaceIn(d, k, x).sector = r /\ \A s1 : [PlaceIn(d, k, x) EXCEPT !.sector = s1] = place(s1)
      BY <1>6
    <3>2. TrackIn(d, k, x) = t
      BY <1>6
    <3> QED
      BY <3>1, <3>2, Zenon DEF Neighboured
  <2>1. s \in 0 .. e.len - 1 /\ s \in Int
    BY <1>2
  <2>2. x - r + s = e.lbn + q * e.len + s
    <3> DEFINE y == q * e.len
    <3> HIDE DEF y
    <3>1. y \in Int /\ x = e.lbn + y + r
      BY <1>6, <1>7 DEF y
    <3>2. x - r + s = e.lbn + y + s
      BY <1>1, <1>5, <2>1, <3>1, MovedBy
    <3> QED
      BY <3>2 DEF y
  <2> QED
    BY <1>3, <2>1, <2>2
<1>10. FoundBack(d, k, x)
  <2> SUFFICES ASSUME NEW p, NEW max \in Int, p.head = e.head, p.sector = r
               PROVE  LET back == PbnPaths(d, p)[<<k, cyl, max>>]
                      IN  IF x <= max THEN IsPath(back) /\ AddressOf(back, p) = x /\ TrackOf(back) = t
                          ELSE back = <<>>
    <3>1. place(r).head = e.head /\ place(r).sector = r /\ place(r).cyl = cyl
      OBVIOUS
    <3> HIDE DEF place
    <3> QED
      BY <1>6, <3>1, Zenon DEF FoundBack
  <2> DEFINE node == IdxNode(e, q, 0)
             m == HighestIn(e, q, max)
             leaf == TrackNode(t, r)
  <2>1. /\ node \in InnerNode
        /\ PbnPaths(d, p)[<<k, e.cyl + Towards(e, q) * e.cyllen + 0, max>>]
             = Extend(node, PbnDown(d, p, e, 0, m))
    <3>1. 0 \in 0 .. e.cyllen - 1
      BY <1>1
    <3> QED
      BY <3>1, PbnGoes DEF e
  <2>2. e.cyl + Towards(e, q) * e.cyllen + 0 = cyl
    BY <1>4 DEF cyl
  <2>3. m \in Int /\ (r <= m <=> x <= max)
    <3>1. m \in Int /\ (r <= m <=> e.lbn + q * e.len + r <= max)
      BY <1>1, <1>5, <1>7, HighestCuts, Zenon
    <3> QED
      BY <1>6, <3>1
  <2>4. PbnDown(d, p, e, 0, m) = IF r <= m THEN <<leaf>> ELSE <<>>
    <3>1. r - t.low = r /\ t.low <= r /\ r <= t.high
      BY <1>2, <1>5
    <3> QED
      BY <1>5, <3>1 DEF PbnDown, PbnLeaf, t
  <2>5. leaf \in LeafNode /\ leaf.t = t
    BY <1>1, <1>5 DEF LeafNode, TrackNode
  <2>6. Adds("lbn", node) = e.lbn + q * e.len
    BY DEF Adds, IdxNode
  <2> HIDE DEF node, m, leaf
  <2>7. CASE x <= max
    <3> DEFINE back == Extend(node, <<leaf>>)
    <3>1. /\ IsPath(back) /\ TrackOf(back) = leaf.t
          /\ p.sector \in Int => AddressOf(back, p) = Adds("lbn", node) + p.sector
      BY <2>1, <2>5, EndsShort, Zenon
    <3>2. PbnPaths(d, p)[<<k, cyl, max>>] = back
      BY <2>1, <2>2, <2>3, <2>4, <2>7
    <3> HIDE DEF back
    <3>3. AddressOf(back, p) = x
      BY <1>5, <1>6, <2>6, <3>1
    <3> QED
      BY <2>5, <2>7, <3>1, <3>2, <3>3
  <2>8. CASE ~(x <= max)
    <3>1. PbnPaths(d, p)[<<k, cyl, max>>] = <<>>
      BY <2>1, <2>2, <2>3, <2>4, <2>8 DEF Extend
    <3> QED
      BY <2>8, <3>1
  <2> QED
    BY <2>7, <2>8
<1> QED
  BY <1>8, <1>9, <1>10

\* The path to address b of copy q of a node.
LEMMA NodePlaces ==
  ASSUME NEW d, Tiled(d), NEW k \in DOMAIN d.idx, NEW i \in DOMAIN d.idx[k],
         d.idx[k][i].childtype # "TRACK",
         NEW q \in 0 .. CopiesIn(d.idx[k][i]) - 1, NEW b \in 0 .. d.idx[k][i].len - 1,
         IsPath(PathTo(d, d.idx[k][i].child, b))
  PROVE  LET e == d.idx[k][i]
             x == e.lbn + q * e.len + b
         IN  /\ x \in 0 .. SizeOf(d, k) - 1
             /\ IsPath(PathTo(d, k, x))
             /\ TrackIn(d, k, x) = TrackIn(d, e.child, b)
             /\ PlaceIn(d, k, x)
                  = [PlaceIn(d, e.child, b)
                       EXCEPT !.cyl = (e.cyl + Towards(e, q) * e.cyllen) + PlaceIn(d, e.child, b).cyl]
<1> DEFINE e == d.idx[k][i]
           x == e.lbn + q * e.len + b
           node == IdxNode(e, Towards(e, q), b)
           rest == PathTo(d, e.child, b)
           y == Extend(node, rest)
<1>1. /\ x \in 0 .. SizeOf(d, k) - 1 /\ node \in InnerNode
      /\ LbnPaths(d)[<<k, x>>] = Extend(node, LbnDown(d, e, b))
  BY LbnGoes
<1>2. LbnDown(d, e, b) = rest
  BY DEF LbnDown, PathTo
<1>3. Adds("cyl", node) = e.cyl + Towards(e, q) * e.cyllen
  BY DEF Adds, IdxNode
<1>4. IsPath(rest)
  OBVIOUS
<1> HIDE DEF e, x, node, rest
<1>5. /\ IsPath(y) /\ TrackOf(y) = TrackOf(rest)
      /\ PlaceOf(y) = [PlaceOf(rest) EXCEPT !.cyl = Adds("cyl", node) + PlaceOf(rest).cyl]
  BY <1>1, <1>4, EndsBelow
<1>6. PathTo(d, k, x) = y
  BY <1>1, <1>2 DEF PathTo
<1> HIDE DEF y
<1>7. /\ IsPath(PathTo(d, k, x)) /\ TrackIn(d, k, x) = TrackOf(rest)
      /\ PlaceIn(d, k, x)
           = [PlaceOf(rest) EXCEPT !.cyl = (e.cyl + Towards(e, q) * e.cyllen) + PlaceOf(rest).cyl]
  BY <1>3, <1>5, <1>6 DEF TrackIn, PlaceIn
<1> QED
  BY <1>1, <1>7 DEF x, e, rest, TrackIn, PlaceIn

LEMMA ServesBelow ==
  ASSUME NEW d, Tiled(d), NEW k \in DOMAIN d.idx, NEW i \in DOMAIN d.idx[k],
         d.idx[k][i].childtype # "TRACK", Serves(d, d.idx[k][i].child),
         NEW q \in 0 .. CopiesIn(d.idx[k][i]) - 1, NEW r \in 0 .. d.idx[k][i].len - 1,
         NEW x, x = d.idx[k][i].lbn + q * d.idx[k][i].len + r
  PROVE  Placed(d, k, x) /\ Neighboured(d, k, x) /\ FoundBack(d, k, x)
<1> DEFINE e == d.idx[k][i]
           j == e.child
           cyl == e.cyl + Towards(e, q) * e.cyllen
           t == TrackIn(d, j, r)
           place == PlaceIn(d, j, r)
           raised(w) == [w EXCEPT !.cyl = cyl + w.cyl]
<1>1. /\ e \in IdxEntry /\ e.lbn \in Int /\ e.len \in Nat \ {0} /\ CopiesIn(e) \in Nat \ {0}
      /\ FitsNode(d, e) /\ e.cyllen \in Nat \ {0} /\ e.runlen \in Nat
      /\ e.runlen = CopiesIn(e) * e.len /\ e.cyl \in Int /\ j \in DOMAIN d.idx
  BY TiledEntry
<1>2. e.len = SizeOf(d, j) /\ CylindersUpTo(d, j, e.cyllen - 1)
  BY <1>1 DEF FitsNode
<1>3. q \in Nat /\ q \in 0 .. CopiesIn(e) - 1 /\ r \in 0 .. e.len - 1 /\ r \in Int
  BY <1>1
<1>4. ASSUME NEW b \in 0 .. e.len - 1, IsPath(PathTo(d, j, b))
      PROVE  LET a == e.lbn + q * e.len + b
             IN  /\ a \in 0 .. SizeOf(d, k) - 1
                 /\ IsPath(PathTo(d, k, a))
                 /\ TrackIn(d, k, a) = TrackIn(d, j, b)
                 /\ PlaceIn(d, k, a) = raised(PlaceIn(d, j, b))
  BY <1>4, NodePlaces
<1>5. Placed(d, j, r) /\ Neighboured(d, j, r) /\ FoundBack(d, j, r)
  BY <1>2 DEF Serves
<1>6. /\ IsPath(PathTo(d, j, r)) /\ t \in TracksOf(d) /\ t.high = t.spt - 1 /\ place.cyl \in 0 .. e.cyllen - 1
      /\ place.head \in 0 .. d.heads - 1 /\ place.sector \in 0 .. t.high
  <2>1. PICK n \in DOMAIN d.idx[j] : LowCyl(d.idx[j][n]) <= place.cyl /\ place.cyl <= HighCyl(d.idx[j][n])
    BY <1>5, Zenon DEF Placed
  <2>2. 0 <= LowCyl(d.idx[j][n]) /\ HighCyl(d.idx[j][n]) <= e.cyllen - 1
    BY <1>2 DEF CylindersUpTo
  <2>3. LowCyl(d.idx[j][n]) \in Int /\ HighCyl(d.idx[j][n]) \in Int
    <3>1. d.idx[j][n].cyl \in Int /\ d.idx[j][n].cylrunlen \in Int
      BY <1>1, TiledEntry, Zenon
    <3> DEFINE f == d.idx[j][n]
    <3> HIDE DEF f
    <3>2. f.cyl \in Int /\ f.cylrunlen \in Int
      BY <3>1 DEF f
    <3>3. LowCyl(f) \in Int /\ HighCyl(f) \in Int
      BY <3>2 DEF LowCyl, HighCyl
    <3> QED
      BY <3>3 DEF f
  <2>4. place.cyl \in Int
    BY <1>5 DEF Placed
  <2>5. e.cyllen - 1 \in Int
    BY <1>1
  <2>6. place.cyl \in 0 .. e.cyllen - 1
    <3> HIDE DEF e, place
    <3> QED
      BY <2>1, <2>2, <2>3, <2>4, <2>5
  <2> QED
    BY <1>5, <2>6 DEF Placed
<1>7. cyl \in Int /\ cyl + place.cyl \in Int /\ LowCyl(e) <= cyl + place.cyl /\ cyl + place.cyl <= HighCyl(e)
  <2>1. \A f : Towards(f, q) \in Int
    BY <1>3 DEF Towards
  <2>2. cyl \in Int
    <3>1. Towards(e, q) \in Int
      BY <2>1
    <3> HIDE DEF e
    <3> QED
      BY <1>1, <3>1
  <2>3. /\ cyl + place.cyl \in Int /\ LowCyl(e) <= cyl + place.cyl /\ cyl + place.cyl <= HighCyl(e)
    BY <1>6, CopyFound, Zenon
  <2> QED
    BY <2>2, <2>3
<1>8. IsPath(PathTo(d, k, x)) /\ TrackIn(d, k, x) = t /\ PlaceIn(d, k, x) = raised(place)
  BY <1>4, <1>6, Zenon
<1>9. x = e.lbn + q * e.len + r
  OBVIOUS
<1>10. e.childtype # "TRACK"
  OBVIOUS
<1>11. place = [cyl |-> place.cyl, head |-> place.head, sector |-> place.sector]
  BY DEF PlaceIn, PlaceOf
<1> HIDE DEF e, cyl, t, place, j
<1>12. /\ PlaceIn(d, k, x).cyl = cyl + place.cyl /\ PlaceIn(d, k, x).head = place.head
       /\ PlaceIn(d, k, x).sector = place.sector
  BY <1>8, <1>11
<1>13. q * e.len \in Int /\ q * e.len + r < e.runlen
  <2>1. /\ q * e.len \in Nat
        /\ q * e.len + r < (q + 1) * e.len
        /\ (q + 1) * e.len <= CopiesIn(e) * e.len
    BY <1>1, <1>3, CopyInside
  <2>2. (q + 1) * e.len \in Int
    BY <1>1, <1>3
  <2> QED
    BY <1>1, <1>3, <2>1, <2>2
<1>14. Placed(d, k, x)
  <2>1. \E n \in DOMAIN d.idx[k] : /\ LowCyl(d.idx[k][n]) <= cyl + place.cyl
                                  /\ cyl + place.cyl <= HighCyl(d.idx[k][n])
    BY <1>7 DEF e
  <2>2. IsPath(PathTo(d, k, x)) /\ TrackIn(d, k, x) = t
    BY <1>8
  <2> QED
    BY <1>6, <1>7, <1>12, <2>1, <2>2, Zenon DEF Placed
<1>15. Neighboured(d, k, x)
  <2> SUFFICES ASSUME NEW s \in 0 .. t.high
               PROVE  LET b == x - place.sector + s
                      IN  /\ b \in 0 .. SizeOf(d, k) - 1 /\ IsPath(PathTo(d, k, b))
                          /\ PlaceIn(d, k, b) = [PlaceIn(d, k, x) EXCEPT !.sector = s]
                          /\ TrackIn(d, k, b) = t
    <3>1. TrackIn(d, k, x) = t
      BY <1>8
    <3> QED
      BY <1>12, <3>1, Zenon DEF Neighboured
  <2> DEFINE a == r - place.sector + s
  <2>1. /\ a \in 0 .. e.len - 1 /\ IsPath(PathTo(d, j, a))
        /\ PlaceIn(d, j, a) = [place EXCEPT !.sector = s]
        /\ TrackIn(d, j, a) = t
    BY <1>2, <1>5 DEF Neighboured, t, place
  <2>2. x - place.sector + s = e.lbn + q * e.len + a
    <3> DEFINE y == q * e.len
    <3> HIDE DEF y
    <3>1. y \in Int /\ x = e.lbn + y + r
      BY <1>9, <1>13 DEF y
    <3>2. place.sector \in Int /\ s \in Int
      BY <1>6
    <3>3. x - place.sector + s = e.lbn + y + a
      BY <1>1, <1>3, <3>1, <3>2
    <3> QED
      BY <3>3 DEF y
  <2> HIDE DEF a
  <2>3. /\ e.lbn + q * e.len + a \in 0 .. SizeOf(d, k) - 1
        /\ IsPath(PathTo(d, k, e.lbn + q * e.len + a))
        /\ TrackIn(d, k, e.lbn + q * e.len + a) = TrackIn(d, j, a)
        /\ PlaceIn(d, k, e.lbn + q * e.len + a) = raised(PlaceIn(d, j, a))
    BY <1>4, <2>1, Zenon
  <2>4. raised(PlaceIn(d, j, a)) = [PlaceIn(d, k, x) EXCEPT !.sector = s]
    BY <1>8, <1>11, <2>1, Zenon
  <2> QED
    BY <2>1, <2>2, <2>3, <2>4
<1>16. FoundBack(d, k, x)
  <2> SUFFICES ASSUME NEW p, NEW max \in Int, p.head = place.head, p.sector = place.sector
               PROVE  LET back == PbnPaths(d, p)[<<k, cyl + place.cyl, max>>]
                      IN  IF x <= max THEN IsPath(back) /\ AddressOf(back, p) = x /\ TrackOf(back) = t
                          ELSE back = <<>>
    <3>1. TrackIn(d, k, x) = t
      BY <1>8
    <3> QED
      BY <1>12, <3>1 DEF FoundBack
  <2> DEFINE node == IdxNode(e, q, place.cyl)
             m == HighestIn(e, q, max)
             rest == PbnPaths(d, p)[<<j, place.cyl, m>>]
             back == PbnPaths(d, p)[<<k, cyl + place.cyl, max>>]
  <2>1. node \in InnerNode /\ back = Extend(node, PbnDown(d, p, e, place.cyl, m))
    BY <1>6, <1>10, PbnGoes DEF e, cyl
  <2>2. PbnDown(d, p, e, place.cyl, m) = rest
    BY <1>10 DEF PbnDown, j
  <2>3. m \in Int /\ (r <= m <=> x <= max)
    <3>1. m \in Int /\ (r <= m <=> e.lbn + q * e.len + r <= max)
      BY <1>1, <1>3, <1>13, HighestCuts, Zenon
    <3> QED
      BY <1>9, <3>1
  <2>4. IF r <= m THEN IsPath(rest) /\ AddressOf(rest, p) = r /\ TrackOf(rest) = t ELSE rest = <<>>
    <3> HIDE DEF m
    <3> QED
      BY <1>5, <2>3 DEF FoundBack, t, place
  <2>5. Adds("lbn", node) = e.lbn + q * e.len
    BY DEF Adds, IdxNode
  <2> HIDE DEF node, m, rest, back
  <2>6. CASE x <= max
    <3> DEFINE y == Extend(node, rest)
    <3>1. /\ IsPath(y) /\ TrackOf(y) = TrackOf(rest)
          /\ p.sector \in Int => AddressOf(y, p) = Adds("lbn", node) + AddressOf(rest, p)
      BY <2>1, <2>3, <2>4, <2>6, EndsBelow
    <3>2. back = y
      BY <2>1, <2>2
    <3>3. p.sector \in Int
      BY <1>6
    <3> HIDE DEF y
    <3>4. AddressOf(back, p) = x
      BY <1>9, <2>3, <2>4, <2>5, <2>6, <3>1, <3>2, <3>3
    <3> QED
      BY <2>3, <2>4, <2>6, <3>1, <3>2, <3>4 DEF back
  <2>7. CASE ~(x <= max)
    <3>1. back = <<>>
      BY <2>1, <2>2, <2>3, <2>4, <2>7 DEF Extend
    <3> QED
      BY <2>7, <3>1 DEF back
  <2> QED
    BY <2>6, <2>7
<1> QED
  BY <1>14, <1>15, <1>16

\* Every node of a tiled tree serves, children before the nodes that stand for them.
LEMMA AllServe ==
  ASSUME NEW d, Tiled(d)
  PROVE  \A k \in DOMAIN d.idx : Serves(d, k)
<1> DEFINE N == Len(d.idx)
           T == { n \in Nat : \A k \in DOMAIN d.idx : k <= n => Serves(d, k) }
<1>1. N \in Nat /\ DOMAIN d.idx = 1 .. N
  <2>1. d.idx \in Seq(Seq(IdxEntry))
    BY DEF Tiled, WellFormed
  <2> QED
    BY <2>1
<1> HIDE DEF N
<1>2. 0 \in T
  BY <1>1
<1>3. ASSUME NEW n \in T PROVE n + 1 \in T
  <2> SUFFICES ASSUME NEW k \in DOMAIN d.idx, k <= n + 1, NEW x \in 0 .. SizeOf(d, k) - 1
               PROVE  Placed(d, k, x) /\ Neighboured(d, k, x) /\ FoundBack(d, k, x)
    BY DEF Serves
  <2>1. PICK i \in DOMAIN d.idx[k] :
          LET e == d.idx[k][i]
          IN  \E q \in 0 .. CopiesIn(e) - 1, r \in 0 .. e.len - 1 : x = e.lbn + q * e.len + r
    BY LbnSplits
  <2> DEFINE e == d.idx[k][i]
  <2>2. PICK q \in 0 .. CopiesIn(e) - 1, r \in 0 .. e.len - 1 : x = e.lbn + q * e.len + r
    BY <2>1
  <2>3. CASE e.childtype = "TRACK"
    BY <2>2, <2>3, ServesTrack
  <2>4. CASE e.childtype # "TRACK"
    <3>1. e.child \in DOMAIN d.idx /\ e.child < k
      BY <2>4, TiledEntry
    <3>2. e.child <= n
      <4> HIDE DEF e
      <4> QED
        BY <1>1, <3>1
    <3>3. Serves(d, e.child)
      BY <3>1, <3>2
    <3> QED
      BY <2>2, <2>4, <3>3, ServesBelow
  <2> QED
    BY <2>3, <2>4
<1>4. T = Nat
  <2>1. T \subseteq Nat
    OBVIOUS
  <2> HIDE DEF T
  <2> QED
    BY <1>2, <1>3, <2>1, OneByOne, Zenon
<1>5. N \in T
  BY <1>1, <1>4
<1> QED
  BY <1>1, <1>5

-----------------------------------------------------------------------------
(* Slips in order *)

\* slipcount_bins finds the last slip at or before an address.
LEMMA BinsBracket ==
  ASSUME NEW s, Len(s) \in Nat \ {0}, NEW a \in Int, \A k \in 1 .. Len(s) : s[k].off \in Int,
         s[1].off <= a
  PROVE  LET b == BinsOf(s, a)
         IN  b \in 1 .. Len(s) /\ s[b].off <= a /\ (b = Len(s) \/ a < s[b + 1].off)
<1> DEFINE n == Len(s)
           f == Bins(s, a)
           Around(p) == p[1] < p[2] /\ s[p[1] + 1].off <= a /\ (p[2] = n \/ a < s[p[2] + 1].off)
           Right(r) == r \in 0 .. n - 1 /\ s[r + 1].off <= a /\ (r + 1 = n \/ a < s[r + 2].off)
           Finds(w) == \A p \in Within(n, w) : Around(p) => Right(f[p])
           T == { w \in Nat : Finds(w) }
<1>0. n \in Nat \ {0} /\ \A k \in 1 .. n : s[k].off \in Int
  OBVIOUS
<1>1. \A p \in Intervals(n) : f[p] = Level(s, a, f, p)
  BY BinsLevel
<1> HIDE DEF f, n
<1>2. Finds(0)
  <2> SUFFICES ASSUME NEW p \in Within(n, 0), p[1] < p[2] PROVE FALSE
    OBVIOUS
  <2> QED
    BY <1>0 DEF Within, Intervals
<1>3. ASSUME NEW w \in Nat, Finds(w) PROVE Finds(w + 1)
  <2> SUFFICES ASSUME NEW p \in Within(n, w + 1), Around(p) PROVE Right(f[p])
    OBVIOUS
  <2>1. p \in Intervals(n)
    BY DEF Within
  <2>2. p[1] \in 0 .. n /\ p[2] \in 0 .. n /\ p[1] \in Nat /\ p[2] \in Nat
    BY <1>0, <2>1 DEF Intervals
  <2>3. f[p] = Level(s, a, f, p)
    BY <1>1, <2>1
  <2>4. CASE p[2] \in {p[1], p[1] + 1}
    <3>1. f[p] = p[1] /\ p[2] = p[1] + 1
      BY <2>2, <2>3, <2>4 DEF Level
    <3>2. p[1] + 2 = p[2] + 1 /\ p[1] \in 0 .. n - 1
      BY <1>0, <2>2, <3>1
    <3> QED
      BY <3>1, <3>2, Zenon
  <2>5. CASE p[2] \notin {p[1], p[1] + 1}
    <3> DEFINE m == MidOf(p)
    <3>1. m \in p[1] + 1 .. p[2] - 1 /\ <<p[1], m>> \in Within(n, w) /\ <<m, p[2]>> \in Within(n, w)
      <4>1. w + 1 \in Nat /\ (w + 1) - 1 = w /\ n \in Nat
        BY <1>0
      <4> QED
        BY <2>5, <4>1, LevelNarrows
    <3>2. f[p] = IF s[m + 1].off > a THEN f[<<p[1], m>>] ELSE f[<<m, p[2]>>]
      BY <2>3, <2>5 DEF Level
    <3> HIDE DEF m
    <3>3. m \in Nat /\ p[1] < m /\ m < p[2] /\ m + 1 \in 1 .. n
      <4>1. m \in p[1] + 1 .. p[2] - 1
        BY <3>1
      <4> DEFINE b == p[1]
                 c == p[2]
      <4>2. b \in Nat /\ c \in Nat /\ c <= n /\ m \in b + 1 .. c - 1 /\ n \in Nat
        BY <1>0, <2>2, <4>1
      <4> HIDE DEF b, c
      <4>3. m \in Nat /\ b < m /\ m < c /\ m + 1 \in 1 .. n
        BY <4>2
      <4> QED
        BY <4>3 DEF b, c
    <3>4. CASE s[m + 1].off > a
      <4> DEFINE z == <<p[1], m>>
      <4>1. z[1] = p[1] /\ z[2] = m
        OBVIOUS
      <4>2. a < s[m + 1].off
        BY <1>0, <3>3, <3>4
      <4> HIDE DEF z
      <4>3. Around(z)
        BY <3>3, <4>1, <4>2
      <4>4. z \in Within(n, w) /\ f[p] = f[z]
        BY <3>1, <3>2, <3>4 DEF z
      <4> HIDE DEF Around, Right
      <4> QED
        BY <1>3, <4>3, <4>4
    <3>5. CASE ~(s[m + 1].off > a)
      <4> DEFINE z == <<m, p[2]>>
      <4>1. z[1] = m /\ z[2] = p[2]
        OBVIOUS
      <4>2. s[m + 1].off <= a
        BY <1>0, <3>3, <3>5
      <4> HIDE DEF z
      <4>3. Around(z)
        BY <3>3, <4>1, <4>2
      <4>4. z \in Within(n, w) /\ f[p] = f[z]
        BY <3>1, <3>2, <3>5 DEF z
      <4> HIDE DEF Around, Right
      <4> QED
        BY <1>3, <4>3, <4>4
    <3> QED
      BY <3>4, <3>5
  <2> QED
    BY <2>4, <2>5
<1>4. T = Nat
  <2> HIDE DEF Finds
  <2>1. T \subseteq Nat /\ 0 \in T /\ \A w \in T : w + 1 \in T
    BY <1>2, <1>3
  <2> HIDE DEF T
  <2> QED
    BY <2>1, OneByOne, Zenon
<1>5. Finds(n)
  <2> HIDE DEF Finds
  <2> QED
    BY <1>0, <1>4
<1> DEFINE all == <<0, n>>
<1>6. all \in Within(n, n) /\ all[1] = 0 /\ all[2] = n
  BY <1>0 DEF Within, Intervals
<1> HIDE DEF all
<1>7. Around(all)
  BY <1>0, <1>6
<1>8. Right(f[all])
  BY <1>5, <1>6, <1>7
<1>9. BinsOf(s, a) = f[all] + 1
  BY DEF BinsOf, f, n, all
<1> DEFINE r == f[all]
<1> HIDE DEF r
<1>10. r \in 0 .. n - 1 /\ s[r + 1].off <= a /\ (r + 1 = n \/ a < s[r + 2].off)
  BY <1>8 DEF r
<1>11. r + 1 \in 1 .. n /\ (r + 1) + 1 = r + 2
  BY <1>0, <1>10
<1> QED
  BY <1>9, <1>10, <1>11, Zenon DEF r, n

\* What the slips before slip k add.
Before(s, k) == IF k = 1 THEN 0 ELSE s[k - 1].count

\* Address a is behind slip k and before the next.
Gap(s, k, a) == k \in 1 .. Len(s) /\ SlipEnd(s, k) <= a /\ (k = Len(s) \/ a < s[k + 1].off)

OrderedSlips(s) == s \in Seq(SlipEntry) /\ s # <<>> /\ SlipsInOrder(s)

\* Offsets, counts, and the LBNs from which the slips count, all grow.
LEMMA SlipsGrow ==
  ASSUME NEW s, OrderedSlips(s)
  PROVE  LET n == Len(s)
         IN  /\ n \in Nat \ {0} /\ s[1].off = 0 /\ s[1].count = 0 /\ SlipEnd(s, 1) = 0
             /\ \A k \in 1 .. n : /\ s[k].off \in Nat /\ s[k].count \in Nat /\ Before(s, k) \in Nat
                                 /\ Before(s, k) <= s[k].count /\ SlipEnd(s, k) \in Int
                                 /\ SlipEnd(s, k) = s[k].off + s[k].count - Before(s, k)
             /\ \A j, k \in 1 .. n : j <= k =>
                  /\ s[j].off <= s[k].off
                  /\ s[j].count <= s[k].count
                  /\ s[j].off - Before(s, j) <= s[k].off - Before(s, k)
<1> DEFINE n == Len(s)
<1>1. n \in Nat \ {0} /\ \A k \in 1 .. n : s[k].off \in Int /\ s[k].count \in Int
  <2>1. s \in Seq(SlipEntry) /\ s # <<>>
    BY DEF OrderedSlips
  <2>2. n \in Nat \ {0} /\ \A k \in 1 .. n : s[k] \in SlipEntry
    BY <2>1
  <2> QED
    BY <2>2 DEF SlipEntry
<1>2. /\ s[1].off = 0 /\ s[1].count = 0
      /\ \A k \in 1 .. n - 1 : s[k].count <= s[k + 1].count /\ SlipEnd(s, k) <= s[k + 1].off
  BY DEF OrderedSlips, SlipsInOrder
<1> HIDE DEF n
<1>3. \A k \in 1 .. n : /\ Before(s, k) \in Int /\ SlipEnd(s, k) \in Int
                       /\ SlipEnd(s, k) = s[k].off + s[k].count - Before(s, k)
  <2> SUFFICES ASSUME NEW k \in 1 .. n
               PROVE  /\ Before(s, k) \in Int /\ SlipEnd(s, k) \in Int
                      /\ SlipEnd(s, k) = s[k].off + s[k].count - Before(s, k)
    OBVIOUS
  <2>1. CASE k = 1
    BY <1>1, <2>1 DEF Before, SlipEnd
  <2>2. CASE k # 1
    <3>1. k - 1 \in 1 .. n
      BY <1>1, <2>2
    <3> QED
      BY <1>1, <2>2, <3>1 DEF Before, SlipEnd
  <2> QED
    BY <2>1, <2>2
<1> DEFINE cnt == [k \in 1 .. n |-> s[k].count]
<1>4. \A j \in 1 .. n, k \in 1 .. n : j <= k => cnt[j] <= cnt[k]
  <2>1. \A k \in 1 .. n : cnt[k] \in Int
    BY <1>1
  <2>2. \A k \in 1 .. n - 1 : cnt[k] <= cnt[k + 1]
    <3> SUFFICES ASSUME NEW k \in 1 .. n - 1 PROVE cnt[k] <= cnt[k + 1]
      OBVIOUS
    <3>1. k \in 1 .. n /\ k + 1 \in 1 .. n
      BY <1>1
    <3> QED
      BY <1>2, <3>1
  <2> HIDE DEF cnt
  <2> QED
    BY <1>1, <2>1, <2>2, Grows
<1>5. \A k \in 1 .. n : s[k].count \in Nat /\ Before(s, k) \in Nat /\ Before(s, k) <= s[k].count
  <2> SUFFICES ASSUME NEW k \in 1 .. n
               PROVE  s[k].count \in Nat /\ Before(s, k) \in Nat /\ Before(s, k) <= s[k].count
    OBVIOUS
  <2>1. 1 \in 1 .. n /\ 1 <= k
    BY <1>1
  <2>2. cnt[1] <= cnt[k]
    BY <1>4, <2>1
  <2>3. s[k].count \in Nat
    BY <1>1, <1>2, <2>1, <2>2
  <2>4. CASE k = 1
    BY <2>3, <2>4 DEF Before
  <2>5. CASE k # 1
    <3>1. k - 1 \in 1 .. n /\ 1 <= k - 1 /\ k - 1 <= k
      BY <1>1, <2>5
    <3>2. cnt[1] <= cnt[k - 1] /\ cnt[k - 1] <= cnt[k]
      BY <1>4, <2>1, <3>1
    <3> QED
      BY <1>1, <1>2, <2>1, <2>3, <2>5, <3>1, <3>2 DEF Before
  <2> QED
    BY <2>4, <2>5
<1> DEFINE off == [k \in 1 .. n |-> s[k].off]
           first == [k \in 1 .. n |-> s[k].off - Before(s, k)]
<1>6. ASSUME NEW k \in 1 .. n - 1
      PROVE  /\ k \in 1 .. n /\ k + 1 \in 1 .. n
             /\ off[k] <= off[k + 1] /\ first[k] <= first[k + 1]
  <2>1. k \in 1 .. n /\ k + 1 \in 1 .. n /\ k + 1 # 1 /\ (k + 1) - 1 = k
    BY <1>1
  <2>2. Before(s, k + 1) = s[k].count
    BY <2>1 DEF Before
  <2>3. s[k].off + s[k].count - Before(s, k) <= s[k + 1].off
    BY <1>2, <1>3, <2>1
  <2>4. /\ s[k].off \in Int /\ s[k].count \in Int /\ Before(s, k) \in Int /\ s[k + 1].off \in Int
        /\ Before(s, k) <= s[k].count
    BY <1>1, <1>5, <2>1
  <2>5. s[k].off <= s[k + 1].off /\ s[k].off - Before(s, k) <= s[k + 1].off - s[k].count
    BY <2>3, <2>4
  <2> QED
    BY <2>1, <2>2, <2>5
<1>7. \A j \in 1 .. n, k \in 1 .. n : j <= k => off[j] <= off[k]
  <2>1. \A k \in 1 .. n : off[k] \in Int
    BY <1>1
  <2> HIDE DEF off, first
  <2> QED
    BY <1>1, <1>6, <2>1, Grows, Zenon
<1>8. \A j \in 1 .. n, k \in 1 .. n : j <= k => first[j] <= first[k]
  <2>1. \A k \in 1 .. n : first[k] \in Int
    BY <1>1, <1>3
  <2> HIDE DEF off, first
  <2> QED
    BY <1>1, <1>6, <2>1, Grows, Zenon
<1>9. \A k \in 1 .. n : s[k].off \in Nat
  <2> SUFFICES ASSUME NEW k \in 1 .. n PROVE s[k].off \in Nat
    OBVIOUS
  <2>1. 1 \in 1 .. n /\ 1 <= k
    BY <1>1
  <2>2. off[1] <= off[k]
    BY <1>7, <2>1
  <2> QED
    BY <1>1, <1>2, <2>1, <2>2
<1>10. \A j \in 1 .. n, k \in 1 .. n : j <= k => /\ s[j].off <= s[k].off
                                          /\ s[j].count <= s[k].count
                                          /\ s[j].off - Before(s, j) <= s[k].off - Before(s, k)
  BY <1>4, <1>7, <1>8
<1>11. SlipEnd(s, 1) = 0
  BY <1>2 DEF SlipEnd
<1> QED
  BY <1>1, <1>2, <1>3, <1>5, <1>9, <1>10, <1>11 DEF n

\* LBN l is what slip k has behind it, up to the next.
InGap(s, k, l) ==
  /\ k \in 1 .. Len(s)
  /\ s[k].off - Before(s, k) <= l
  /\ k = Len(s) \/ l < s[k + 1].off - Before(s, k + 1)

LEMMA GapIs ==
  ASSUME NEW s, OrderedSlips(s), NEW k \in 1 .. Len(s), NEW l \in Int
  PROVE  Gap(s, k, l + s[k].count) <=> InGap(s, k, l)
<1>1. /\ Len(s) \in Nat \ {0} /\ s[k].off \in Nat /\ s[k].count \in Nat /\ Before(s, k) \in Nat
      /\ SlipEnd(s, k) = s[k].off + s[k].count - Before(s, k)
  BY SlipsGrow
<1>2. SlipEnd(s, k) <= l + s[k].count <=> s[k].off - Before(s, k) <= l
  <2> DEFINE x == s[k].off
             y == s[k].count
             z == Before(s, k)
  <2>1. x \in Nat /\ y \in Nat /\ z \in Nat /\ SlipEnd(s, k) = x + y - z
    BY <1>1
  <2> HIDE DEF x, y, z
  <2>2. x + y - z <= l + y <=> x - z <= l
    BY <2>1
  <2> QED
    BY <2>1, <2>2 DEF x, y, z
<1>3. CASE k = Len(s)
  BY <1>2, <1>3 DEF Gap, InGap
<1>4. CASE k # Len(s)
  <2>1. k + 1 \in 1 .. Len(s) /\ k + 1 # 1 /\ (k + 1) - 1 = k
    BY <1>1, <1>4
  <2>2. Before(s, k + 1) = s[k].count /\ s[k + 1].off \in Nat
    BY <2>1, SlipsGrow DEF Before
  <2>3. l + s[k].count < s[k + 1].off <=> l < s[k + 1].off - Before(s, k + 1)
    BY <1>1, <2>2
  <2> QED
    BY <1>2, <1>4, <2>3 DEF Gap, InGap
<1> QED
  BY <1>3, <1>4

\* Later LBNs are behind later slips.
LEMMA GapsFollow ==
  ASSUME NEW s, OrderedSlips(s), NEW j, NEW k, NEW l \in Int, NEW m \in Int, l <= m,
         InGap(s, j, l), InGap(s, k, m)
  PROVE  j <= k
<1>1. Len(s) \in Nat \ {0} /\ j \in 1 .. Len(s) /\ k \in 1 .. Len(s)
  BY SlipsGrow DEF InGap
<1> SUFFICES ASSUME k < j PROVE FALSE
  BY <1>1
<1>2. k + 1 \in 1 .. Len(s) /\ k + 1 <= j /\ k # Len(s)
  BY <1>1
<1>3. m < s[k + 1].off - Before(s, k + 1) /\ s[j].off - Before(s, j) <= l
  BY <1>2 DEF InGap
<1>4. s[k + 1].off - Before(s, k + 1) <= s[j].off - Before(s, j)
  BY <1>1, <1>2, SlipsGrow, Zenon
<1>5. /\ s[k + 1].off \in Nat /\ Before(s, k + 1) \in Nat
      /\ s[j].off \in Nat /\ Before(s, j) \in Nat
  BY <1>1, <1>2, SlipsGrow, Zenon
<1> QED
  BY <1>3, <1>4, <1>5

LEMMA OneGap ==
  ASSUME NEW s, OrderedSlips(s), NEW j, NEW k, NEW l \in Int, InGap(s, j, l), InGap(s, k, l)
  PROVE  j = k
<1>1. Len(s) \in Nat /\ j \in 1 .. Len(s) /\ k \in 1 .. Len(s)
  BY SlipsGrow DEF InGap
<1>2. j <= k /\ k <= j
  BY GapsFollow
<1> QED
  BY <1>1, <1>2

\* slipcount counts the slips before an LBN.
LEMMA SlipcountIs ==
  ASSUME NEW s, OrderedSlips(s), NEW l \in Nat
  PROVE  \E k : InGap(s, k, l) /\ slipcount(s, l) = s[k].count
<1> DEFINE first == BinsOf(s, l)
           n == Len(s)
<1>1. n \in Nat \ {0} /\ \A k \in 1 .. n : s[k].off \in Nat /\ s[k].count \in Nat /\ Before(s, k) \in Nat
  BY SlipsGrow
<1>2. first \in 1 .. n /\ s[first].off <= l
  <2>1. s[1].off <= l
    BY SlipsGrow
  <2>2. \A k \in 1 .. Len(s) : s[k].off \in Int
    BY <1>1
  <2> QED
    BY <1>1, <2>1, <2>2, BinsBracket
<1> HIDE DEF first
<1> DEFINE moved(k) == IF k = first THEN l ELSE l + s[k - 1].count
           Past(k) == k > n \/ s[k].off > moved(k)
           T == { k \in first .. n + 1 : Past(k) }
           stop == StopsAt(s, l, first)
<1>3. stop \in first .. n + 1 /\ Past(stop) /\ \A j \in first .. stop - 1 : ~Past(j)
  <2>1. n + 1 \in T
    BY <1>1, <1>2
  <2>2. T \subseteq Nat
    BY <1>2
  <2>3. stop = CHOOSE k \in first .. n + 1 : Past(k) /\ \A j \in first .. k - 1 : ~Past(j)
    BY DEF StopsAt, Past
  <2> HIDE DEF Past, n
  <2>4. PICK m \in T : \A k \in T : m <= k
    <3> HIDE DEF T
    <3> QED
      BY <2>1, <2>2, LeastOf, Zenon
  <2>5. m \in first .. n + 1 /\ Past(m)
    BY <2>4 DEF T
  <2>6. \A k \in first .. m - 1 : ~Past(k)
    <3> SUFFICES ASSUME NEW k \in first .. m - 1, Past(k) PROVE FALSE
      OBVIOUS
    <3>1. k \in first .. n + 1 /\ k < m
      BY <1>1, <1>2, <2>5
    <3>2. k \in T
      BY <3>1 DEF T
    <3> QED
      BY <1>2, <2>4, <2>5, <3>1, <3>2
  <2>7. \E k \in first .. n + 1 : Past(k) /\ \A j \in first .. k - 1 : ~Past(j)
    BY <2>5, <2>6
  <2> HIDE DEF stop
  <2> QED
    BY <2>3, <2>7
<1>4. ~Past(first)
  BY <1>1, <1>2
<1> DEFINE k == stop - 1
<1>5. stop # first /\ slipcount(s, l) = s[k].count
  <2>1. stop # first
    <3> HIDE DEF Past, stop
    <3> QED
      BY <1>3, <1>4
  <2>2. slipcount(s, l) = CountWalked(s, first, stop)
    BY DEF slipcount, WalkFrom, first
  <2> QED
    BY <2>1, <2>2 DEF CountWalked
<1> HIDE DEF stop
<1>6. k \in first .. n /\ k \in 1 .. n /\ k + 1 = stop
  BY <1>1, <1>2, <1>3, <1>5
<1>7. ~Past(k)
  <2> HIDE DEF Past
  <2>1. k \in first .. stop - 1
    BY <1>2, <1>6
  <2> QED
    BY <1>3, <2>1
<1>8. s[k].off - Before(s, k) <= l
  <2>1. s[k].off <= moved(k)
    <3>1. moved(k) \in Int
      <4>1. k = first \/ k - 1 \in 1 .. n
        BY <1>1, <1>2, <1>6
      <4> QED
        BY <1>1, <4>1
    <3>2. ~(k > n) /\ s[k].off \in Nat
      BY <1>1, <1>6
    <3> HIDE DEF moved, k
    <3> QED
      BY <1>7, <3>1, <3>2
  <2>2. CASE k = first
    BY <1>1, <1>6, <2>1, <2>2
  <2>3. CASE k # first
    <3>1. k # 1
      BY <1>2, <1>6, <2>3
    <3>2. Before(s, k) = s[k - 1].count /\ moved(k) = l + s[k - 1].count
      BY <2>3, <3>1 DEF Before
    <3> QED
      BY <1>1, <1>6, <2>1, <3>2
  <2> QED
    BY <2>2, <2>3
<1>9. k = n \/ l < s[k + 1].off - Before(s, k + 1)
  <2> SUFFICES ASSUME k # n PROVE l < s[k + 1].off - Before(s, k + 1)
    OBVIOUS
  <2>1. k + 1 \in 1 .. n /\ k + 1 # 1 /\ (k + 1) - 1 = k /\ k + 1 # first
    BY <1>1, <1>2, <1>6
  <2>2. Before(s, k + 1) = s[k].count /\ moved(k + 1) = l + s[k].count
    BY <2>1 DEF Before
  <2>3. s[k + 1].off > l + s[k].count
    BY <1>1, <1>3, <1>6, <2>1, <2>2
  <2>4. s[k + 1].off \in Nat /\ s[k].count \in Nat
    BY <1>1, <1>6, <2>1
  <2> QED
    BY <2>2, <2>3, <2>4
<1> HIDE DEF k
<1>10. InGap(s, k, l)
  BY <1>6, <1>8, <1>9 DEF InGap
<1> QED
  BY <1>5, <1>10

\* slipcount_rev gives that count back behind the slips, and -1 on one of them.
LEMMA SlipcountRevIs ==
  ASSUME NEW s, OrderedSlips(s), NEW a \in Nat
  PROVE  \E k \in 1 .. Len(s) :
           /\ s[k].off <= a /\ (k = Len(s) \/ a < s[k + 1].off)
           /\ slipcount_rev(s, a) = IF Gap(s, k, a) THEN s[k].count ELSE -1
<1> DEFINE k == BinsOf(s, a)
           n == Len(s)
<1>1. n \in Nat \ {0} /\ \A j \in 1 .. n : s[j].off \in Nat /\ s[j].count \in Nat
  BY SlipsGrow
<1>2. k \in 1 .. n /\ s[k].off <= a /\ (k = n \/ a < s[k + 1].off)
  <2>1. s[1].off <= a
    BY SlipsGrow
  <2>2. \A j \in 1 .. Len(s) : s[j].off \in Int
    BY <1>1
  <2> QED
    BY <1>1, <2>1, <2>2, BinsBracket
<1> HIDE DEF n
<1>3. slipcount_rev(s, a) = CountOrSlipped(s, a, k)
  BY DEF slipcount_rev
<1> HIDE DEF k
<1>4. Gap(s, k, a) <=> SlipEnd(s, k) <= a
  BY <1>2 DEF Gap, n
<1>5. CASE k = 1
  <2>1. SlipEnd(s, k) = 0
    BY <1>5, SlipsGrow
  <2> QED
    BY <1>2, <1>3, <1>4, <1>5, <2>1 DEF CountOrSlipped, n
<1>6. CASE k # 1
  <2>1. k > 1 /\ k - 1 \in 1 .. n
    BY <1>1, <1>2, <1>6
  <2>2. s[k].off \in Nat /\ s[k].count \in Nat /\ s[k - 1].count \in Nat
    BY <1>1, <1>2, <2>1
  <2>3. SlipEnd(s, k) = s[k].off + s[k].count - s[k - 1].count
    BY <1>6 DEF SlipEnd
  <2>4. Gap(s, k, a) <=> ~(a < s[k].off + (s[k].count - s[k - 1].count))
    BY <1>4, <2>2, <2>3
  <2>5. slipcount_rev(s, a) = IF Gap(s, k, a) THEN s[k].count ELSE -1
    BY <1>2, <1>3, <2>1, <2>4 DEF CountOrSlipped
  <2> QED
    BY <1>2, <2>5 DEF n
<1> QED
  BY <1>5, <1>6

\* The two searches take back what the other adds.
LEMMA RevUndoes ==
  ASSUME NEW s, OrderedSlips(s), NEW l \in Nat
  PROVE  /\ slipcount(s, l) \in Nat
         /\ slipcount_rev(s, l + slipcount(s, l)) = slipcount(s, l)
<1>1. PICK k : InGap(s, k, l) /\ slipcount(s, l) = s[k].count
  BY SlipcountIs
<1> DEFINE a == l + s[k].count
<1>2. k \in 1 .. Len(s) /\ Len(s) \in Nat /\ s[k].count \in Nat /\ a \in Nat
  <2>1. k \in 1 .. Len(s)
    BY <1>1 DEF InGap
  <2> QED
    BY <2>1, SlipsGrow
<1>3. Gap(s, k, a)
  BY <1>1, <1>2, GapIs
<1> HIDE DEF a
<1>4. PICK j \in 1 .. Len(s) :
        /\ s[j].off <= a /\ (j = Len(s) \/ a < s[j + 1].off)
        /\ slipcount_rev(s, a) = IF Gap(s, j, a) THEN s[j].count ELSE -1
  BY <1>2, SlipcountRevIs, Zenon
<1>5. s[k].off <= a /\ (k = Len(s) \/ a < s[k + 1].off)
  <2>1. /\ s[k].off \in Nat /\ Before(s, k) \in Nat /\ Before(s, k) <= s[k].count
        /\ SlipEnd(s, k) = s[k].off + s[k].count - Before(s, k)
    BY <1>2, SlipsGrow
  <2>2. s[k].off <= SlipEnd(s, k) /\ SlipEnd(s, k) \in Int
    <3> DEFINE x == s[k].off
               y == s[k].count
               z == Before(s, k)
    <3>1. x \in Nat /\ y \in Nat /\ z \in Nat /\ z <= y
      BY <1>2, <2>1
    <3> HIDE DEF x, y, z
    <3>2. x <= x + y - z /\ x + y - z \in Int
      BY <3>1
    <3> QED
      BY <2>1, <3>2 DEF x, y, z
  <2>3. SlipEnd(s, k) <= a /\ (k = Len(s) \/ a < s[k + 1].off)
    BY <1>3 DEF Gap
  <2> QED
    BY <1>2, <2>1, <2>2, <2>3
<1>6. \A x \in 1 .. Len(s), y \in 1 .. Len(s) : x < y /\ s[y].off <= a => ~(x = Len(s) \/ a < s[x + 1].off)
  <2> SUFFICES ASSUME NEW x \in 1 .. Len(s), NEW y \in 1 .. Len(s), x < y, s[y].off <= a,
                      x = Len(s) \/ a < s[x + 1].off
               PROVE  FALSE
    OBVIOUS
  <2>1. x + 1 \in 1 .. Len(s) /\ x + 1 <= y /\ x # Len(s)
    BY <1>2
  <2>2. s[x + 1].off <= s[y].off /\ s[x + 1].off \in Nat /\ s[y].off \in Nat
    BY <2>1, SlipsGrow, Zenon
  <2> QED
    BY <1>2, <2>1, <2>2
<1>7. j = k
  <2>1. ~(j < k) /\ ~(k < j)
    BY <1>2, <1>4, <1>5, <1>6, Zenon
  <2> QED
    BY <1>2, <2>1
<1> QED
  BY <1>1, <1>2, <1>3, <1>4, <1>7 DEF a

LEMMA CountUndoes ==
  ASSUME NEW s, OrderedSlips(s), NEW a \in Nat, slipcount_rev(s, a) # -1
  PROVE  LET l == a - slipcount_rev(s, a)
         IN  l \in Nat /\ slipcount(s, l) = slipcount_rev(s, a)
<1>1. PICK k \in 1 .. Len(s) : slipcount_rev(s, a) = IF Gap(s, k, a) THEN s[k].count ELSE -1
  BY SlipcountRevIs
<1>2. Gap(s, k, a) /\ slipcount_rev(s, a) = s[k].count
  BY <1>1
<1> DEFINE l == a - s[k].count
<1>3. 1 \in 1 .. Len(s) /\ 1 <= k /\ s[k].count \in Nat /\ l \in Int /\ a = l + s[k].count
  <2>1. Len(s) \in Nat \ {0} /\ s[k].count \in Nat
    BY SlipsGrow
  <2> QED
    BY <2>1
<1> HIDE DEF l
<1>4. InGap(s, k, l)
  BY <1>2, <1>3, GapIs
<1>5. l \in Nat
  <2>1. s[1].off - Before(s, 1) <= s[k].off - Before(s, k) /\ s[1].off - Before(s, 1) = 0
    BY <1>3, SlipsGrow DEF Before
  <2>2. s[k].off - Before(s, k) <= l
    BY <1>4 DEF InGap
  <2>3. s[k].off \in Nat /\ Before(s, k) \in Nat
    BY SlipsGrow
  <2> QED
    BY <1>3, <2>1, <2>2, <2>3
<1>6. PICK j : InGap(s, j, l) /\ slipcount(s, l) = s[j].count
  BY <1>5, SlipcountIs
<1>7. j = k
  BY <1>3, <1>4, <1>6, OneGap
<1> QED
  BY <1>2, <1>5, <1>6, <1>7 DEF l

\* No slip puts a later LBN before an earlier one, nor less far from it.
LEMMA ShiftsGrow ==
  ASSUME NEW s, OrderedSlips(s), NEW l \in Nat, NEW m \in Nat, l <= m
  PROVE  slipcount(s, l) <= slipcount(s, m)
<1>1. PICK j : InGap(s, j, l) /\ slipcount(s, l) = s[j].count
  BY SlipcountIs
<1>2. PICK k : InGap(s, k, m) /\ slipcount(s, m) = s[k].count
  BY SlipcountIs
<1>3. j <= k
  BY <1>1, <1>2, GapsFollow
<1>4. j \in 1 .. Len(s) /\ k \in 1 .. Len(s)
  BY <1>1, <1>2 DEF InGap
<1> QED
  BY <1>1, <1>2, <1>3, <1>4, SlipsGrow

-----------------------------------------------------------------------------
(* Tiled disks *)

\* The sector of layout address x, and its track.
Home(d, x)   == PlaceIn(d, Len(d.idx), x)
TrackOn(d, x) == TrackIn(d, Len(d.idx), x)

AllAddresses(d) == 0 .. SizeOf(d, Len(d.idx)) - 1

LEMMA RootAddsNothing ==
  ASSUME NEW d, Tiled(d)
  PROVE  /\ RootNode(d) \in InnerNode /\ Len(d.idx) \in DOMAIN d.idx
         /\ Adds("cyl", RootNode(d)) = 0 /\ Adds("lbn", RootNode(d)) = 0
<1>1. WellFormed(d)
  BY DEF Tiled
<1>2. RootNode(d) \in InnerNode /\ Len(d.idx) \in DOMAIN d.idx
  BY <1>1, RootNodeType
<1> DEFINE e == d.idx[Len(d.idx)][1]
<1>3. e.cyl = 0 /\ e.lbn = 0
  BY <1>2 DEF Tiled, TiledNode, Root
<1>4. RootNode(d).e = e /\ RootNode(d).quot = 0
  BY DEF RootNode, IdxNode
<1>5. e.len \in Int /\ e.cyllen \in Int
  BY <1>2, <1>4 DEF InnerNode, IdxEntry
<1> HIDE DEF e
<1>6. 0 * e.len = 0 /\ 0 * e.cyllen = 0
  BY <1>5
<1> QED
  BY <1>2, <1>3, <1>4, <1>6 DEF Adds

\* ltop's path ends with the sector of the address.
LEMMA LbnPathEnds ==
  ASSUME NEW d, Tiled(d), NEW x \in AllAddresses(d)
  PROVE  /\ IsPath(LbnPath(d, x))
         /\ PlaceOf(LbnPath(d, x)) = Home(d, x)
         /\ TrackOf(LbnPath(d, x)) = TrackOn(d, x)
<1> DEFINE rest == PathTo(d, Len(d.idx), x)
           root == RootNode(d)
           path == Extend(root, rest)
<1>1. LbnPath(d, x) = path
  BY DEF LbnPath, FromRoot, RootNode, PathTo
<1>2. root \in InnerNode /\ Adds("cyl", root) = 0
  BY RootAddsNothing
<1>3. IsPath(rest)
  BY RootAddsNothing, AllServe DEF Serves, Placed, AllAddresses
<1>4. Home(d, x) = PlaceOf(rest) /\ TrackOn(d, x) = TrackOf(rest)
  BY DEF Home, TrackOn, PlaceIn, TrackIn
<1> HIDE DEF rest, root
<1>5. /\ IsPath(path) /\ TrackOf(path) = TrackOf(rest)
      /\ PlaceOf(path) = [PlaceOf(rest) EXCEPT !.cyl = 0 + PlaceOf(rest).cyl]
  BY <1>2, <1>3, EndsBelow
<1>6. PICK c, h, y : c \in Int /\ PlaceOf(rest) = [cyl |-> c, head |-> h, sector |-> y]
  <2>1. Terms("cyl", rest) \in Seq(Int)
    BY <1>3, TermsAre
  <2>2. Total(Terms("cyl", rest)) \in Int
    BY <2>1, TotalType
  <2> DEFINE c == Total(Terms("cyl", rest))
             h == rest[Len(rest) - 1].e.head
             y == TrackOf(rest).low + rest[Len(rest) - 1].resid
  <2>3. PlaceOf(rest) = [cyl |-> c, head |-> h, sector |-> y]
    BY <1>3, EndsOf
  <2> HIDE DEF c, h, y
  <2>4. c \in Int
    BY <2>2 DEF c
  <2> QED
    BY <2>3, <2>4, Zenon
<1>7. PlaceOf(path) = PlaceOf(rest)
  <2>1. 0 + c = c
    BY <1>6
  <2>2. [[cyl |-> c, head |-> h, sector |-> y] EXCEPT !.cyl = c] = [cyl |-> c, head |-> h, sector |-> y]
    OBVIOUS
  <2> QED
    BY <1>5, <1>6, <2>1, <2>2
<1> QED
  BY <1>1, <1>4, <1>5, <1>7

\* The sector is one of the disk and of the track, whose other sectors are next to it.
LEMMA HomeIs ==
  ASSUME NEW d, Tiled(d), NEW x \in AllAddresses(d)
  PROVE  LET p == Home(d, x)
             t == TrackOn(d, x)
         IN  /\ t \in TrackPattern /\ t \in TracksOf(d) /\ t.high = t.spt - 1 /\ t.spt \in 2 .. Circle /\ t.spt \in Nat
             /\ p \in [cyl : Cylinders(d), head : 0 .. d.heads - 1, sector : 0 .. t.spt - 1]
             /\ \A k \in 0 .. t.spt - 1 :
                  LET b == (x - p.sector) + k
                  IN  b \in AllAddresses(d) /\ Home(d, b) = [p EXCEPT !.sector = k] /\ TrackOn(d, b) = t
<1> DEFINE p == Home(d, x)
           t == TrackOn(d, x)
           N == Len(d.idx)
<1>1. Placed(d, N, x) /\ Neighboured(d, N, x)
  BY RootAddsNothing, AllServe DEF Serves, AllAddresses
<1>2. t \in TrackPattern
  <2> DEFINE path == PathTo(d, N, x)
  <2>1. IsPath(path)
    BY <1>1 DEF Placed
  <2>2. path[Len(path)] \in LeafNode
    BY <2>1 DEF IsPath
  <2> QED
    BY <2>2 DEF LeafNode, TrackOn, TrackIn, TrackOf
<1>3. /\ t \in TracksOf(d) /\ t.high = t.spt - 1 /\ p.cyl \in Int /\ p.head \in 0 .. d.heads - 1 /\ p.sector \in 0 .. t.high
      /\ \E i \in DOMAIN d.idx[N] : LowCyl(d.idx[N][i]) <= p.cyl /\ p.cyl <= HighCyl(d.idx[N][i])
  BY <1>1 DEF Placed, Home, TrackOn
<1>4. p = [cyl |-> p.cyl, head |-> p.head, sector |-> p.sector]
  <2>1. IsPath(PathTo(d, N, x))
    BY <1>1 DEF Placed
  <2>2. PICK c, h, y : p = [cyl |-> c, head |-> h, sector |-> y]
    BY <2>1, EndsOf, Zenon DEF Home, PlaceIn
  <2> QED
    BY <2>2
<1>5. \A k \in 0 .. t.high :
        LET b == (x - p.sector) + k
        IN  b \in AllAddresses(d) /\ Home(d, b) = [p EXCEPT !.sector = k] /\ TrackOn(d, b) = t
  BY <1>1, Zenon DEF Neighboured, Home, TrackOn, AllAddresses
<1>6. p.cyl \in Cylinders(d)
  <2>1. CylindersUpTo(d, N, d.cyls) /\ d.cyls \in Nat
    BY DEF Tiled, WellFormed
  <2>2. PICK i \in DOMAIN d.idx[N] : LowCyl(d.idx[N][i]) <= p.cyl /\ p.cyl <= HighCyl(d.idx[N][i])
    BY <1>3
  <2>3. 0 <= LowCyl(d.idx[N][i]) /\ HighCyl(d.idx[N][i]) <= d.cyls
    BY <2>1 DEF CylindersUpTo
  <2>4. d.idx[N][i] \in IdxEntry
    BY RootAddsNothing, TiledEntry
  <2>5. LowCyl(d.idx[N][i]) \in Int /\ HighCyl(d.idx[N][i]) \in Int
    <3> DEFINE e == d.idx[N][i]
    <3>1. e.cyl \in Int /\ e.cylrunlen \in Int
      BY <2>4, Zenon DEF IdxEntry
    <3> HIDE DEF e
    <3>2. LowCyl(e) \in Int /\ HighCyl(e) \in Int
      BY <3>1 DEF LowCyl, HighCyl
    <3> QED
      BY <3>2 DEF e
  <2> HIDE DEF p, N
  <2> QED
    BY <1>3, <2>1, <2>2, <2>3, <2>5 DEF Cylinders
<1> HIDE DEF p, t, N
<1>7. t.spt \in 2 .. Circle /\ t.spt \in Nat
  <2>1. t.spt \in 2 .. Circle
    BY <1>2 DEF TrackPattern
  <2> QED
    BY <2>1, AnglesType
<1>8. p \in [cyl : Cylinders(d), head : 0 .. d.heads - 1, sector : 0 .. t.spt - 1]
  <2>1. p.sector \in 0 .. t.spt - 1
    BY <1>3
  <2> QED
    BY <1>3, <1>4, <1>6, <2>1
<1>9. \A k \in 0 .. t.spt - 1 :
        LET b == (x - p.sector) + k
        IN  b \in AllAddresses(d) /\ Home(d, b) = [p EXCEPT !.sector = k] /\ TrackOn(d, b) = t
  BY <1>3, <1>5
<1> QED
  BY <1>2, <1>3, <1>7, <1>8, <1>9 DEF p, t

\* ptol's path leads from the sector to the address, up to the highest in use.
LEMMA PbnPathEnds ==
  ASSUME NEW d, Tiled(d), NEW x \in AllAddresses(d), NEW p, p.cyl = Home(d, x).cyl,
         p.head = Home(d, x).head, p.sector = Home(d, x).sector
  PROVE  LET path == PbnPath(d, p)
         IN  IF x <= TopAddress(d)
             THEN IsPath(path) /\ AddressOf(path, p) = x /\ TrackOf(path) = TrackOn(d, x)
             ELSE path = <<>>
<1> DEFINE N == Len(d.idx)
           rest == PbnPaths(d, p)[<<N, p.cyl, TopAddress(d)>>]
           root == RootNode(d)
           path == Extend(root, rest)
<1>1. PbnPath(d, p) = path
  BY DEF PbnPath, FromRoot, RootNode
<1>2. root \in InnerNode /\ Adds("lbn", root) = 0
  BY RootAddsNothing
<1>3. TopAddress(d) \in Int
  BY TopAddressType DEF Tiled
<1>4. FoundBack(d, N, x)
  BY RootAddsNothing, AllServe DEF Serves, AllAddresses
<1>5. IF x <= TopAddress(d)
      THEN IsPath(rest) /\ AddressOf(rest, p) = x /\ TrackOf(rest) = TrackOn(d, x)
      ELSE rest = <<>>
  BY <1>3, <1>4 DEF FoundBack, Home, TrackOn
<1>6. p.sector \in Int /\ x \in Int
  <2>1. Home(d, x).sector \in 0 .. TrackOn(d, x).spt - 1 /\ TrackOn(d, x).spt \in Nat
    BY HomeIs
  <2> QED
    BY <2>1 DEF AllAddresses
<1> HIDE DEF rest, root
<1>7. CASE x <= TopAddress(d)
  <2>1. IsPath(path) /\ TrackOf(path) = TrackOf(rest) /\ AddressOf(path, p) = 0 + AddressOf(rest, p)
    BY <1>2, <1>5, <1>6, <1>7, EndsBelow
  <2> QED
    BY <1>1, <1>5, <1>6, <1>7, <2>1
<1>8. CASE ~(x <= TopAddress(d))
  BY <1>1, <1>5, <1>8 DEF Extend
<1> QED
  BY <1>7, <1>8

\* What the maps make of an address and its sector.
LEMMA PtolAt ==
  ASSUME NEW d, Tiled(d), NEW x \in AllAddresses(d), NEW p, p.cyl = Home(d, x).cyl,
         p.head = Home(d, x).head, p.sector = Home(d, x).sector
  PROVE  IF x <= TopAddress(d)
         THEN /\ ptol(d, p) = Unshifted(d, x)
              /\ g4_spt_pbn(d, p) = TrackOn(d, x).spt
              /\ g4_sector_width(d, p, 1) = SectorAngle(TrackOn(d, x).spt)
         ELSE ptol(d, p) = DM_NX
<1>1. ~PbnRemapped(d, p)
  BY NoRemap DEF Tiled
<1> DEFINE path == PbnPath(d, p)
<1>2. IF x <= TopAddress(d)
      THEN IsPath(path) /\ AddressOf(path, p) = x /\ TrackOf(path) = TrackOn(d, x)
      ELSE path = <<>>
  BY PbnPathEnds
<1>3. ptol(d, p) = LbnOf(d, path, p) /\ g4_spt_pbn(d, p) = PathSpt(path)
  BY <1>1 DEF ptol, g4_spt_pbn
<1>4. g4_sector_width(d, p, 1) = IF path = <<>> THEN 0 ELSE SectorAngle(TrackOf(path).spt)
  BY <1>1 DEF g4_sector_width
<1> HIDE DEF path
<1>5. CASE x <= TopAddress(d)
  <2>1. path # <<>>
    BY <1>2, <1>5 DEF IsPath
  <2> QED
    BY <1>2, <1>3, <1>4, <1>5, <2>1 DEF LbnOf, PathSpt
<1>6. CASE ~(x <= TopAddress(d))
  BY <1>2, <1>3, <1>6 DEF LbnOf
<1> QED
  BY <1>5, <1>6

\* The LBN at an address, if it has one.
LEMMA UnshiftedIs ==
  ASSUME NEW d, Tiled(d), NEW x \in Nat
  PROVE  IF Unshifted(d, x) < 0 THEN slipcount_rev(d.slips, x) = -1
         ELSE Unshifted(d, x) \in Nat /\ Shifted(d, Unshifted(d, x)) = x
<1> DEFINE rev == slipcount_rev(d.slips, x)
<1>1. OrderedSlips(d.slips) /\ rev \in Int
  <2>1. OrderedSlips(d.slips)
    BY DEF Tiled, WellFormed, OrderedSlips
  <2>2. x \in Int
    OBVIOUS
  <2> QED
    BY <2>1, <2>2, SlipcountType DEF OrderedSlips
<1>2. Unshifted(d, x) = IF rev = -1 THEN -4 ELSE x - rev
  BY DEF Unshifted, LbnAt, DM_NX
<1>3. rev # -1 => x - rev \in Nat /\ slipcount(d.slips, x - rev) = rev
  BY <1>1, CountUndoes
<1> HIDE DEF rev
<1>4. CASE rev = -1
  BY <1>2, <1>4 DEF rev
<1>5. CASE rev # -1
  <2> DEFINE l == x - rev
  <2>1. l \in Nat /\ l + rev = x /\ slipcount(d.slips, l) = rev
    BY <1>1, <1>3, <1>5
  <2>2. Unshifted(d, x) = l
    BY <1>2, <1>5
  <2> HIDE DEF l
  <2> QED
    BY <2>1, <2>2 DEF Shifted
<1> QED
  BY <1>4, <1>5

\* LBNs have addresses in use, in their order.
LEMMA ShiftedIs ==
  ASSUME NEW d, Tiled(d)
  PROVE  /\ TopAddress(d) \in Nat /\ TopAddress(d) < SizeOf(d, Len(d.idx)) /\ d.sectors \in Nat \ {0}
         /\ \A l \in Nat : Shifted(d, l) \in Nat /\ Unshifted(d, Shifted(d, l)) = l
         /\ \A l \in Nat, m \in Nat : l < m => Shifted(d, m) - Shifted(d, l) >= m - l
         /\ \A l \in Nat : Shifted(d, l) <= TopAddress(d) <=> l < d.sectors
<1>1. OrderedSlips(d.slips) /\ d.sectors \in Nat \ {0}
  BY DEF Tiled, WellFormed, OrderedSlips
<1>2. ASSUME NEW l \in Nat PROVE Shifted(d, l) \in Nat /\ Unshifted(d, Shifted(d, l)) = l
  <2> DEFINE n == slipcount(d.slips, l)
  <2>1. n \in Nat /\ slipcount_rev(d.slips, l + n) = n
    BY <1>1, RevUndoes
  <2>2. Shifted(d, l) = l + n
    BY DEF Shifted
  <2> HIDE DEF n
  <2>3. n # -1 /\ (l + n) - n = l
    BY <2>1
  <2> QED
    BY <2>1, <2>2, <2>3 DEF Unshifted, LbnAt
<1>3. ASSUME NEW l \in Nat, NEW m \in Nat, l < m
      PROVE  Shifted(d, m) - Shifted(d, l) >= m - l
  <2> DEFINE n == slipcount(d.slips, l)
             k == slipcount(d.slips, m)
  <2>1. n \in Nat /\ k \in Nat
    BY <1>1, RevUndoes
  <2>2. n <= k
    BY <1>1, <1>3, ShiftsGrow
  <2>3. Shifted(d, l) = l + n /\ Shifted(d, m) = m + k
    BY DEF Shifted
  <2> HIDE DEF n, k
  <2> QED
    BY <2>1, <2>2, <2>3
<1> DEFINE last == d.sectors - 1
           top == TopAddress(d)
<1>4. last \in Nat /\ d.sectors = last + 1
  BY <1>1
<1>5. top = Shifted(d, last) /\ top < SizeOf(d, Len(d.idx))
  BY DEF Tiled, RoomForLast
<1> HIDE DEF last, top
<1>6. top \in Nat
  BY <1>2, <1>4, <1>5
<1>7. ASSUME NEW l \in Nat PROVE Shifted(d, l) <= top <=> l < d.sectors
  <2> DEFINE y == Shifted(d, l)
  <2>1. y \in Nat
    BY <1>2
  <2>2. CASE l < last
    <3>1. top - y >= last - l
      BY <1>3, <1>4, <1>5, <2>2
    <3> HIDE DEF y
    <3> QED
      BY <1>4, <1>6, <2>1, <2>2, <3>1 DEF y
  <2>3. CASE l = last
    BY <1>4, <1>5, <1>6, <2>3
  <2>4. CASE l > last
    <3>1. y - top >= l - last
      BY <1>3, <1>4, <1>5, <2>4
    <3> HIDE DEF y
    <3> QED
      BY <1>4, <1>6, <2>1, <2>4, <3>1 DEF y
  <2> QED
    BY <1>4, <2>2, <2>3, <2>4
<1> QED
  BY <1>1, <1>2, <1>3, <1>5, <1>6, <1>7 DEF top

\* The sector of an LBN and its track.
LEMMA SectorIs ==
  ASSUME NEW d, Tiled(d), NEW lbn \in 0 .. d.sectors - 1
  PROVE  /\ Shifted(d, lbn) \in AllAddresses(d) /\ Shifted(d, lbn) <= TopAddress(d)
         /\ ltop(d, lbn, Origin).status = DM_OK
         /\ SectorOf(d, lbn) = Home(d, Shifted(d, lbn))
         /\ ptol(d, SectorOf(d, lbn)) = lbn
         /\ g4_spt_pbn(d, SectorOf(d, lbn)) = TrackOn(d, Shifted(d, lbn)).spt
<1> DEFINE x == Shifted(d, lbn)
<1>1. lbn \in Nat /\ lbn < d.sectors /\ 0 <= lbn
  <2>1. d.sectors \in Nat
    BY ShiftedIs, Zenon
  <2> QED
    BY <2>1
<1>2. x \in Nat /\ x <= TopAddress(d) /\ Unshifted(d, x) = lbn
  BY <1>1, ShiftedIs, Zenon
<1>3. x \in AllAddresses(d)
  <2>1. TopAddress(d) \in Nat /\ TopAddress(d) < SizeOf(d, Len(d.idx)) /\ SizeOf(d, Len(d.idx)) \in Nat
    BY ShiftedIs, RootAddsNothing, TiledFollow, Zenon
  <2> QED
    BY <1>2, <2>1 DEF AllAddresses
<1>4. LbnExists(d, lbn) /\ ~LbnRemapped(d, lbn)
  <2>1. DOMAIN d.remaps = {}
    BY DEF Tiled
  <2> QED
    BY <1>1, <2>1 DEF LbnExists, LbnRemapped
<1>5. ltop(d, lbn, Origin) = EndOf(LbnPath(d, x), Origin, slipcount(d.slips, lbn))
  BY <1>4 DEF ltop
<1>6. IsPath(LbnPath(d, x)) /\ PlaceOf(LbnPath(d, x)) = Home(d, x)
  BY <1>3, LbnPathEnds
<1> HIDE DEF x
<1>7. ltop(d, lbn, Origin).status = DM_OK /\ ltop(d, lbn, Origin).pbn = Home(d, x)
  <2>1. LbnPath(d, x) # <<>>
    BY <1>6 DEF IsPath
  <2> QED
    BY <1>5, <1>6, <2>1 DEF EndOf
<1>8. SectorOf(d, lbn) = Home(d, x)
  BY <1>7 DEF SectorOf
<1>9. ptol(d, Home(d, x)) = Unshifted(d, x) /\ g4_spt_pbn(d, Home(d, x)) = TrackOn(d, x).spt
  BY <1>2, <1>3, PtolAt
<1> QED
  BY <1>2, <1>3, <1>7, <1>8, <1>9 DEF x

LEMMA TiledFindsLbns ==
  ASSUME NEW d, Tiled(d)
  PROVE  FindsLbns(d)
<1>1. {d.sectors, d.cyls, d.heads} \subseteq Nat \ {0}
  BY DEF Tiled, WellFormed
<1>2. ASSUME NEW lbn \in 0 .. d.sectors - 1
      PROVE  SectorOf(d, lbn) \in [cyl : Cylinders(d), head : 0 .. d.heads - 1, sector : 0 .. Circle - 1]
  <2> DEFINE x == Shifted(d, lbn)
             p == Home(d, x)
             n == TrackOn(d, x).spt
  <2>1. x \in AllAddresses(d) /\ SectorOf(d, lbn) = p
    BY SectorIs
  <2>2. n \in 2 .. Circle /\ p \in [cyl : Cylinders(d), head : 0 .. d.heads - 1, sector : 0 .. n - 1]
    BY <2>1, HomeIs
  <2> HIDE DEF n, p
  <2>3. 0 .. n - 1 \subseteq 0 .. Circle - 1
    BY <2>2, AnglesType
  <2>4. p \in [cyl : Cylinders(d), head : 0 .. d.heads - 1, sector : 0 .. Circle - 1]
    BY <2>2, <2>3
  <2> QED
    BY <2>1, <2>4
<1> QED
  BY <1>1, <1>2, SectorIs DEF FindsLbns

\* The greatest of some of the numbers below n.
LEMMA GreatestBelow ==
  ASSUME NEW n \in Nat, NEW S, S \subseteq 0 .. n - 1, S # {}
  PROVE  \E m \in S : \A k \in S : k <= m
<1> DEFINE T == { j \in Nat : n - 1 - j \in S }
<1>1. T \subseteq Nat /\ T # {}
  <2>1. PICK k \in S : TRUE
    OBVIOUS
  <2>2. k \in 0 .. n - 1
    BY <2>1
  <2>3. n - 1 - k \in Nat /\ n - 1 - (n - 1 - k) = k
    BY <2>2
  <2>4. n - 1 - k \in T
    BY <2>1, <2>3
  <2> QED
    BY <2>4, Zenon
<1>2. PICK j \in T : \A i \in T : j <= i
  <2> HIDE DEF T
  <2> QED
    BY <1>1, LeastOf, Zenon
<1>3. ASSUME NEW k \in S PROVE k <= n - 1 - j
  <2>1. k \in 0 .. n - 1 /\ j \in Nat
    BY <1>2
  <2>2. n - 1 - k \in Nat /\ n - 1 - (n - 1 - k) = k
    BY <2>1
  <2>3. n - 1 - k \in T
    BY <2>2
  <2>4. j <= n - 1 - k
    BY <1>2, <2>3
  <2> QED
    BY <2>1, <2>4
<1>4. n - 1 - j \in S
  BY <1>2
<1> QED
  BY <1>3, <1>4

\* Two sectors of one track that have LBNs are among the sectors of the track.
LEMMA SameTrack ==
  ASSUME NEW d, Tiled(d), NEW x \in AllAddresses(d), NEW y \in AllAddresses(d),
         x <= TopAddress(d), y <= TopAddress(d), OneTrack(Home(d, x), Home(d, y))
  PROVE  /\ Home(d, y).sector \in 0 .. TrackOn(d, x).spt - 1
         /\ y = (x - Home(d, x).sector) + Home(d, y).sector
<1> DEFINE p == Home(d, x)
           q == Home(d, y)
           n == TrackOn(d, x).spt
           b == (x - p.sector) + q.sector
<1>1. /\ IsPath(PbnPath(d, p)) /\ AddressOf(PbnPath(d, p), p) = x /\ TrackOf(PbnPath(d, p)) = TrackOn(d, x)
      /\ IsPath(PbnPath(d, q)) /\ AddressOf(PbnPath(d, q), q) = y
  BY PbnPathEnds
<1>2. /\ p \in [cyl : Cylinders(d), head : 0 .. d.heads - 1, sector : 0 .. n - 1]
      /\ n \in Nat /\ x \in Int
      /\ \A k \in 0 .. n - 1 :
           (x - p.sector) + k \in AllAddresses(d) /\ Home(d, (x - p.sector) + k) = [p EXCEPT !.sector = k]
  BY HomeIs DEF AllAddresses
<1>3. q \in [cyl : Cylinders(d), head : 0 .. d.heads - 1, sector : 0 .. TrackOn(d, y).spt - 1]
      /\ TrackOn(d, y).spt \in Nat
  BY HomeIs
<1>4. q.cyl = p.cyl /\ q.head = p.head
  BY DEF OneTrack
<1>5. WellFormed(d) /\ p.cyl \in Int /\ p.sector \in Int /\ q.sector \in Int
  <2>1. d.cyls \in Nat
    BY DEF Tiled, WellFormed
  <2> HIDE DEF p, q, n
  <2> QED
    BY <1>2, <1>3, <2>1 DEF Cylinders, Tiled
<1> HIDE DEF p, q, n
<1> DEFINE o == TrackAt(p)
<1>6. o.cyl = p.cyl /\ o.head = p.head /\ o.sector = 0
  BY DEF TrackAt
<1> HIDE DEF o
<1>7. PbnPath(d, p) # <<>> /\ PbnPath(d, q) # <<>>
  BY <1>1 DEF IsPath
<1>8. TrackOf(PbnPath(d, o)).spt = n
  BY <1>1, <1>5, <1>6, <1>7, TrackTurns DEF n
<1>9. q.sector \in 0 .. n - 1
  <2>1. o.cyl = q.cyl /\ o.head = q.head
    BY <1>4, <1>6
  <2>2. TrackOf(PbnPath(d, o)).spt = TrackOf(PbnPath(d, q)).spt
        /\ q.sector \in 0 .. TrackOf(PbnPath(d, q)).spt - 1
    BY <1>4, <1>5, <1>6, <1>7, <2>1, TrackTurns, Zenon
  <2> QED
    BY <1>8, <2>2
<1>10. b \in AllAddresses(d) /\ Home(d, b) = [p EXCEPT !.sector = q.sector]
  BY <1>2, <1>9
<1>11. Home(d, b) = q
  <2>1. q = [cyl |-> q.cyl, head |-> q.head, sector |-> q.sector]
    BY <1>3
  <2>2. [p EXCEPT !.sector = q.sector] = [cyl |-> p.cyl, head |-> p.head, sector |-> q.sector]
    BY <1>2
  <2> QED
    BY <1>4, <1>10, <2>1, <2>2
<1> HIDE DEF b
<1>12. IF b <= TopAddress(d) THEN AddressOf(PbnPath(d, q), q) = b ELSE PbnPath(d, q) = <<>>
  BY <1>10, <1>11, PbnPathEnds
<1> QED
  BY <1>1, <1>7, <1>9, <1>12 DEF b, n, p, q

\* What ptol finds on the sectors of an LBN's track.
LEMMA TrackSectors ==
  ASSUME NEW d, Tiled(d), NEW lbn \in 0 .. d.sectors - 1, NEW k \in 0 .. g4_spt_pbn(d, SectorOf(d, lbn)) - 1
  PROVE  LET p    == SectorOf(d, lbn)
             base == Shifted(d, lbn) - p.sector
             at   == ptol(d, [p EXCEPT !.sector = k])
         IN  IF at >= 0
             THEN base + k <= TopAddress(d) /\ at \in Nat /\ at < d.sectors /\ Shifted(d, at) = base + k
             ELSE \A l \in Nat : Shifted(d, l) = base + k => l >= d.sectors
<1> DEFINE x    == Shifted(d, lbn)
           p    == SectorOf(d, lbn)
           n    == g4_spt_pbn(d, p)
           base == x - p.sector
           At   == ptol(d, [p EXCEPT !.sector = k])
           top  == TopAddress(d)
<1>1. x \in AllAddresses(d) /\ p = Home(d, x) /\ n = TrackOn(d, x).spt
  BY SectorIs
<1>2. base + k \in AllAddresses(d) /\ Home(d, base + k) = [p EXCEPT !.sector = k]
  BY <1>1, HomeIs
<1>3. /\ top \in Nat /\ d.sectors \in Nat \ {0}
      /\ \A l \in Nat : Shifted(d, l) \in Nat /\ Unshifted(d, Shifted(d, l)) = l
      /\ \A l \in Nat : Shifted(d, l) <= top <=> l < d.sectors
  BY ShiftedIs, Zenon
<1>4. AllAddresses(d) \subseteq Nat
  BY DEF AllAddresses
<1> SUFFICES IF At >= 0
             THEN base + k <= top /\ At \in Nat /\ At < d.sectors /\ Shifted(d, At) = base + k
             ELSE \A l \in Nat : Shifted(d, l) = base + k => l >= d.sectors
  OBVIOUS
<1> HIDE DEF x, p, n, base, top
<1> DEFINE y == base + k
           q == [p EXCEPT !.sector = k]
<1>5. y \in AllAddresses(d) /\ Home(d, y) = q /\ y \in Nat
  BY <1>2, <1>4
<1> HIDE DEF y
<1>6. IF y <= top THEN ptol(d, q) = Unshifted(d, y) ELSE ptol(d, q) = -4
  BY <1>5, PtolAt DEF DM_NX, top
<1>7. CASE y <= top
  <2>1. At = Unshifted(d, y)
    BY <1>6, <1>7
  <2>2. CASE Unshifted(d, y) < 0
    <3>1. slipcount_rev(d.slips, y) = -1
      BY <1>5, <2>2, UnshiftedIs
    <3>2. Unshifted(d, y) = -4
      BY <3>1 DEF Unshifted, LbnAt, DM_NX
    <3>3. ASSUME NEW l \in Nat PROVE Shifted(d, l) # y
      <4>1. Unshifted(d, Shifted(d, l)) = l
        BY <1>3
      <4> QED
        BY <3>2, <4>1
    <3> HIDE DEF At
    <3> QED
      BY <2>1, <3>2, <3>3 DEF y
  <2>3. CASE ~(Unshifted(d, y) < 0)
    <3>1. Unshifted(d, y) \in Nat /\ Shifted(d, Unshifted(d, y)) = y
      BY <1>5, <2>3, UnshiftedIs
    <3>2. Unshifted(d, y) < d.sectors
      BY <1>3, <1>7, <3>1
    <3> HIDE DEF At
    <3> QED
      BY <1>7, <2>1, <3>1, <3>2 DEF y
  <2> QED
    BY <2>2, <2>3
<1>8. CASE ~(y <= top)
  <2>1. At = -4
    BY <1>6, <1>8
  <2>2. ASSUME NEW l \in Nat, Shifted(d, l) = y PROVE l >= d.sectors
    BY <1>3, <1>5, <1>8, <2>2
  <2> HIDE DEF At
  <2> QED
    BY <2>1, <2>2 DEF y
<1> QED
  BY <1>7, <1>8

\* The sectors of an LBN's track that have LBNs, and where g4_track_bound ends.
LEMMA TrackEndIs ==
  ASSUME NEW d, Tiled(d), NEW lbn \in 0 .. d.sectors - 1
  PROVE  LET x    == Shifted(d, lbn)
             p    == SectorOf(d, lbn)
             n    == g4_spt_pbn(d, p)
             base == x - p.sector
             end  == TrackEnd(d, p)
         IN  /\ n \in Nat /\ p.sector \in 0 .. n - 1 /\ x \in Nat
             /\ end \in 0 .. d.sectors - 1 /\ lbn <= end
             /\ Shifted(d, end) - base \in 0 .. n - 1
             /\ \A i \in 0 .. d.sectors - 1 : Shifted(d, i) - base \in 0 .. n - 1 => i <= end
<1> DEFINE x    == Shifted(d, lbn)
           p    == SectorOf(d, lbn)
           n    == g4_spt_pbn(d, p)
           base == x - p.sector
           At(k) == ptol(d, [p EXCEPT !.sector = k])
           M    == { k \in 0 .. n - 1 : At(k) >= 0 }
           top  == TopAddress(d)
<1>1. /\ x \in AllAddresses(d) /\ x <= top /\ p = Home(d, x) /\ n = TrackOn(d, x).spt /\ ptol(d, p) = lbn
  BY SectorIs
<1>2. /\ p \in [cyl : Cylinders(d), head : 0 .. d.heads - 1, sector : 0 .. n - 1]
      /\ n \in Nat
      /\ \A k \in 0 .. n - 1 : base + k \in AllAddresses(d) /\ Home(d, base + k) = [p EXCEPT !.sector = k]
  BY <1>1, HomeIs
<1>3. x \in Nat /\ p.sector \in 0 .. n - 1 /\ base \in Int /\ base + p.sector = x
  BY <1>1, <1>2 DEF AllAddresses
<1>4. /\ top \in Nat /\ d.sectors \in Nat \ {0}
      /\ \A l \in Nat : Shifted(d, l) \in Nat /\ Unshifted(d, Shifted(d, l)) = l
      /\ \A l \in Nat, m \in Nat : l < m => Shifted(d, m) - Shifted(d, l) >= m - l
      /\ \A l \in Nat : Shifted(d, l) <= top <=> l < d.sectors
  BY ShiftedIs, Zenon
<1>5. AllAddresses(d) \subseteq Nat
  BY DEF AllAddresses
<1>6. TrackEnd(d, p) = IF M = {} THEN -1
                       ELSE LET e == At(CHOOSE k \in M : \A other \in M : other <= k)
                            IN  IF e >= d.sectors THEN -1 ELSE e
  BY DEF TrackEnd
<1> HIDE DEF x, p, n, base, top
<1>7. ASSUME NEW k \in 0 .. n - 1
      PROVE  IF At(k) >= 0
             THEN base + k <= top /\ At(k) \in Nat /\ At(k) < d.sectors /\ Shifted(d, At(k)) = base + k
             ELSE \A l \in Nat : Shifted(d, l) = base + k => l >= d.sectors
  BY TrackSectors DEF x, p, n, base, top
<1>8. lbn \in Nat /\ lbn < d.sectors
  BY <1>4
<1>9. p.sector \in M
  <2>1. [p EXCEPT !.sector = p.sector] = p
    BY <1>2
  <2>2. At(p.sector) = lbn
    BY <1>1, <2>1
  <2> HIDE DEF At
  <2> QED
    BY <1>3, <1>8, <2>2
<1> DEFINE last == CHOOSE k \in M : \A other \in M : other <= k
<1>10. last \in M /\ \A k \in M : k <= last
  <2>1. M \subseteq 0 .. n - 1
    OBVIOUS
  <2> HIDE DEF M
  <2>2. \E k \in M : \A other \in M : other <= k
    BY <1>2, <1>9, <2>1, GreatestBelow
  <2> QED
    BY <2>2
<1> HIDE DEF last, At
<1>11. last \in 0 .. n - 1 /\ p.sector <= last /\ last \in Nat
  BY <1>2, <1>9, <1>10
<1> DEFINE end == At(last)
<1>12. end \in Nat /\ end < d.sectors /\ Shifted(d, end) = base + last
  BY <1>7, <1>10, <1>11
<1>13. TrackEnd(d, p) = end
  <2>1. M # {}
    BY <1>9
  <2>2. TrackEnd(d, p) = IF end >= d.sectors THEN -1 ELSE end
    BY <1>6, <2>1 DEF last
  <2> HIDE DEF end
  <2> QED
    BY <1>4, <1>12, <2>2
<1>14. \A i \in 0 .. d.sectors - 1 : Shifted(d, i) - base \in 0 .. n - 1 => i <= end
  <2> SUFFICES ASSUME NEW i \in 0 .. d.sectors - 1, Shifted(d, i) - base \in 0 .. n - 1, i > end
               PROVE  FALSE
    BY <1>4, <1>12
  <2> DEFINE k == Shifted(d, i) - base
  <2>1. i \in Nat /\ i < d.sectors
    BY <1>4
  <2>2. Shifted(d, i) \in Nat /\ k \in 0 .. n - 1 /\ k \in Int /\ base + k = Shifted(d, i)
    BY <1>3, <1>4, <2>1
  <2>3. Shifted(d, i) - Shifted(d, end) >= i - end
    BY <1>4, <1>12, <2>1
  <2> HIDE DEF k, end
  <2>4. At(k) >= 0
    BY <1>7, <1>4, <2>1, <2>2
  <2>5. k <= last
    BY <1>10, <2>2, <2>4
  <2> QED
    BY <1>3, <1>11, <1>12, <2>1, <2>2, <2>3, <2>5
<1> HIDE DEF end, M
<1>15. lbn <= end
  <2> SUFFICES ASSUME end < lbn PROVE FALSE
    BY <1>8, <1>12
  <2>1. x - Shifted(d, end) >= lbn - end
    BY <1>4, <1>8, <1>12 DEF x
  <2> QED
    BY <1>3, <1>8, <1>11, <1>12, <2>1
<1>16. Shifted(d, end) - base \in 0 .. n - 1 /\ end \in 0 .. d.sectors - 1
  BY <1>3, <1>4, <1>11, <1>12
<1> QED
  BY <1>2, <1>3, <1>13, <1>14, <1>15, <1>16 DEF x, p, n, base

LEMMA TiledBoundsTracks ==
  ASSUME NEW d, Tiled(d)
  PROVE  BoundsTracks(d)
<1> SUFFICES ASSUME NEW lbn \in 0 .. d.sectors - 1
             PROVE  LET p == SectorOf(d, lbn)
                    IN  /\ TrackEnd(d, p) \in lbn .. d.sectors - 1
                        /\ TrackEnd(d, p) - lbn < g4_spt_pbn(d, p)
                        /\ \A i \in lbn .. d.sectors - 1 :
                             OneTrack(SectorOf(d, i), p) <=> i <= TrackEnd(d, p)
  BY DEF BoundsTracks
<1> DEFINE x    == Shifted(d, lbn)
           p    == SectorOf(d, lbn)
           n    == g4_spt_pbn(d, p)
           base == x - p.sector
           end  == TrackEnd(d, p)
<1>1. /\ n \in Nat /\ p.sector \in 0 .. n - 1 /\ x \in Nat
      /\ end \in 0 .. d.sectors - 1 /\ lbn <= end
      /\ Shifted(d, end) - base \in 0 .. n - 1
      /\ \A i \in 0 .. d.sectors - 1 : Shifted(d, i) - base \in 0 .. n - 1 => i <= end
  BY TrackEndIs
<1>2. x \in AllAddresses(d) /\ x <= TopAddress(d) /\ p = Home(d, x) /\ n = TrackOn(d, x).spt
  BY SectorIs
<1>3. \A k \in 0 .. n - 1 : Home(d, base + k) = [p EXCEPT !.sector = k]
  BY <1>2, HomeIs
<1>4. p \in [cyl : Cylinders(d), head : 0 .. d.heads - 1, sector : 0 .. n - 1]
  BY <1>2, HomeIs
<1>5. /\ d.sectors \in Nat /\ \A l \in Nat : Shifted(d, l) \in Nat
      /\ \A l \in Nat, m \in Nat : l < m => Shifted(d, m) - Shifted(d, l) >= m - l
  BY ShiftedIs, Zenon
<1>6. x = Shifted(d, lbn)
  OBVIOUS
<1> HIDE DEF x, p, n, end
<1>7. base \in Int /\ lbn \in Nat /\ end \in Nat /\ end < d.sectors
  BY <1>1, <1>5
<1> DEFINE last == Shifted(d, end)
<1>8. last \in Nat /\ last - base <= n - 1
  BY <1>1, <1>5, <1>7
<1>9. end - lbn < n
  <2>1. CASE lbn = end
    BY <1>1, <1>7, <2>1
  <2>2. CASE lbn < end
    <3>1. last - x >= end - lbn
      BY <1>5, <1>6, <1>7, <2>2
    <3> HIDE DEF last
    <3>2. last - x < n
      BY <1>1, <1>8
    <3> QED
      BY <1>1, <1>7, <1>8, <3>1, <3>2
  <2> QED
    BY <1>1, <1>7, <2>1, <2>2
<1> HIDE DEF last
<1>10. ASSUME NEW i \in lbn .. d.sectors - 1
       PROVE  OneTrack(SectorOf(d, i), p) <=> i <= end
  <2> DEFINE y == Shifted(d, i)
             q == SectorOf(d, i)
             k == y - base
  <2>1. i \in 0 .. d.sectors - 1 /\ i \in Nat /\ lbn <= i
    BY <1>5, <1>7
  <2>2. y \in AllAddresses(d) /\ y <= TopAddress(d) /\ q = Home(d, y) /\ y \in Nat
    BY <1>5, <2>1, SectorIs
  <2>3. base \in Int /\ k \in Int /\ base + k = y
    BY <1>7, <2>2
  <2>4. k \in 0 .. n - 1 => i <= end
    BY <1>1, <2>1
  <2>5. ASSUME i <= end PROVE OneTrack(q, p)
    <3>1. x <= y
      <4>1. CASE lbn = i
        BY <1>6, <2>2, <4>1
      <4>2. CASE lbn < i
        <5>1. y - x >= i - lbn
          BY <1>5, <1>6, <1>7, <2>1, <4>2
        <5> HIDE DEF y
        <5> QED
          BY <1>1, <1>7, <2>1, <2>2, <4>2, <5>1
      <4> QED
        BY <1>7, <2>1, <4>1, <4>2
    <3>2. y <= last
      <4>1. CASE i = end
        BY <1>8, <4>1 DEF last
      <4>2. CASE i < end
        <5>1. last - y >= end - i
          BY <1>5, <1>7, <2>1, <4>2 DEF last
        <5> HIDE DEF y
        <5> QED
          BY <1>7, <1>8, <2>1, <2>2, <4>2, <5>1
      <4> QED
        BY <1>7, <2>1, <2>5, <4>1, <4>2
    <3> HIDE DEF y
    <3>3. k \in 0 .. n - 1
      BY <1>1, <1>7, <1>8, <2>2, <2>3, <3>1, <3>2
    <3>4. q = [p EXCEPT !.sector = k]
      BY <1>3, <2>2, <2>3, <3>3, Zenon
    <3> HIDE DEF k, q
    <3> QED
      BY <1>4, <3>4 DEF OneTrack
  <2>6. ASSUME OneTrack(q, p) PROVE i <= end
    <3>1. OneTrack(p, q)
      BY <2>6 DEF OneTrack
    <3>2. q.sector \in 0 .. n - 1 /\ y = base + q.sector
      BY <1>2, <2>2, <3>1, SameTrack
    <3>3. k = q.sector
      <4>1. q.sector \in Int
        BY <1>1, <3>2
      <4> HIDE DEF q, y
      <4> QED
        BY <1>7, <3>2, <4>1
    <3> QED
      BY <2>4, <3>2, <3>3
  <2> QED
    BY <2>5, <2>6
<1>11. end \in lbn .. d.sectors - 1
  BY <1>1, <1>7
<1> QED
  BY <1>9, <1>10, <1>11 DEF p, n, end

\* The sectors of an LBN's track, seen as g4_track_bound does: those that have LBNs have
\* LBNs of the track, in their order, and all of them.
LEMMA TrackInOrder ==
  ASSUME NEW d, Tiled(d), NEW lbn \in 0 .. d.sectors - 1
  PROVE  LET p     == SectorOf(d, lbn)
             n     == g4_spt_pbn(d, p)
             At(k) == ptol(d, [p EXCEPT !.sector = k])
         IN  /\ n \in Nat /\ p.sector \in 0 .. n - 1 /\ At(p.sector) = lbn
             /\ \A k \in 0 .. n - 1 :
                  At(k) >= 0 => At(k) \in 0 .. d.sectors - 1 /\ OneTrack(SectorOf(d, At(k)), p)
             /\ \A i \in 0 .. d.sectors - 1 :
                  OneTrack(SectorOf(d, i), p) => \E k \in 0 .. n - 1 : At(k) = i
             /\ \A j \in 0 .. n - 1, k \in 0 .. n - 1 :
                  j < k /\ At(j) >= 0 /\ At(k) >= 0 => At(j) < At(k)
<1> DEFINE x    == Shifted(d, lbn)
           p    == SectorOf(d, lbn)
           n    == g4_spt_pbn(d, p)
           base == x - p.sector
           top  == TopAddress(d)
           At(k) == ptol(d, [p EXCEPT !.sector = k])
<1>1. x \in AllAddresses(d) /\ x <= top /\ p = Home(d, x) /\ n = TrackOn(d, x).spt /\ ptol(d, p) = lbn
  BY SectorIs
<1>2. /\ p \in [cyl : Cylinders(d), head : 0 .. d.heads - 1, sector : 0 .. n - 1]
      /\ n \in Nat
      /\ \A k \in 0 .. n - 1 : base + k \in AllAddresses(d) /\ Home(d, base + k) = [p EXCEPT !.sector = k]
  BY <1>1, HomeIs
<1>3. x \in Nat /\ p.sector \in 0 .. n - 1 /\ base \in Int
  BY <1>1, <1>2 DEF AllAddresses
<1>4. /\ d.sectors \in Nat \ {0}
      /\ \A l \in Nat : Shifted(d, l) \in Nat /\ Unshifted(d, Shifted(d, l)) = l
      /\ \A l \in Nat, m \in Nat : l < m => Shifted(d, m) - Shifted(d, l) >= m - l
  BY ShiftedIs, Zenon
<1>5. \A k \in 0 .. n - 1 :
        IF At(k) >= 0
        THEN base + k <= top /\ At(k) \in Nat /\ At(k) < d.sectors /\ Shifted(d, At(k)) = base + k
        ELSE \A l \in Nat : Shifted(d, l) = base + k => l >= d.sectors
  BY TrackSectors DEF x, p, n, base, top
<1>6. At(p.sector) = lbn
  <2>1. [p EXCEPT !.sector = p.sector] = p
    BY <1>2
  <2> QED
    BY <1>1, <2>1
<1> HIDE DEF x, p, n, base, top, At
<1>7. ASSUME NEW k \in 0 .. n - 1, At(k) >= 0
      PROVE  At(k) \in 0 .. d.sectors - 1 /\ OneTrack(SectorOf(d, At(k)), p)
  <2> DEFINE i == At(k)
  <2>1. i \in Nat /\ i < d.sectors /\ Shifted(d, i) = base + k
    BY <1>5, <1>7
  <2> HIDE DEF i
  <2>2. i \in 0 .. d.sectors - 1
    BY <1>4, <2>1
  <2>3. SectorOf(d, i) = [p EXCEPT !.sector = k]
    <3>1. SectorOf(d, i) = Home(d, Shifted(d, i))
      BY <2>2, SectorIs
    <3> QED
      BY <1>2, <2>1, <3>1
  <2>4. OneTrack(SectorOf(d, i), p)
    BY <1>2, <2>3 DEF OneTrack
  <2> QED
    BY <2>2, <2>4 DEF i
<1>8. ASSUME NEW i \in 0 .. d.sectors - 1, OneTrack(SectorOf(d, i), p)
      PROVE  \E k \in 0 .. n - 1 : At(k) = i
  <2> DEFINE y == Shifted(d, i)
             q == SectorOf(d, i)
  <2>1. i \in Nat /\ i < d.sectors /\ y \in Nat /\ Unshifted(d, y) = i
    BY <1>4
  <2>2. y \in AllAddresses(d) /\ y <= top /\ q = Home(d, y)
    BY SectorIs DEF top
  <2>3. OneTrack(p, q)
    BY <1>8 DEF OneTrack
  <2>4. q.sector \in 0 .. n - 1 /\ y = base + q.sector
    BY <1>1, <2>2, <2>3, SameTrack DEF top, base, n
  <2> DEFINE k == q.sector
  <2>5. At(k) >= 0 /\ Shifted(d, At(k)) = y /\ At(k) \in Nat
    <3>1. k \in 0 .. n - 1 /\ base + k = y
      BY <2>4
    <3> HIDE DEF k, y
    <3> QED
      BY <1>4, <1>5, <2>1, <3>1 DEF y
  <2>6. At(k) = i
    <3>1. Unshifted(d, Shifted(d, At(k))) = At(k)
      BY <1>4, <2>5
    <3> QED
      BY <2>1, <2>5, <3>1
  <2> QED
    BY <2>4, <2>6
<1>9. ASSUME NEW j \in 0 .. n - 1, NEW k \in 0 .. n - 1, j < k, At(j) >= 0, At(k) >= 0
      PROVE  At(j) < At(k)
  <2> DEFINE u == At(j)
             v == At(k)
  <2>1. u \in Nat /\ v \in Nat /\ Shifted(d, u) = base + j /\ Shifted(d, v) = base + k
    BY <1>5, <1>9
  <2> HIDE DEF u, v
  <2>2. Shifted(d, u) < Shifted(d, v)
    BY <1>2, <1>3, <1>9, <2>1
  <2>3. v < u => Shifted(d, u) - Shifted(d, v) >= u - v
    BY <1>4, <2>1
  <2>4. Shifted(d, u) \in Nat /\ Shifted(d, v) \in Nat
    BY <1>4, <2>1
  <2>5. u # v
    BY <2>2, <2>4
  <2>6. u < v
    BY <2>1, <2>2, <2>3, <2>4, <2>5
  <2> QED
    BY <2>6 DEF u, v
<1> QED
  BY <1>2, <1>3, <1>6, <1>7, <1>8, <1>9 DEF p, n, At

LEMMA FilledTracksHaveWidth ==
  ASSUME NEW d, Tiled(d), FillsTree(d)
  PROVE  TracksHaveWidth(d)
<1> SUFFICES ASSUME NEW lbn \in 0 .. d.sectors - 1 PROVE WideToTheEnd(d, SectorOf(d, lbn))
  BY DEF TracksHaveWidth
<1> DEFINE x    == Shifted(d, lbn)
           p    == SectorOf(d, lbn)
           t    == TrackOn(d, x)
           n    == t.spt
           base == x - p.sector
           top  == TopAddress(d)
           size == SizeOf(d, Len(d.idx))
<1>1. x \in AllAddresses(d) /\ x <= top /\ p = Home(d, x)
  BY SectorIs
<1>2. /\ p \in [cyl : Cylinders(d), head : 0 .. d.heads - 1, sector : 0 .. n - 1]
      /\ n \in 2 .. Circle /\ n \in Nat
      /\ \A k \in 0 .. n - 1 : /\ base + k \in AllAddresses(d)
                              /\ Home(d, base + k) = [p EXCEPT !.sector = k]
                              /\ TrackOn(d, base + k) = t
  BY <1>1, HomeIs
<1>3. top \in Nat /\ size \in Nat /\ size - 2 <= top
  BY ShiftedIs, RootAddsNothing, TiledFollow DEF FillsTree
<1>4. AllAddresses(d) = 0 .. size - 1
  BY DEF AllAddresses
<1> HIDE DEF x, p, t, top, size
<1>5. x \in Nat /\ base \in Int /\ p.sector \in 0 .. n - 1
  BY <1>1, <1>2, <1>4
<1>6. ASSUME NEW k \in 0 .. n - 1, base + k <= top
      PROVE  /\ g4_spt_pbn(d, SectorAt(p, k)) = n
             /\ g4_sector_width(d, SectorAt(p, k), 1) = SectorAngle(n)
  <2> DEFINE b == base + k
             q == SectorAt(p, k)
  <2>1. b \in AllAddresses(d) /\ Home(d, b) = [p EXCEPT !.sector = k] /\ TrackOn(d, b) = t
    BY <1>2
  <2>2. b <= top
    BY <1>6
  <2> HIDE DEF b
  <2>3. q.cyl = Home(d, b).cyl /\ q.head = Home(d, b).head /\ q.sector = Home(d, b).sector
    BY <1>2, <2>1 DEF SectorAt
  <2> HIDE DEF q
  <2>4. g4_spt_pbn(d, q) = TrackOn(d, b).spt /\ g4_sector_width(d, q, 1) = SectorAngle(TrackOn(d, b).spt)
    BY <2>1, <2>2, <2>3, PtolAt, Zenon DEF top
  <2> QED
    BY <2>1, <2>4 DEF q
<1>7. g4_spt_pbn(d, TrackAt(p)) = n
  <2>1. TrackAt(p) = SectorAt(p, 0)
    BY DEF TrackAt, SectorAt
  <2>2. 0 \in 0 .. n - 1
    BY <1>2
  <2>3. base + 0 <= top
    BY <1>1, <1>2, <1>3, <1>5
  <2> QED
    BY <1>6, <2>1, <2>2, <2>3
<1>8. SectorAngle(n) # 0
  <2>1. n \in 1 .. Circle
    BY <1>2, AnglesType
  <2>2. SectorAngle(n) \in 1 .. Circle
    BY <2>1, SectorAngleType
  <2> QED
    BY <2>2, AnglesType
<1>9. ASSUME NEW k \in 0 .. n - 2
      PROVE  g4_sector_width(d, SectorAt(p, k), 1) # 0
  <2>1. k \in 0 .. n - 1 /\ n - 1 \in 0 .. n - 1 /\ k \in Int
    BY <1>2
  <2>2. base + (n - 1) \in 0 .. size - 1
    BY <1>2, <1>4, <2>1, Zenon
  <2>3. base + k <= top
    BY <1>2, <1>3, <1>5, <2>1, <2>2
  <2> QED
    BY <1>6, <1>8, <2>1, <2>3
<1> QED
  BY <1>7, <1>9 DEF WideToTheEnd, p

\* A layout file whose tree tiles the disk, however deep, keeps the promises that the
\* clients of the G4 layout rest on: every LBN is found where g4_ltop puts it, the
\* bounds of its track are those of g4_track_bound, and the sectors turn evenly; when
\* the LBNs fill the tree, no sector before the last of a track is without a width.
THEOREM TiledTreesServe ==
  ASSUME NEW d, Tiled(d)
  PROVE  /\ FindsLbns(d) /\ BoundsTracks(d) /\ EvenTracks(d)
         /\ FillsTree(d) => TracksHaveWidth(d)
<1>1. WellFormed(d) /\ d.remaps = <<>>
  BY DEF Tiled
<1>2. FindsLbns(d)
  BY TiledFindsLbns
<1>3. EvenTracks(d)
  BY <1>1, <1>2, TreesHaveEvenTracks
<1> QED
  BY <1>2, <1>3, TiledBoundsTracks, FilledTracksHaveWidth

-----------------------------------------------------------------------------
(* Where calls leave the client's dm_pbn *)

PbnType == [cyl : Int, head : Int, sector : Int]

LEMMA PlaceOfType ==
  ASSUME NEW path, IsPath(path)
  PROVE  PlaceOf(path) \in PbnType
<1> DEFINE nodes == IdxNodes(path)
           last == nodes[Len(nodes)]
           v(i) == nodes[i].e.cyl + nodes[i].quot * nodes[i].e.cyllen
<1>1. nodes \in Seq(InnerNode) /\ Len(nodes) \in Nat /\ Len(nodes) >= 1
  <2>1. Len(path) \in Nat /\ Len(path) >= 2
    BY DEF IsPath
  <2> QED
    BY <2>1, IdxNodesAre
<1>2. last \in InnerNode
  BY <1>1
<1>3. last.resid \in Int /\ last.e.head \in Int
  BY <1>2 DEF InnerNode, IdxEntry
<1>4. TrackOf(path).low = 0
  BY DEF IsPath, LeafNode, TrackPattern, TrackOf
<1>5. ASSUME NEW i \in 1 .. Len(nodes) PROVE v(i) \in Int
  <2>1. nodes[i] \in InnerNode
    BY <1>1
  <2>2. nodes[i].e.cyl \in Int /\ nodes[i].quot \in Int /\ nodes[i].e.cyllen \in Int
    BY <2>1 DEF InnerNode, IdxEntry
  <2> QED
    BY <2>2
<1>6. DOMAIN nodes = 1 .. Len(nodes)
  BY <1>1
<1>7. Total([i \in DOMAIN nodes |-> v(i)]) \in Int
  <2> HIDE DEF v
  <2>1. [i \in 1 .. Len(nodes) |-> v(i)] \in Seq(Int)
    BY <1>1, <1>5
  <2> QED
    BY <1>6, <2>1, TotalType
<1>8. PlaceOf(path) = [cyl |-> Total([i \in DOMAIN nodes |-> v(i)]), head |-> last.e.head,
                      sector |-> TrackOf(path).low + last.resid]
  BY DEF PlaceOf
<1> HIDE DEF nodes, last, v
<1> QED
  BY <1>3, <1>4, <1>7, <1>8 DEF PbnType

LEMMA RemapIs ==
  ASSUME NEW d, WellFormed(d), NEW T, T \subseteq DOMAIN d.remaps, T # {}
  PROVE  d.remaps[Lowest(T)] \in RemapEntry
<1>1. d.remaps \in Seq(RemapEntry)
  BY DEF WellFormed
<1>2. T \subseteq Nat
  BY <1>1
<1>3. Lowest(T) \in DOMAIN d.remaps
  BY <1>2, LowestIs
<1> QED
  BY <1>1, <1>3

LEMMA LtopType ==
  ASSUME NEW d, WellFormed(d), NEW l \in Int, NEW old \in PbnType
  PROVE  ltop(d, l, old).pbn \in PbnType
<1>1. CASE ~LbnExists(d, l)
  BY <1>1 DEF ltop
<1>2. CASE LbnExists(d, l) /\ LbnRemapped(d, l)
  <2> DEFINE r == remap_lbn(d, l)
  <2>1. r \in RemapEntry
    <3> DEFINE T == { k \in DOMAIN d.remaps : CoversLbn(d.remaps[k], l) }
    <3>1. T # {} /\ T \subseteq DOMAIN d.remaps
      BY <1>2 DEF LbnRemapped
    <3> HIDE DEF T
    <3>2. d.remaps[Lowest(T)] \in RemapEntry
      BY <3>1, RemapIs
    <3> QED
      BY <3>2 DEF T, remap_lbn
  <2> HIDE DEF r
  <2>2. SpareOf(r, l) \in PbnType
    BY <2>1 DEF SpareOf, RemapEntry, PbnType
  <2> QED
    BY <1>2, <2>2 DEF ltop, r
<1>3. CASE LbnExists(d, l) /\ ~LbnRemapped(d, l)
  <2> DEFINE path == LbnPath(d, Shifted(d, l))
  <2>1. Shifted(d, l) \in Int
    <3>1. d.slips \in Seq(SlipEntry) /\ d.slips # <<>>
      BY DEF WellFormed
    <3>2. slipcount(d.slips, l) \in Int
      BY <3>1, SlipcountType
    <3> QED
      BY <3>2 DEF Shifted
  <2>2. PathOrNone(path)
    BY <2>1, LbnPathType
  <2>3. ltop(d, l, old).pbn = IF path = <<>> THEN old ELSE PlaceOf(path)
    BY <1>3 DEF ltop, EndOf
  <2> HIDE DEF path
  <2> QED
    BY <2>2, <2>3, PlaceOfType DEF PathOrNone
<1> QED
  BY <1>1, <1>2, <1>3

LEMMA TrackInZoneType ==
  ASSUME NEW d, WellFormed(d), NEW zone \in Zones(d), NEW c \in Int
  PROVE  TrackInZone(d, zone, c).pbn \in PbnType
<1> DEFINE top    == Root(d)[zone + 1]
           off    == c - top.cyl * d.heads
           width  == top.cyllen * d.heads
           copy   == off \div width
           ents   == d.idx[zone + 1]
           left   == off - copy * width
           before == Sums(RunTracks(ents))
           T      == { j \in DOMAIN ents : left <= before[j] }
           k      == Lowest(T)
           e      == ents[k]
           tracks == TracksInto(left - before[k - 1], Magnitude(e.cyllen))
           step   == IF e.cylrunlen < 0 THEN -e.cyllen ELSE e.cyllen
<1>1. top \in IdxEntry /\ d.heads \in Nat \ {0}
  <2>1. d.idx \in Seq(Seq(IdxEntry)) /\ d.idx # <<>> /\ d.heads \in Nat \ {0}
    BY DEF WellFormed
  <2>2. Root(d) \in Seq(IdxEntry)
    BY <2>1 DEF Root
  <2>3. zone + 1 \in 1 .. Len(Root(d))
    BY <2>2 DEF Zones
  <2> QED
    BY <2>1, <2>2, <2>3
<1>2. ents \in Seq(IdxEntry) /\ width <= Total(RunTracks(ents))
  <2>1. HoldsPattern(d, zone)
    BY DEF WellFormed
  <2>2. d.idx \in Seq(Seq(IdxEntry)) /\ zone + 1 \in DOMAIN d.idx
    BY <2>1 DEF WellFormed, HoldsPattern
  <2> QED
    BY <2>1, <2>2 DEF HoldsPattern
<1>3. top.cyl \in Int /\ top.cyllen \in Nat \ {0}
  BY <1>1 DEF IdxEntry
<1>4. width \in Nat \ {0} /\ off \in Int
  BY <1>1, <1>3
<1> HIDE DEF top, ents
<1>5. copy \in Int /\ left \in Int /\ left < width
  <2> DEFINE m == off % width
  <2> HIDE DEF off, width
  <2>1. copy \in Int /\ m \in 0 .. width - 1 /\ off = copy * width + m
    BY <1>4, DivisionIs
  <2>2. copy * width \in Int
    BY <1>4, <2>1
  <2> HIDE DEF copy, m
  <2> QED
    BY <1>4, <2>1, <2>2
<1>6. RunTracks(ents) \in Seq(Int) /\ Len(RunTracks(ents)) = Len(ents) /\ DOMAIN ents = 1 .. Len(ents)
  <2> DEFINE v(i) == Magnitude(ents[i].cylrunlen)
  <2>1. ASSUME NEW i \in 1 .. Len(ents) PROVE v(i) \in Int
    <3>1. ents[i] \in IdxEntry
      BY <1>2
    <3>2. ents[i].cylrunlen \in Int
      BY <3>1 DEF IdxEntry
    <3> QED
      BY <3>2 DEF Magnitude
  <2>2. DOMAIN ents = 1 .. Len(ents) /\ Len(ents) \in Nat
    BY <1>2
  <2>3. RunTracks(ents) = [i \in 1 .. Len(ents) |-> v(i)]
    BY <2>2 DEF RunTracks
  <2> HIDE DEF v
  <2>4. [i \in 1 .. Len(ents) |-> v(i)] \in Seq(Int) /\ Len([i \in 1 .. Len(ents) |-> v(i)]) = Len(ents)
    BY <2>1, <2>2
  <2> QED
    BY <2>2, <2>3, <2>4
<1>7. before \in [0 .. Len(ents) -> Int] /\ before[0] = 0 /\ width <= before[Len(ents)]
  BY <1>2, <1>6, SumsAre DEF Total
<1> HIDE DEF before, left, copy, width, off
<1>8. T \subseteq Nat /\ T # {}
  <2>1. Len(ents) \in Nat
    BY <1>2
  <2>2. Len(ents) # 0
    BY <1>4, <1>7
  <2>3. Len(ents) \in 1 .. Len(ents) /\ before[Len(ents)] \in Int
    BY <1>7, <2>1, <2>2
  <2>4. left <= before[Len(ents)]
    BY <1>4, <1>5, <1>7, <2>3
  <2>5. Len(ents) \in T
    BY <1>6, <2>3, <2>4
  <2> QED
    BY <1>6, <2>5
<1>9. k \in 1 .. Len(ents)
  <2>1. k \in T
    BY <1>8, LowestIs
  <2> QED
    BY <1>6, <2>1
<1> HIDE DEF k
<1>10. e \in IdxEntry /\ before[k - 1] \in Int
  <2>1. k - 1 \in 0 .. Len(ents)
    BY <1>2, <1>9
  <2> QED
    BY <1>2, <1>7, <1>9, <2>1
<1> HIDE DEF e
<1>11. e.cyl \in Int /\ e.head \in Int /\ e.cyllen \in Nat \ {0} /\ step \in Int
  BY <1>10 DEF IdxEntry
<1>12. tracks \in Int
  <2> DEFINE rest == left - before[k - 1]
             w == Magnitude(e.cyllen)
             hops == IF rest = 0 THEN 0 ELSE (rest - 1) \div w
  <2>1. rest \in Int /\ w \in Nat \ {0}
    BY <1>5, <1>10, <1>11 DEF Magnitude
  <2> HIDE DEF rest, w
  <2>2. hops \in Int
    BY <2>1
  <2> HIDE DEF hops
  <2>3. hops * w \in Int
    BY <2>1, <2>2
  <2>4. tracks = hops + (rest - hops * w)
    BY DEF TracksInto, hops, rest, w
  <2> QED
    BY <2>1, <2>2, <2>3, <2>4
<1> HIDE DEF tracks, step
<1>13. top.cyl + copy * top.cyllen + e.cyl + tracks * step \in Int
  <2>1. copy * top.cyllen \in Int /\ tracks * step \in Int
    BY <1>3, <1>5, <1>11, <1>12
  <2> QED
    BY <1>3, <1>11, <2>1
<1>14. TrackInZone(d, zone, c).pbn
         = [cyl |-> top.cyl + copy * top.cyllen + e.cyl + tracks * step, head |-> e.head, sector |-> 0]
  BY DEF TrackInZone, top, off, width, copy, ents, left, before, T, k, e, tracks, step
<1> QED
  BY <1>11, <1>13, <1>14 DEF PbnType

LEMMA AbsCylType ==
  ASSUME NEW d, WellFormed(d), NEW c \in Int, \E n \in Zones(d) : HasTrack(d, n, c)
  PROVE  g4_get_pbn_by_abs_cyl(d, c).pbn \in PbnType
<1> DEFINE T == { n \in Zones(d) : HasTrack(d, n, c) }
<1>1. T \subseteq Nat /\ T # {}
  <2>1. d.idx \in Seq(Seq(IdxEntry)) /\ d.idx # <<>>
    BY DEF WellFormed
  <2>2. Len(Root(d)) \in Nat
    BY <2>1 DEF Root
  <2>3. Zones(d) \subseteq Nat
    BY <2>2 DEF Zones
  <2> QED
    BY <2>3
<1>2. Lowest(T) \in T
  BY <1>1, LowestIs
<1>3. Lowest(T) \in Zones(d)
  BY <1>2
<1>4. g4_get_pbn_by_abs_cyl(d, c) = TrackInZone(d, Lowest(T), c)
  BY DEF g4_get_pbn_by_abs_cyl
<1> HIDE DEF T
<1> QED
  BY <1>3, <1>4, TrackInZoneType

\* A sector has no width, or one of the angles of the circle.
LEMMA WidthType ==
  ASSUME NEW d, WellFormed(d), NEW p \in PbnType, NEW num
  PROVE  g4_sector_width(d, p, num) \in Nat
<1> DEFINE path == PbnPath(d, p)
<1>1. Paired(p, p, path, path)
  BY PbnPathPaired DEF PbnType
<1> HIDE DEF path
<1>2. CASE PbnRemapped(d, p) \/ path = <<>>
  BY <1>2 DEF g4_sector_width, path
<1>3. CASE ~PbnRemapped(d, p) /\ path # <<>>
  <2>1. TrackOf(path) \in TrackPattern
    BY <1>1, <1>3 DEF Paired, IsPath, LeafNode, TrackOf
  <2>2. TrackOf(path).spt \in 1 .. Circle
    <3>1. TrackOf(path).spt \in 2 .. Circle
      BY <2>1 DEF TrackPattern
    <3> QED
      BY <3>1, AnglesType
  <2>3. SectorAngle(TrackOf(path).spt) \in 1 .. Circle
    BY <2>2, SectorAngleType
  <2>4. SectorAngle(TrackOf(path).spt) \in Nat
    BY <2>3, AnglesType
  <2> QED
    BY <1>3, <2>4 DEF g4_sector_width, path
<1> QED
  BY <1>2, <1>3

-----------------------------------------------------------------------------
(* Skews *)

\* The client's dm_pbn holds numbers, wherever it has come from; and what g4_skew
\* has returned is still the skew of that dm_pbn when the client looks at it.
SkewInv ==
  /\ disk \in Disks
  /\ pbn \in PbnType
  /\ pc \in {"first", "last"} => call = "bound"
  /\ Done("skew") => ret = g4_skew(disk, pbn)

LEMMA InitSkew == Init => SkewInv
BY DEF Init, SkewInv, PbnType, Done

\* A call other than g4_skew that is over in one step.
LEMMA ReturnsSkew ==
  ASSUME SkewInv, NEW f, f # "skew", NEW a, NEW r, NEW o, Returns(f, a, r, o), pbn' \in PbnType
  PROVE  SkewInv'
BY DEF SkewInv, Returns, Done

LEMMA NextSkew == SkewInv /\ [Next]_vars => SkewInv'
<1> SUFFICES ASSUME SkewInv, [Next]_vars PROVE SkewInv'
  OBVIOUS
<1>0. WellFormed(disk) /\ pbn \in PbnType
  BY DisksAssumption DEF SkewInv
<1>1. ASSUME NEW p \in Pbns, Point(p) PROVE SkewInv'
  <2>1. p \in PbnType
    <3>1. Heads \subseteq Nat /\ Cyls \subseteq Nat /\ Sectors \subseteq Nat
      BY ClientAssumption
    <3>2. p.cyl \in Cyls /\ p.head \in Heads /\ p.sector \in Sectors
      BY DEF Pbns
    <3>3. p.cyl \in Int /\ p.head \in Int /\ p.sector \in Int
      <4>1. p.cyl \in Nat /\ p.head \in Nat /\ p.sector \in Nat
        BY <3>1, <3>2
      <4> QED
        BY <4>1
    <3>4. p = [cyl |-> p.cyl, head |-> p.head, sector |-> p.sector]
      BY DEF Pbns
    <3> QED
      BY <3>3, <3>4 DEF PbnType
  <2> QED
    BY <1>1, <2>1 DEF Point, SkewInv, Done, result
<1>2. ASSUME NEW l \in -1 .. disk.sectors, Ltop(l) PROVE SkewInv'
  <2> DEFINE t == ltop(disk, l, pbn)
  <2>1. t.pbn \in PbnType
    <3>1. l \in Int
      OBVIOUS
    <3> QED
      BY <1>0, <3>1, LtopType
  <2>2. pbn' = t.pbn /\ Returns("ltop", l, t.status, t.moved)
    BY <1>2 DEF Ltop, LtopReturns
  <2> HIDE DEF t
  <2> QED
    BY <2>1, <2>2, ReturnsSkew
<1>3. ASSUME NEW l \in 0 .. disk.sectors - 1, SectorsLbn(l) PROVE SkewInv'
  BY <1>0, <1>3, ReturnsSkew DEF SectorsLbn, client
<1>4. ASSUME NEW l \in 0 .. disk.sectors - 1, ZoneIdByLbn(l) PROVE SkewInv'
  BY <1>0, <1>4, ReturnsSkew DEF ZoneIdByLbn, client
<1>5. ASSUME NEW c \in 0 .. disk.cyls * disk.heads - 1, PbnByAbsCyl(c) PROVE SkewInv'
  <2> DEFINE a == g4_get_pbn_by_abs_cyl(disk, c)
  <2>1. a.pbn \in PbnType
    <3>1. c \in Int
      OBVIOUS
    <3>2. \E n \in Zones(disk) : HasTrack(disk, n, c)
      BY <1>5 DEF PbnByAbsCyl
    <3> QED
      BY <1>0, <3>1, <3>2, AbsCylType
  <2>2. pbn' = a.pbn /\ Returns("abs_cyl", c, a.zone, a.start)
    BY <1>5 DEF PbnByAbsCyl
  <2> HIDE DEF a
  <2> QED
    BY <2>1, <2>2, ReturnsSkew
<1>6. ASSUME NEW num \in Sectors, SectorWidth(num) PROVE SkewInv'
  BY <1>0, <1>6, ReturnsSkew DEF SectorWidth, client
<1>7. ASSUME NEW theta \in Thetas, Atop(theta) PROVE SkewInv'
  <2> DEFINE p == [pbn EXCEPT !.sector = 0]
             width == g4_sector_width(disk, p, 1)
  <2>1. p \in PbnType
    BY <1>0 DEF PbnType
  <2> HIDE DEF p
  <2>2. width \in Nat
    BY <1>0, <2>1, WidthType
  <2>3. AtopBy(width, theta)
    BY <1>7 DEF Atop, p
  <2> HIDE DEF width
  <2>4. theta \in Int
    BY ClientAssumption, AnglesType
  <2>5. (IF width = 0 THEN 0 ELSE theta \div width) \in Int
    BY <2>2, <2>4
  <2>6. pbn' \in PbnType
    BY <1>0, <2>3, <2>5 DEF AtopBy, PbnType
  <2>7. call' = "atop" /\ disk' = disk /\ pc' \in {"aborted", "done"}
    BY <2>3 DEF AtopBy
  <2> QED
    BY <2>6, <2>7 DEF SkewInv, Done
<1>8. ASSUME Ptol PROVE SkewInv'
  BY <1>0, <1>8, ReturnsSkew DEF Ptol, client
<1>9. ASSUME SectorsPbn PROVE SkewInv'
  BY <1>0, <1>9, ReturnsSkew DEF SectorsPbn, client
<1>10. ASSUME Skew PROVE SkewInv'
  <2>1. ret' = g4_skew(disk, pbn) /\ disk' = disk /\ pbn' = pbn /\ pc' = "done"
    BY <1>10 DEF Skew, Returns, client
  <2> QED
    BY <2>1 DEF SkewInv, Done
<1>11. ASSUME Use PROVE SkewInv'
  BY <1>11 DEF Use, SkewInv, Done, client
<1>12. ASSUME NEW w \in Wanted, TrackBound(w) PROVE SkewInv'
  BY <1>12 DEF TrackBound, SkewInv, Done, client
<1>13. ASSUME BoundStep PROVE SkewInv'
  <2>1. pc \in {"first", "last"} /\ UNCHANGED <<disk, pbn, call>>
    BY <1>13 DEF BoundStep, FirstLoop, FirstFound, LastLoop, LastFound, client, result
  <2> QED
    BY <2>1 DEF SkewInv, Done
<1>14. ASSUME UNCHANGED vars PROVE SkewInv'
  BY <1>14 DEF vars, client, result, SkewInv, Done
<1> QED
  BY <1>1, <1>2, <1>3, <1>4, <1>5, <1>6, <1>7, <1>8, <1>9, <1>10, <1>11, <1>12, <1>13, <1>14 DEF Next

\* The angle between the starts of two sectors of a track, the lower one 0, is undone by
\* the division g4_atop makes.
LEMMA SkewUndone ==
  ASSUME NEW n \in 2 .. Circle, NEW k \in 0 .. n - 1, NEW start \in 0 .. Circle - 1
  PROVE  ((((start + k * SectorAngle(n)) % Circle) - start) % Circle) \div SectorAngle(n) = k
<1> DEFINE w == SectorAngle(n)
           b == k * w
           s == (start + b) % Circle
<1>1. n \in 1 .. Circle /\ k \in Nat /\ start \in Int
  BY AnglesType
<1>2. w \in 1 .. Circle /\ b \in 0 .. Circle - 1
  BY <1>1, SectorAngleType
<1>3. w \in Nat \ {0} /\ b \in Int
  BY <1>2, AnglesType
<1> HIDE DEF w, b
<1>4. s \in 0 .. Circle - 1 /\ Cong(s, start + b)
  <2>1. start + b \in Int
    BY <1>1, <1>3
  <2> QED
    BY <2>1, CongMod
<1> HIDE DEF s
<1>5. s \in Int /\ start + b \in Int
  BY <1>1, <1>3, <1>4, AnglesType
<1>6. Cong(s - start, (start + b) - start)
  BY <1>1, <1>4, <1>5, CongSame, CongSum
<1>7. (start + b) - start = b
  BY <1>1, <1>3
<1>8. (s - start) % Circle = b
  BY <1>2, <1>6, <1>7, CongOnly
<1>9. b \div w = k
  <2>1. b = k * w + 0 /\ 0 \in 0 .. w - 1 /\ k \in Int
    BY <1>1, <1>3 DEF b
  <2> QED
    BY <1>3, <2>1, DivisionOnly
<1> QED
  BY <1>8, <1>9 DEF s, b, w

\* The run's property, for every tree a layout file may hold: the head that a client
\* turns by the skew of a sector is over that sector when it asks g4_atop.
THEOREM SkewsAreUndone == Spec => []AtopUndoesSkew
<1>1. SkewInv => AtopUndoesSkew
  <2> SUFFICES ASSUME SkewInv, Done("skew"), ptol(disk, pbn) >= 0, ~PbnRemapped(disk, pbn)
               PROVE  ((ret - g4_skew(disk, [pbn EXCEPT !.sector = 0])) % Circle)
                        \div g4_sector_width(disk, pbn, 1) = pbn.sector
    BY DEF AtopUndoesSkew
  <2> DEFINE q == [pbn EXCEPT !.sector = 0]
             path == PbnPath(disk, pbn)
             n == TrackOf(path).spt
             start == g4_skew(disk, q)
  <2>1. WellFormed(disk) /\ pbn.cyl \in Int /\ pbn.sector \in Int
    BY DisksAssumption DEF SkewInv, PbnType
  <2>2. path # <<>>
    <3> SUFFICES ASSUME path = <<>> PROVE FALSE
      OBVIOUS
    <3>1. ptol(disk, pbn) = -4
      BY DEF ptol, LbnOf, DM_NX
    <3> QED
      BY <3>1
  <2>3. q.cyl = pbn.cyl /\ q.head = pbn.head /\ q.sector = 0
    BY DEF SkewInv, PbnType
  <2> HIDE DEF q
  <2>4. /\ n \in 2 .. Circle /\ pbn.sector \in 0 .. n - 1
        /\ start \in 0 .. Circle - 1
        /\ g4_skew(disk, pbn) = (start + pbn.sector * SectorAngle(n)) % Circle
    BY <2>1, <2>2, <2>3, TrackTurns
  <2>5. g4_sector_width(disk, pbn, 1) = SectorAngle(n)
    BY <2>2 DEF g4_sector_width
  <2>6. ret = g4_skew(disk, pbn)
    BY DEF SkewInv
  <2> HIDE DEF path, n, start
  <2>7. ((ret - start) % Circle) \div g4_sector_width(disk, pbn, 1) = pbn.sector
    BY <2>4, <2>5, <2>6, SkewUndone
  <2> QED
    BY <2>7 DEF start, q
<1> QED
  BY <1>1, InitSkew, NextSkew, PTL DEF Spec

-----------------------------------------------------------------------------
(* The bounds of a track *)

SectorLbn(k) == ptol(disk, [pbn EXCEPT !.sector = k])

\* The client's dm_pbn is where ltop found an LBN.
Followed == from \in 0 .. disk.sectors - 1 /\ pbn = SectorOf(disk, from)

\* The loops of g4_track_bound have not passed the client's sector, and sectors that
\* they have passed have no LBN.
BoundInv ==
  /\ pc \in {"idle", "first", "last", "done"}
  /\ want \in [l0 : BOOLEAN, ln : BOOLEAN]
  /\ from # -1 => Followed
  /\ pc \in {"first", "last"} \/ Done("bound") => from # -1
  /\ pc \in {"first", "last"} => out = g4_spt_pbn(disk, pbn)
  /\ pc = "first" =>
       want.l0 /\ pi \in 0 .. pbn.sector /\ \A k \in 0 .. pi - 1 : SectorLbn(k) < 0
  /\ pc = "last" =>
       want.ln /\ pi \in pbn.sector .. out - 1 /\ \A k \in pi + 1 .. out - 1 : SectorLbn(k) < 0
  /\ pc = "last" \/ Done("bound") => (want.l0 => IsFirst(l0, TrackLbns(pbn)))
  /\ Done("bound") /\ want.ln => IsLast(ln, TrackLbns(pbn))
  /\ Done("ptol") /\ from # -1 => ret = from

LEMMA TrackLbnsAre ==
  ASSUME Tiled(disk)
  PROVE  TrackLbns(pbn) = { l \in 0 .. disk.sectors - 1 : OneTrack(SectorOf(disk, l), pbn) }
<1>1. ASSUME NEW l \in 0 .. disk.sectors - 1
      PROVE  ltop(disk, l, pbn).status = DM_OK /\ ltop(disk, l, pbn).pbn = SectorOf(disk, l)
  <2>1. ltop(disk, l, Origin).status = DM_OK
    BY SectorIs
  <2>2. ltop(disk, l, pbn).status = ltop(disk, l, Origin).status
    BY DEF ltop, EndOf
  <2> QED
    BY <2>1, <2>2, SectorAnyStruct
<1> QED
  BY <1>1 DEF TrackLbns, OneTrack

\* The sectors of the client's track, where it follows an LBN.
LEMMA FollowedTrack ==
  ASSUME Tiled(disk), Followed
  PROVE  LET n == g4_spt_pbn(disk, pbn)
         IN  /\ disk.sectors \in Nat /\ from \in Nat /\ from \in TrackLbns(pbn)
             /\ n \in Nat /\ pbn.sector \in 0 .. n - 1 /\ SectorLbn(pbn.sector) = from
             /\ \A k \in 0 .. n - 1 : SectorLbn(k) >= 0 => SectorLbn(k) \in TrackLbns(pbn)
             /\ \A i \in TrackLbns(pbn) : \E k \in 0 .. n - 1 : SectorLbn(k) = i
             /\ \A j \in 0 .. n - 1, k \in 0 .. n - 1 :
                  j < k /\ SectorLbn(j) >= 0 /\ SectorLbn(k) >= 0 => SectorLbn(j) < SectorLbn(k)
<1> DEFINE p == SectorOf(disk, from)
           At(k) == ptol(disk, [p EXCEPT !.sector = k])
           n == g4_spt_pbn(disk, p)
<1>1. from \in 0 .. disk.sectors - 1 /\ pbn = p
  BY DEF Followed
<1>2. /\ n \in Nat /\ p.sector \in 0 .. n - 1 /\ At(p.sector) = from
      /\ \A k \in 0 .. n - 1 :
           At(k) >= 0 => At(k) \in 0 .. disk.sectors - 1 /\ OneTrack(SectorOf(disk, At(k)), p)
      /\ \A i \in 0 .. disk.sectors - 1 :
           OneTrack(SectorOf(disk, i), p) => \E k \in 0 .. n - 1 : At(k) = i
      /\ \A j \in 0 .. n - 1, k \in 0 .. n - 1 :
           j < k /\ At(j) >= 0 /\ At(k) >= 0 => At(j) < At(k)
  BY <1>1, TrackInOrder
<1>3. disk.sectors \in Nat /\ from \in Nat
  <2>1. disk.sectors \in Nat
    BY DEF Tiled, WellFormed
  <2> QED
    BY <1>1, <2>1
<1>4. \A k : SectorLbn(k) = At(k)
  BY <1>1 DEF SectorLbn
<1>5. \A i : i \in TrackLbns(pbn) <=> i \in 0 .. disk.sectors - 1 /\ OneTrack(SectorOf(disk, i), p)
  BY <1>1, TrackLbnsAre
<1>6. OneTrack(p, p)
  BY DEF OneTrack
<1>7. n = g4_spt_pbn(disk, pbn) /\ p.sector = pbn.sector /\ p = SectorOf(disk, from)
  BY <1>1
<1> HIDE DEF p, At, n
<1>8. from \in TrackLbns(pbn)
  BY <1>1, <1>5, <1>6, <1>7
<1> QED
  BY <1>2, <1>3, <1>4, <1>5, <1>7, <1>8

\* The first sector of the track that has an LBN has its first, the last its last.
LEMMA FirstSector ==
  ASSUME Tiled(disk), Followed, NEW j \in 0 .. pbn.sector, SectorLbn(j) >= 0,
         \A k \in 0 .. j - 1 : SectorLbn(k) < 0
  PROVE  SectorLbn(j) < disk.sectors /\ IsFirst(SectorLbn(j), TrackLbns(pbn))
<1> DEFINE n == g4_spt_pbn(disk, pbn)
<1>1. /\ n \in Nat /\ pbn.sector \in 0 .. n - 1
      /\ \A k \in 0 .. n - 1 : SectorLbn(k) >= 0 => SectorLbn(k) \in TrackLbns(pbn)
      /\ \A i \in TrackLbns(pbn) : \E k \in 0 .. n - 1 : SectorLbn(k) = i
      /\ \A h \in 0 .. n - 1, k \in 0 .. n - 1 :
           h < k /\ SectorLbn(h) >= 0 /\ SectorLbn(k) >= 0 => SectorLbn(h) < SectorLbn(k)
  BY FollowedTrack
<1>2. TrackLbns(pbn) \subseteq 0 .. disk.sectors - 1 /\ disk.sectors \in Nat
  BY FollowedTrack DEF TrackLbns
<1> HIDE DEF n
<1>3. j \in 0 .. n - 1 /\ SectorLbn(j) \in TrackLbns(pbn)
  <2>1. j \in 0 .. n - 1
    BY <1>1
  <2> QED
    BY <1>1, <2>1
<1>4. SectorLbn(j) \in Nat /\ SectorLbn(j) < disk.sectors
  BY <1>2, <1>3
<1>5. ASSUME NEW i \in TrackLbns(pbn) PROVE SectorLbn(j) <= i
  <2>1. PICK k \in 0 .. n - 1 : SectorLbn(k) = i
    BY <1>1
  <2>2. i \in Nat
    BY <1>2
  <2>3. ~(k < j)
    <3>1. k < j => k \in 0 .. j - 1
      BY <1>3
    <3> QED
      BY <2>1, <2>2, <3>1
  <2>4. k = j \/ j < k
    BY <1>3, <2>3
  <2>5. j < k => SectorLbn(j) < SectorLbn(k)
    BY <1>1, <1>3, <2>1, <2>2
  <2> QED
    BY <1>4, <2>1, <2>2, <2>4, <2>5
<1> QED
  BY <1>3, <1>4, <1>5 DEF IsFirst

LEMMA LastSectorOn ==
  ASSUME Tiled(disk), Followed, NEW j \in pbn.sector .. g4_spt_pbn(disk, pbn) - 1, SectorLbn(j) >= 0,
         \A k \in j + 1 .. g4_spt_pbn(disk, pbn) - 1 : SectorLbn(k) < 0
  PROVE  SectorLbn(j) < disk.sectors /\ IsLast(SectorLbn(j), TrackLbns(pbn))
<1> DEFINE n == g4_spt_pbn(disk, pbn)
<1>1. /\ n \in Nat /\ pbn.sector \in 0 .. n - 1
      /\ \A k \in 0 .. n - 1 : SectorLbn(k) >= 0 => SectorLbn(k) \in TrackLbns(pbn)
      /\ \A i \in TrackLbns(pbn) : \E k \in 0 .. n - 1 : SectorLbn(k) = i
      /\ \A h \in 0 .. n - 1, k \in 0 .. n - 1 :
           h < k /\ SectorLbn(h) >= 0 /\ SectorLbn(k) >= 0 => SectorLbn(h) < SectorLbn(k)
  BY FollowedTrack
<1>2. TrackLbns(pbn) \subseteq 0 .. disk.sectors - 1 /\ disk.sectors \in Nat
  BY FollowedTrack DEF TrackLbns
<1>3. j \in pbn.sector .. n - 1 /\ \A k \in j + 1 .. n - 1 : SectorLbn(k) < 0
  OBVIOUS
<1> HIDE DEF n
<1>4. j \in 0 .. n - 1 /\ SectorLbn(j) \in TrackLbns(pbn)
  <2>1. j \in 0 .. n - 1
    BY <1>1, <1>3
  <2> QED
    BY <1>1, <2>1
<1>5. SectorLbn(j) \in Nat /\ SectorLbn(j) < disk.sectors
  BY <1>2, <1>4
<1>6. ASSUME NEW i \in TrackLbns(pbn) PROVE i <= SectorLbn(j)
  <2>1. PICK k \in 0 .. n - 1 : SectorLbn(k) = i
    BY <1>1
  <2>2. i \in Nat
    BY <1>2
  <2>3. ~(j < k)
    <3>1. j < k => k \in j + 1 .. n - 1
      BY <1>1, <1>4
    <3> QED
      BY <1>3, <2>1, <2>2, <3>1
  <2>4. k = j \/ k < j
    BY <1>4, <2>3
  <2>5. k < j => SectorLbn(k) < SectorLbn(j)
    BY <1>1, <1>4, <2>1, <2>2
  <2> QED
    BY <1>5, <2>1, <2>2, <2>4, <2>5
<1> QED
  BY <1>4, <1>5, <1>6 DEF IsLast

\* What the loops look up is what ptol answers for the sector they are at.
LEMMA TriedIs ==
  ASSUME disk \in Disks, Tiled(disk), Followed, pi \in 0 .. g4_spt_pbn(disk, pbn) - 1
  PROVE  Tried = SectorLbn(pi) /\ pi < IntMax
<1> DEFINE x == Shifted(disk, from)
           n == g4_spt_pbn(disk, pbn)
<1>1. x \in AllAddresses(disk) /\ pbn = Home(disk, x) /\ n = TrackOn(disk, x).spt
  BY SectorIs DEF Followed
<1>2. TrackOn(disk, x) \in TracksOf(disk) /\ n \in Nat
      /\ pbn \in [cyl : Cylinders(disk), head : 0 .. disk.heads - 1, sector : 0 .. n - 1]
  BY <1>1, HomeIs
<1> HIDE DEF x
<1>3. n <= IntMax
  <2>1. PICK k \in DOMAIN disk.track : TrackOn(disk, x) = disk.track[k]
    BY <1>2 DEF TracksOf
  <2> QED
    BY <1>1, <2>1, CounterAssumption
<1> HIDE DEF n
<1>4. pi \in 0 .. n - 1
  BY DEF n
<1>5. IntMax \in Nat
  BY ClientAssumption
<1>6. pi \in -IntMax - 1 .. IntMax /\ pi < IntMax
  BY <1>2, <1>3, <1>4, <1>5
<1> DEFINE q == [pbn EXCEPT !.sector = pi]
           P == [cyl : -1 .. disk.cyls, head : 0 .. disk.heads - 1, sector : -IntMax - 1 .. IntMax]
<1>7. q \in P
  <2>1. disk.cyls \in Nat
    BY DEF Tiled, WellFormed
  <2>2. pbn.cyl \in -1 .. disk.cyls /\ pbn.head \in 0 .. disk.heads - 1
    BY <1>2, <2>1 DEF Cylinders
  <2>3. q = [cyl |-> pbn.cyl, head |-> pbn.head, sector |-> pi]
    BY <1>2
  <2> HIDE DEF q
  <2> QED
    BY <1>6, <2>2, <2>3
<1> HIDE DEF q
<1>8. <<disk, q, ptol(disk, q)>> \in PtolTable
  <2> DEFINE Table(d) ==
        { <<d, p, ptol(d, p)>> :
            p \in [cyl : -1 .. d.cyls, head : 0 .. d.heads - 1, sector : -IntMax - 1 .. IntMax] }
  <2>1. <<disk, q, ptol(disk, q)>> \in Table(disk)
    BY <1>7
  <2>2. PtolTable = UNION { Table(d) : d \in Disks }
    BY DEF PtolTable
  <2> HIDE DEF Table
  <2> QED
    BY <2>1, <2>2, Zenon
<1>9. \E t \in PtolTable : t[1] = disk /\ t[2] = q
  <2>1. <<disk, q, ptol(disk, q)>>[1] = disk /\ <<disk, q, ptol(disk, q)>>[2] = q
    OBVIOUS
  <2> QED
    BY <1>8, <2>1, Zenon
<1>10. \A t \in PtolTable : t[1] = disk /\ t[2] = q => t[3] = ptol(disk, q)
  <2> SUFFICES ASSUME NEW t \in PtolTable, t[1] = disk, t[2] = q PROVE t[3] = ptol(disk, q)
    OBVIOUS
  <2>1. \E d \in Disks : \E p : t = <<d, p, ptol(d, p)>>
    BY Zenon DEF PtolTable
  <2>2. PICK d, p : t = <<d, p, ptol(d, p)>>
    BY <2>1
  <2>3. t[1] = d /\ t[2] = p /\ t[3] = ptol(d, p)
    BY <2>2
  <2> QED
    BY <2>3
<1> DEFINE tried == CHOOSE t \in PtolTable : t[1] = disk /\ t[2] = q
<1>11. tried \in PtolTable /\ tried[1] = disk /\ tried[2] = q
  BY <1>9, Zenon
<1>12. Tried = tried[3]
  BY DEF Tried, q
<1> HIDE DEF tried
<1> QED
  BY <1>6, <1>10, <1>11, <1>12 DEF SectorLbn, q

LEMMA InitBound == Init => BoundInv
BY DEF Init, BoundInv, Done

\* A call over in one step that leaves the client's dm_pbn, or one that no LBN leads to.
LEMMA ReturnsBound ==
  ASSUME BoundInv, NEW f, f # "bound", NEW a, NEW r, NEW o, Returns(f, a, r, o),
         (pbn' = pbn /\ from' = from) \/ from' = -1 \/ Followed',
         f = "ptol" /\ from' # -1 => r = from'
  PROVE  BoundInv'
<1>1. pc = "idle" /\ pc' = "done" /\ call' = f /\ ret' = r /\ want' = want /\ disk' = disk
  BY DEF Returns, bounds
<1>2. ~Done("bound")'
  BY <1>1 DEF Done
<1>3. from' # -1 => Followed'
  BY <1>1 DEF BoundInv, Followed
<1> QED
  BY <1>1, <1>2, <1>3 DEF BoundInv, Done

LEMMA NextBound ==
  ASSUME ~BlindBounds, SkewInv, Tiled(disk), BoundInv, [Next]_vars
  PROVE  BoundInv'
<1>0. disk \in Disks /\ WellFormed(disk) /\ disk.sectors \in Nat
  BY DEF SkewInv, Tiled, WellFormed
<1>1. ASSUME NEW p \in Pbns, Point(p) PROVE BoundInv'
  BY <1>1 DEF Point, BoundInv, Done, result, bounds
<1>2. ASSUME NEW l \in -1 .. disk.sectors, Ltop(l) PROVE BoundInv'
  <2> DEFINE t == ltop(disk, l, pbn)
  <2>1. pbn' = t.pbn /\ from' = (IF t.status = DM_OK THEN l ELSE -1)
        /\ Returns("ltop", l, t.status, t.moved)
    BY <1>2 DEF Ltop, LtopReturns
  <2>2. CASE t.status = DM_OK
    <3>1. l \in 0 .. disk.sectors - 1
      <4>1. LbnExists(disk, l)
        BY <2>2 DEF ltop, DM_OK, DM_NX
      <4> QED
        BY <1>0, <4>1 DEF LbnExists
    <3>2. t.pbn = SectorOf(disk, l)
      BY <3>1, SectorIs, SectorAnyStruct
    <3>3. disk' = disk
      BY <2>1 DEF Returns
    <3> HIDE DEF t
    <3>4. Followed'
      BY <2>1, <2>2, <3>1, <3>2, <3>3 DEF Followed
    <3> QED
      BY <2>1, <3>4, ReturnsBound
  <2>3. CASE t.status # DM_OK
    <3> HIDE DEF t
    <3>1. from' = -1
      BY <2>1, <2>3
    <3> QED
      BY <2>1, <3>1, ReturnsBound
  <2> QED
    BY <2>2, <2>3
<1>3. ASSUME NEW l \in 0 .. disk.sectors - 1, SectorsLbn(l) PROVE BoundInv'
  BY <1>3, ReturnsBound DEF SectorsLbn, client
<1>4. ASSUME NEW l \in 0 .. disk.sectors - 1, ZoneIdByLbn(l) PROVE BoundInv'
  BY <1>4, ReturnsBound DEF ZoneIdByLbn, client
<1>5. ASSUME NEW c \in 0 .. disk.cyls * disk.heads - 1, PbnByAbsCyl(c) PROVE BoundInv'
  <2> DEFINE a == g4_get_pbn_by_abs_cyl(disk, c)
  <2>1. from' = -1 /\ Returns("abs_cyl", c, a.zone, a.start)
    BY <1>5 DEF PbnByAbsCyl
  <2> HIDE DEF a
  <2> QED
    BY <2>1, ReturnsBound
<1>6. ASSUME NEW num \in Sectors, SectorWidth(num) PROVE BoundInv'
  BY <1>6, ReturnsBound DEF SectorWidth, client
<1>7. ASSUME NEW theta \in Thetas, Atop(theta) PROVE BoundInv'
  <2> DEFINE p == [pbn EXCEPT !.sector = 0]
             width == g4_sector_width(disk, p, 1)
  <2>1. width # 0
    <3>1. disk.remaps = <<>>
      BY DEF Tiled
    <3>2. \A q : ~PbnRemapped(disk, q)
      BY <3>1, NoRemap
    <3>3. g4_sector_width(disk, pbn, 1) # 0
      BY <1>7 DEF Atop, AtopBy
    <3>4. PbnPath(disk, pbn) # <<>>
      BY <3>2, <3>3 DEF g4_sector_width
    <3>5. p.cyl = pbn.cyl /\ p.head = pbn.head /\ p.sector = 0
          /\ pbn.cyl \in Int /\ pbn.sector \in Int
      BY DEF SkewInv, PbnType
    <3> HIDE DEF p
    <3>6. PbnPath(disk, p) # <<>> /\ TrackOf(PbnPath(disk, p)).spt = TrackOf(PbnPath(disk, pbn)).spt
      BY <1>0, <3>4, <3>5, TrackTurns
    <3> QED
      BY <3>2, <3>3, <3>4, <3>6 DEF g4_sector_width
  <2>2. AtopBy(width, theta)
    BY <1>7 DEF Atop
  <2> HIDE DEF width
  <2> QED
    BY <2>1, <2>2 DEF AtopBy, BoundInv, Done, bounds
<1>8. ASSUME Ptol PROVE BoundInv'
  <2>1. from' = from /\ pbn' = pbn /\ Returns("ptol", 0, ptol(disk, pbn), 0)
    BY <1>8 DEF Ptol, client
  <2>2. from # -1 => ptol(disk, pbn) = from
    BY SectorIs DEF BoundInv, Followed
  <2> QED
    BY <2>1, <2>2, ReturnsBound
<1>9. ASSUME SectorsPbn PROVE BoundInv'
  BY <1>9, ReturnsBound DEF SectorsPbn, client
<1>10. ASSUME Skew PROVE BoundInv'
  BY <1>10, ReturnsBound DEF Skew, client
<1>11. ASSUME Use PROVE BoundInv'
  BY <1>11 DEF Use, NoCall, BoundInv, Followed, Done, client
<1>12. ASSUME NEW w \in Wanted, TrackBound(w) PROVE BoundInv'
  <2>1. /\ from # -1 /\ call' = "bound" /\ want' = w /\ out' = g4_spt_pbn(disk, pbn)
        /\ pc' = (IF w.l0 THEN "first" ELSE "last")
        /\ pi' = (IF w.l0 THEN 0 ELSE out' - 1)
        /\ disk' = disk /\ pbn' = pbn /\ from' = from
    BY <1>12 DEF TrackBound, LastSector, client
  <2>2. w \in [l0 : BOOLEAN, ln : BOOLEAN] /\ (~w.l0 => w.ln)
    BY DEF Wanted
  <2>3. Followed /\ Followed'
    BY <2>1 DEF BoundInv, Followed
  <2> DEFINE n == g4_spt_pbn(disk, pbn)
  <2>4. n \in Nat /\ pbn.sector \in 0 .. n - 1
    BY <2>3, FollowedTrack
  <2>5. out' = n /\ g4_spt_pbn(disk, pbn)' = n
    BY <2>1
  <2> HIDE DEF n
  <2>6. CASE w.l0
    <3>1. pc' = "first" /\ pi' = 0 /\ pi' \in 0 .. pbn.sector /\ 0 .. pi' - 1 = {}
      BY <2>1, <2>4, <2>6
    <3> QED
      BY <2>1, <2>2, <2>3, <2>5, <2>6, <3>1 DEF BoundInv, Done
  <2>7. CASE ~w.l0
    <3>1. pc' = "last" /\ pi' = n - 1 /\ pi' \in pbn.sector .. n - 1 /\ pi' + 1 .. n - 1 = {}
      BY <2>1, <2>4, <2>5, <2>7
    <3> QED
      BY <2>1, <2>2, <2>3, <2>5, <2>7, <3>1 DEF BoundInv, Done
  <2> QED
    BY <2>6, <2>7
<1>13. ASSUME BoundStep PROVE BoundInv'
  <2> DEFINE n == g4_spt_pbn(disk, pbn)
  <2>1. pc \in {"first", "last"} /\ UNCHANGED <<disk, pbn, from, call, ret, out, want>>
    BY <1>13 DEF BoundStep, FirstLoop, FirstFound, LastLoop, LastFound, client, result
  <2>2. Followed /\ from # -1 /\ out = n /\ call = "bound"
    BY <2>1 DEF BoundInv, SkewInv
  <2>3. /\ n \in Nat /\ pbn.sector \in 0 .. n - 1 /\ SectorLbn(pbn.sector) = from /\ from \in Nat
        /\ disk.sectors \in Nat
    BY <2>2, FollowedTrack
  <2>4. pc = "first" => pi \in 0 .. pbn.sector
    BY DEF BoundInv
  <2>5. pc = "last" => pi \in pbn.sector .. n - 1
    BY <2>2 DEF BoundInv
  <2>6. Followed' /\ out' = g4_spt_pbn(disk, pbn)' /\ TrackLbns(pbn)' = TrackLbns(pbn)
        /\ \A k : SectorLbn(k)' = SectorLbn(k)
    BY <2>1, <2>2 DEF Followed, SectorLbn, TrackLbns
  <2> HIDE DEF n
  <2>7. pi \in 0 .. n - 1 /\ pi \in Int
    BY <2>1, <2>3, <2>4, <2>5
  <2>8. Tried = SectorLbn(pi) /\ pi < IntMax /\ IntMax \in Nat
    BY <1>0, <2>2, <2>7, TriedIs, ClientAssumption DEF n
  <2>9. CASE FirstLoop
    <3>1. pc = "first" /\ pc' = "first" /\ SectorLbn(pi) < 0 /\ pi' = pi + 1
      <4>1. pi # IntMax
        BY <2>7, <2>8
      <4> QED
        BY <2>8, <2>9, <4>1 DEF FirstLoop
    <3>2. pi # pbn.sector
      BY <2>3, <3>1
    <3>3. pi' \in 0 .. pbn.sector
      BY <2>3, <2>4, <3>1, <3>2
    <3>4. ASSUME NEW k \in 0 .. pi' - 1 PROVE SectorLbn(k) < 0
      <4>1. k = pi \/ k \in 0 .. pi - 1
        BY <2>7, <3>1
      <4> QED
        BY <3>1, <4>1 DEF BoundInv
    <3>5. want.l0
      BY <3>1 DEF BoundInv
    <3>6. \A k \in 0 .. pi' - 1 : SectorLbn(k)' < 0
      BY <2>6, <3>4
    <3> QED
      BY <2>1, <2>2, <2>6, <3>1, <3>3, <3>5, <3>6 DEF BoundInv, Done
  <2>10. CASE FirstFound
    <3>1. /\ pc = "first" /\ SectorLbn(pi) >= 0 /\ l0' = SectorLbn(pi)
          /\ pc' = (IF SectorLbn(pi) >= disk.sectors THEN "aborted"
                    ELSE IF want.ln THEN "last" ELSE "done")
          /\ pi' = (IF pc' = "last" THEN out - 1 ELSE 0)
      BY <2>8, <2>10 DEF FirstFound, LastSector
    <3>2. \A k \in 0 .. pi - 1 : SectorLbn(k) < 0
      BY <3>1 DEF BoundInv
    <3>3. SectorLbn(pi) < disk.sectors /\ IsFirst(SectorLbn(pi), TrackLbns(pbn))
      BY <2>2, <2>4, <3>1, <3>2, FirstSector
    <3>4. IsFirst(l0, TrackLbns(pbn))'
      BY <2>6, <3>1, <3>3 DEF IsFirst
    <3>5. pc' = (IF want.ln THEN "last" ELSE "done")
      <4>1. SectorLbn(pi) \in Nat
        <5>1. TrackLbns(pbn) \subseteq 0 .. disk.sectors - 1
          BY DEF TrackLbns
        <5>2. SectorLbn(pi) \in 0 .. disk.sectors - 1
          BY <3>3, <5>1 DEF IsFirst
        <5> QED
          BY <2>3, <5>2
      <4>2. ~(SectorLbn(pi) >= disk.sectors)
        BY <2>3, <3>3, <4>1
      <4> QED
        BY <3>1, <4>2
    <3>6. CASE want.ln
      <4>1. pc' = "last" /\ pi' = n - 1 /\ pi' \in pbn.sector .. n - 1 /\ pi' + 1 .. n - 1 = {}
        BY <2>2, <2>3, <3>1, <3>5, <3>6
      <4> QED
        BY <2>1, <2>2, <2>6, <3>4, <3>6, <4>1 DEF BoundInv, Done
    <3>7. CASE ~want.ln
      <4>1. pc' = "done"
        BY <3>5, <3>7
      <4> QED
        BY <2>1, <2>2, <2>6, <3>4, <3>7, <4>1 DEF BoundInv, Done
    <3> QED
      BY <3>6, <3>7
  <2>11. CASE LastLoop
    <3>1. pc = "last" /\ SectorLbn(pi) < 0 /\ pi' = pi - 1 /\ l0' = l0
          /\ pc' = (IF pi' >= 0 THEN "last" ELSE "aborted")
      BY <2>8, <2>11 DEF LastLoop
    <3>2. pi # pbn.sector
      BY <2>3, <3>1
    <3>3. pi' \in pbn.sector .. n - 1 /\ pi' >= 0
      BY <2>3, <2>5, <3>1, <3>2
    <3>4. ASSUME NEW k \in pi' + 1 .. n - 1 PROVE SectorLbn(k) < 0
      <4>1. k = pi \/ k \in pi + 1 .. n - 1
        BY <2>7, <3>1
      <4> QED
        BY <2>2, <3>1, <4>1 DEF BoundInv
    <3>5. want.ln /\ (want.l0 => IsFirst(l0, TrackLbns(pbn)))
      BY <3>1 DEF BoundInv
    <3>6. (want.l0 => IsFirst(l0, TrackLbns(pbn)))'
      BY <2>1, <2>6, <3>1, <3>5 DEF IsFirst
    <3>7. \A k \in pi' + 1 .. n - 1 : SectorLbn(k)' < 0
      BY <2>6, <3>4
    <3> QED
      BY <2>1, <2>2, <2>6, <3>1, <3>3, <3>5, <3>6, <3>7 DEF BoundInv, Done
  <2>12. CASE LastFound
    <3>1. /\ pc = "last" /\ SectorLbn(pi) >= 0 /\ ln' = SectorLbn(pi) /\ l0' = l0
          /\ pc' = (IF SectorLbn(pi) >= disk.sectors \/ (want.l0 /\ l0 > SectorLbn(pi))
                    THEN "aborted" ELSE "done")
      BY <2>8, <2>12 DEF LastFound
    <3>2. \A k \in pi + 1 .. n - 1 : SectorLbn(k) < 0
      BY <2>2, <3>1 DEF BoundInv
    <3>3. SectorLbn(pi) < disk.sectors /\ IsLast(SectorLbn(pi), TrackLbns(pbn))
      BY <2>2, <2>5, <3>1, <3>2, LastSectorOn DEF n
    <3>4. IsLast(ln, TrackLbns(pbn))'
      BY <2>6, <3>1, <3>3 DEF IsLast
    <3>5. want.l0 => IsFirst(l0, TrackLbns(pbn))
      BY <3>1 DEF BoundInv
    <3>6. (want.l0 => IsFirst(l0, TrackLbns(pbn)))'
      BY <2>1, <2>6, <3>1, <3>5 DEF IsFirst
    <3>7. pc' = "done"
      <4>1. TrackLbns(pbn) \subseteq 0 .. disk.sectors - 1
        BY DEF TrackLbns
      <4>2. SectorLbn(pi) \in Nat
        <5>1. SectorLbn(pi) \in 0 .. disk.sectors - 1
          BY <3>3, <4>1 DEF IsLast
        <5> QED
          BY <2>3, <5>1
      <4>3. want.l0 => l0 \in Nat /\ l0 <= SectorLbn(pi)
        <5>1. want.l0 => l0 \in TrackLbns(pbn)
          BY <3>5 DEF IsFirst
        <5>2. want.l0 => l0 \in 0 .. disk.sectors - 1 /\ l0 <= SectorLbn(pi)
          BY <3>3, <4>1, <5>1 DEF IsLast
        <5> QED
          BY <2>3, <5>2
      <4> QED
        BY <2>3, <3>1, <3>3, <4>2, <4>3
    <3> QED
      BY <2>1, <2>2, <2>6, <3>4, <3>6, <3>7 DEF BoundInv, Done
  <2> QED
    BY <1>13, <2>9, <2>10, <2>11, <2>12 DEF BoundStep
<1>14. ASSUME UNCHANGED vars PROVE BoundInv'
  BY <1>14 DEF vars, client, result, bounds, BoundInv, Done, Followed, SectorLbn, TrackLbns
<1> QED
  BY <1>1, <1>2, <1>3, <1>4, <1>5, <1>6, <1>7, <1>8, <1>9, <1>10, <1>11, <1>12, <1>13, <1>14 DEF Next

LEMMA DiskStays == [Next]_vars => disk' = disk
<1> SUFFICES ASSUME [Next]_vars PROVE disk' = disk
  OBVIOUS
<1>1. ASSUME NEW p, Point(p) PROVE disk' = disk
  BY <1>1 DEF Point
<1>2. ASSUME NEW l, Ltop(l) \/ SectorsLbn(l) \/ ZoneIdByLbn(l) PROVE disk' = disk
  BY <1>2 DEF Ltop, LtopReturns, SectorsLbn, ZoneIdByLbn, Returns
<1>3. ASSUME NEW c, PbnByAbsCyl(c) PROVE disk' = disk
  BY <1>3 DEF PbnByAbsCyl, Returns
<1>4. ASSUME NEW x, SectorWidth(x) \/ Atop(x) PROVE disk' = disk
  BY <1>4 DEF SectorWidth, Atop, AtopBy, Returns
<1>5. ASSUME Ptol \/ SectorsPbn \/ Skew \/ Use PROVE disk' = disk
  BY <1>5 DEF Ptol, SectorsPbn, Skew, Use, Returns
<1>6. ASSUME NEW w, TrackBound(w) PROVE disk' = disk
  BY <1>6 DEF TrackBound
<1>7. ASSUME BoundStep PROVE disk' = disk
  BY <1>7 DEF BoundStep, FirstLoop, FirstFound, LastLoop, LastFound
<1>8. ASSUME UNCHANGED vars PROVE disk' = disk
  BY <1>8 DEF vars
<1> QED
  BY <1>1, <1>2, <1>3, <1>4, <1>5, <1>6, <1>7, <1>8 DEF Next

\* The run's property, for disks of any size that their layout files tile: asked with a
\* sector that ltop gave, g4_track_bound answers with the first and last LBN of the track,
\* and neither its assertions nor g4_atop's division fail in any sequence of calls.
THEOREM BoundsOfTiledDisks ==
  ASSUME ~BlindBounds
  PROVE  Spec => [](Tiled(disk) => BoundsAnswer)
<1> DEFINE Inv == SkewInv /\ (Tiled(disk) => BoundInv)
<1>1. Init => Inv
  BY InitSkew, InitBound
<1>2. Inv /\ [Next]_vars => Inv'
  <2> SUFFICES ASSUME Inv, [Next]_vars, Tiled(disk)' PROVE BoundInv'
    BY NextSkew
  <2>1. disk' = disk
    BY DiskStays
  <2>2. Tiled(disk)
    BY <2>1
  <2> QED
    BY <2>2, NextBound
<1>3. Inv => (Tiled(disk) => BoundsAnswer)
  <2> SUFFICES ASSUME Inv, Tiled(disk) PROVE BoundsAnswer
    OBVIOUS
  <2>1. BoundInv
    OBVIOUS
  <2>2. Done("bound") => from # -1 /\ Followed /\ from \in TrackLbns(pbn)
    BY <2>1, FollowedTrack DEF BoundInv
  <2>3. NeverAborts
    BY <2>1 DEF BoundInv, NeverAborts
  <2>4. BoundsOfTrack
    BY <2>1, <2>2 DEF BoundInv, BoundsOfTrack, IsFirst, IsLast
  <2> QED
    BY <2>3, <2>4 DEF BoundsAnswer
<1> HIDE DEF Inv
<1> QED
  BY <1>1, <1>2, <1>3, PTL DEF Spec

\* dm_testsuite.c's loop over the LBNs of a disk, on tiled disks of any size: translating
\* an LBN to its sector and back ends at that LBN, whatever was called in between.
THEOREM TiledDisksTranslateBack ==
  ASSUME ~BlindBounds
  PROVE  Spec => [](Tiled(disk) => RoundTrip)
<1> DEFINE Inv == SkewInv /\ (Tiled(disk) => BoundInv)
<1>1. Init => Inv
  BY InitSkew, InitBound
<1>2. Inv /\ [Next]_vars => Inv'
  <2> SUFFICES ASSUME Inv, [Next]_vars, Tiled(disk)' PROVE BoundInv'
    BY NextSkew
  <2>1. disk' = disk
    BY DiskStays
  <2>2. Tiled(disk)
    BY <2>1
  <2> QED
    BY <2>2, NextBound
<1>3. Inv => (Tiled(disk) => RoundTrip)
  BY DEF BoundInv, RoundTrip
<1> HIDE DEF Inv
<1> QED
  BY <1>1, <1>2, <1>3, PTL DEF Spec

-----------------------------------------------------------------------------
(* The numbers of the sectors of a G1 band *)

\* A band of a disk that has heads, sectors and cylinders.
IsBand(d, b) ==
  /\ d.heads \in Nat \ {0}
  /\ b.spt \in Nat \ {0}
  /\ b.low \in Nat

\* The sectors of a band, with those of the cylinders after it.
SectorsFrom(d, b) ==
  [cyl : { c \in Nat : c >= b.low }, head : 0 .. d.heads - 1, sector : 0 .. b.spt - 1]

\* Dividing by a product is dividing twice.
LEMMA DividedTwice ==
  ASSUME NEW n \in Nat \ {0}, NEW h \in Nat \ {0},
         NEW c \in Nat, NEW s \in 0 .. h - 1, NEW r \in 0 .. n - 1
  PROVE  LET a == (c * h + s) * n + r
         IN  /\ n * h \in Nat \ {0}
             /\ a \in Nat
             /\ a \div (n * h) = c
             /\ (a % (n * h)) \div n = s
             /\ a % n = r
<1> DEFINE a == (c * h + s) * n + r
           rest == s * n + r
           big == n * h
<1>1. c * h + s \in Nat
  OBVIOUS
<1>2. a \in Nat /\ a % n = r
  <2> DEFINE t == c * h + s
  <2>1. t \in Nat
    BY <1>1
  <2> HIDE DEF t
  <2>2. t * n + r \in Nat /\ (t * n + r) % n = r
    BY <2>1, DivisionOnly
  <2> QED
    BY <2>2 DEF t
<1>3. big \in Nat \ {0}
  <2>1. h * n >= n
    BY AtLeast
  <2> QED
    BY <2>1
<1>4. rest \in 0 .. big - 1
  <2>1. rest \in Nat
    OBVIOUS
  <2>2. (h - s) * n >= n
    BY AtLeast
  <2>3. (h - s) * n = h * n - s * n
    OBVIOUS
  <2>4. h * n = n * h
    OBVIOUS
  <2> QED
    BY <2>1, <2>2, <2>3, <2>4
<1>5. a = c * big + rest
  OBVIOUS
<1> HIDE DEF big, rest, a
<1>6. a \div big = c /\ a % big = rest
  BY <1>3, <1>4, <1>5, DivisionOnly
<1>7. rest \div n = s
  BY DivisionOnly DEF rest
<1> QED
  BY <1>2, <1>3, <1>6, <1>7 DEF big, a

\* Turning the heads around twice leaves them as they are.
LEMMA TurnedTwice ==
  ASSUME NEW d, NEW b, IsBand(d, b), NEW cyl, NEW head \in 0 .. d.heads - 1
  PROVE  /\ G1!surfno_on_cyl(d, b, cyl, head) \in 0 .. d.heads - 1
         /\ G1!surfno_on_cyl(d, b, cyl, G1!surfno_on_cyl(d, b, cyl, head)) = head
  BY DEF G1!surfno_on_cyl, IsBand

\* The sector found by the number of a sector is that sector, whatever the size of band and
\* disk and however heads are mapped: what ltop finds at a number that ptol gave a sector
\* (g1_surfno_on_cyl and the numbers of layout_g1.c:550-553, which every search starts from).
THEOREM PlaceOfNumber ==
  ASSUME NEW d, NEW b, IsBand(d, b), NEW p \in SectorsFrom(d, b)
  PROVE  G1!PlaceAt(d, b, G1!Number(d, b, p)) = p
<1> DEFINE c == p.cyl - b.low
           s == G1!surfno_on_cyl(d, b, p.cyl, p.head)
           at == (c * d.heads + s) * b.spt + p.sector
<1>1. /\ p.cyl \in Nat /\ p.head \in 0 .. d.heads - 1 /\ p.sector \in 0 .. b.spt - 1
      /\ c \in Nat /\ b.low + c = p.cyl
      /\ p = [cyl |-> p.cyl, head |-> p.head, sector |-> p.sector]
  BY DEF SectorsFrom, IsBand
<1>2. s \in 0 .. d.heads - 1 /\ G1!surfno_on_cyl(d, b, p.cyl, s) = p.head
  BY <1>1, TurnedTwice
<1>3. G1!Number(d, b, p) = at
  BY DEF G1!Number, G1!FirstNumber, G1!TrackNumber
<1> DEFINE n == b.spt
           h == d.heads
           r == p.sector
<1>4. /\ n \in Nat \ {0} /\ h \in Nat \ {0} /\ c \in Nat
      /\ s \in 0 .. h - 1 /\ r \in 0 .. n - 1 /\ at = (c * h + s) * n + r
  BY <1>1, <1>2 DEF IsBand
<1> HIDE DEF c, s, n, h, r, at
<1>5. at \div (n * h) = c /\ (at % (n * h)) \div n = s /\ at % n = r
  BY <1>4, DividedTwice
<1>6. G1!PlaceAt(d, b, at) = [cyl |-> b.low + c, head |-> G1!surfno_on_cyl(d, b, b.low + c, s), sector |-> r]
  BY <1>5 DEF G1!PlaceAt, G1!OnCylinder, n, h
<1> QED
  BY <1>1, <1>2, <1>3, <1>6 DEF r

\* The other way around: what ltop finds at a number is a sector of the disk, its head and
\* sector in range, and the sector ptol gives that number.
THEOREM NumberOfPlace ==
  ASSUME NEW d, NEW b, IsBand(d, b), NEW at \in Nat
  PROVE  G1!PlaceAt(d, b, at) \in SectorsFrom(d, b) /\ G1!Number(d, b, G1!PlaceAt(d, b, at)) = at
<1> DEFINE n == b.spt
           h == d.heads
           track == at \div n
           r == at % n
           c == track \div h
           s == track % h
<1>1. n \in Nat \ {0} /\ h \in Nat \ {0} /\ b.low \in Nat
  BY DEF IsBand
<1> HIDE DEF n, h
<1>2. track \in Nat /\ r \in 0 .. n - 1 /\ at = track * n + r
  <2>1. track \in Nat
    BY <1>1, DivisionNat
  <2>2. r \in 0 .. n - 1 /\ at = track * n + r
    BY <1>1, DivisionIs
  <2> QED
    BY <2>1, <2>2
<1> HIDE DEF track, r
<1>3. c \in Nat /\ s \in 0 .. h - 1 /\ track = c * h + s
  <2>1. c \in Nat
    BY <1>1, <1>2, DivisionNat
  <2>2. s \in 0 .. h - 1 /\ track = c * h + s
    BY <1>1, <1>2, DivisionIs
  <2> QED
    BY <2>1, <2>2
<1> HIDE DEF c, s
<1>4. at = (c * h + s) * n + r
  BY <1>2, <1>3
<1>5. at \div (n * h) = c /\ (at % (n * h)) \div n = s /\ at % n = r
  BY <1>1, <1>2, <1>3, <1>4, DividedTwice
<1> DEFINE p == G1!PlaceAt(d, b, at)
<1>6. p = [cyl |-> b.low + c, head |-> G1!surfno_on_cyl(d, b, b.low + c, s), sector |-> r]
  BY <1>5 DEF G1!PlaceAt, G1!OnCylinder, n, h
<1> HIDE DEF p
<1>7. G1!surfno_on_cyl(d, b, b.low + c, s) \in 0 .. h - 1
  BY <1>3, TurnedTwice DEF h
<1>8. G1!surfno_on_cyl(d, b, b.low + c, G1!surfno_on_cyl(d, b, b.low + c, s)) = s
  BY <1>3, TurnedTwice DEF h
<1>9. p \in SectorsFrom(d, b)
  BY <1>1, <1>2, <1>3, <1>6, <1>7 DEF SectorsFrom, n, h
<1>10. G1!Number(d, b, p) = (c * h + s) * n + r
  <2>1. p.cyl = b.low + c /\ p.head = G1!surfno_on_cyl(d, b, b.low + c, s) /\ p.sector = r
    BY <1>6
  <2>2. p.cyl - b.low = c
    BY <1>1, <1>3, <2>1
  <2>3. G1!surfno_on_cyl(d, b, p.cyl, p.head) = s
    BY <1>8, <2>1
  <2>4. h = d.heads /\ n = b.spt
    BY DEF h, n
  <2>5. G1!TrackNumber(d, b, p) = (p.cyl - b.low) * d.heads + G1!surfno_on_cyl(d, b, p.cyl, p.head)
    BY DEF G1!TrackNumber
  <2>6. G1!TrackNumber(d, b, p) = c * h + s
    BY <2>2, <2>3, <2>4, <2>5
  <2>7. G1!Number(d, b, p) = G1!TrackNumber(d, b, p) * b.spt + p.sector
    BY DEF G1!Number, G1!FirstNumber
  <2> QED
    BY <2>1, <2>4, <2>6, <2>7
<1> QED
  BY <1>4, <1>9, <1>10 DEF p
=============================================================================

------------------------- MODULE MechServiceProofs --------------------------
(***************************************************************************)
(* What the service of a request rests on, for any angles, grains, times   *)
(* and layout files: rotation and rotational latency undo each other to    *)
(* the precision of their grains; what a client gets from a layout that    *)
(* keeps its promises; and, for index trees of any depth, that the         *)
(* recursions of the G4 maps end, where their paths lead, and that such a  *)
(* layout keeps the promise about the sectors of a track.                  *)
(***************************************************************************)
EXTENDS MechService, SequenceTheorems, NaturalsInduction, WellFoundedInduction, TLAPS

-----------------------------------------------------------------------------
(* Division *)

LEMMA AtLeast ==
  ASSUME NEW x \in Int, x >= 1, NEW n \in Nat
  PROVE  x * n >= n
<1>1. (x - 1) * n >= 0
  OBVIOUS
<1>2. (x - 1) * n = x * n - n
  OBVIOUS
<1> QED
  BY <1>1, <1>2

\* n > 0 multiples of which are less than n apart are one.
LEMMA OneMultiple ==
  ASSUME NEW n \in Nat \ {0}, NEW j \in Int, NEW k \in Int, j * n - k * n < n, k * n - j * n < n
  PROVE  j = k
<1>1. ~(j - k >= 1)
  <2> SUFFICES ASSUME j - k >= 1 PROVE FALSE
    OBVIOUS
  <2>1. (j - k) * n >= n
    BY AtLeast
  <2>2. (j - k) * n = j * n - k * n
    OBVIOUS
  <2> QED
    BY <2>1, <2>2
<1>2. ~(k - j >= 1)
  <2> SUFFICES ASSUME k - j >= 1 PROVE FALSE
    OBVIOUS
  <2>1. (k - j) * n >= n
    BY AtLeast
  <2>2. (k - j) * n = k * n - j * n
    OBVIOUS
  <2> QED
    BY <2>1, <2>2
<1> QED
  BY <1>1, <1>2

LEMMA DivisionIs ==
  ASSUME NEW a \in Int, NEW n \in Nat \ {0}
  PROVE  /\ a \div n \in Int /\ a % n \in 0 .. n - 1
         /\ a = (a \div n) * n + (a % n)
  OBVIOUS

LEMMA DivisionNat ==
  ASSUME NEW a \in Nat, NEW n \in Nat \ {0}
  PROVE  a \div n \in Nat
  OBVIOUS

\* Quotient and remainder are the only ones.
LEMMA DivisionOnly ==
  ASSUME NEW n \in Nat \ {0}, NEW q \in Int, NEW r \in 0 .. n - 1
  PROVE  (q * n + r) \div n = q /\ (q * n + r) % n = r
<1> DEFINE a == q * n + r
           k == a \div n
           m == a % n
<1>1. a \in Int
  OBVIOUS
<1> HIDE DEF a
<1>2. k \in Int /\ m \in 0 .. n - 1 /\ a = k * n + m
  BY <1>1, DivisionIs
<1> HIDE DEF k, m
<1>3. q * n + r = k * n + m
  BY <1>2 DEF a
<1>4. q * n \in Int /\ k * n \in Int
  BY <1>2
<1>5. q * n - k * n < n /\ k * n - q * n < n
  BY <1>2, <1>3, <1>4
<1>6. q = k
  BY <1>2, <1>5, OneMultiple
<1>7. r = m
  BY <1>2, <1>3, <1>6
<1> QED
  BY <1>6, <1>7 DEF k, m, a

\* Rounding down a sum and its terms.
LEMMA DivisionOfSum ==
  ASSUME NEW a \in Int, NEW b \in Int, NEW n \in Nat \ {0}
  PROVE  \E e \in {0, 1} : (a + b) \div n = (a \div n) + (b \div n) + e
<1> DEFINE i == a \div n
           j == b \div n
           x == a % n
           y == b % n
<1>1. i \in Int /\ x \in 0 .. n - 1 /\ a = i * n + x
  BY DivisionIs
<1>2. j \in Int /\ y \in 0 .. n - 1 /\ b = j * n + y
  BY DivisionIs
<1> HIDE DEF i, j, x, y
<1>3. CASE x + y < n
  <2>1. a + b = (i + j) * n + (x + y)
    BY <1>1, <1>2
  <2>2. x + y \in 0 .. n - 1 /\ i + j \in Int
    BY <1>1, <1>2, <1>3
  <2>3. (a + b) \div n = i + j
    BY <2>1, <2>2, DivisionOnly
  <2> QED
    BY <2>3, <1>1, <1>2 DEF i, j
<1>4. CASE ~(x + y < n)
  <2> DEFINE q == i + j + 1
             r == x + y - n
  <2>1. a + b = q * n + r
    BY <1>1, <1>2
  <2>2. r \in 0 .. n - 1 /\ q \in Int
    BY <1>1, <1>2, <1>4
  <2> HIDE DEF q, r
  <2>3. (a + b) \div n = q
    BY <2>1, <2>2, DivisionOnly
  <2> QED
    BY <2>3, <1>1, <1>2 DEF q, i, j
<1> QED
  BY <1>3, <1>4

LEMMA GrainDivides ==
  ASSUME NEW c \in Nat \ {0}, NEW g \in Nat \ {0}, c % g = 0
  PROVE  c \div g \in Nat \ {0} /\ (c \div g) * g = c
<1>1. c \div g \in Nat
  BY DivisionNat
<1>2. c = (c \div g) * g + (c % g)
  BY DivisionIs
<1>3. (c \div g) * g = c
  BY <1>1, <1>2
<1>4. 0 * g = 0
  OBVIOUS
<1>5. c \div g # 0
  BY <1>3, <1>4
<1> QED
  BY <1>1, <1>3, <1>5

-----------------------------------------------------------------------------
(* Angles that differ by whole turns *)

Cong(a, b) == \E k \in Int : a = b + k * Circle

LEMMA AnglesType ==
  /\ Circle \in Nat \ {0} /\ Period \in Nat \ {0}
  /\ TimeGrain \in Nat \ {0} /\ AngleGrain \in Nat \ {0}
  /\ Circle \div TimeGrain \in Nat \ {0} /\ (Circle \div TimeGrain) * TimeGrain = Circle
  /\ Circle \div AngleGrain \in Nat \ {0} /\ (Circle \div AngleGrain) * AngleGrain = Circle
  /\ Circle \div Period \in Nat
  /\ Precision \in Nat /\ AngleGrain < Precision
<1>1. /\ Circle \in Nat \ {0} /\ Period \in Nat \ {0}
      /\ TimeGrain \in Nat \ {0} /\ AngleGrain \in Nat \ {0}
      /\ Circle % TimeGrain = 0 /\ Circle % AngleGrain = 0
  BY CircleAssumption, MechAssumption
<1>2. /\ Circle \div TimeGrain \in Nat \ {0} /\ (Circle \div TimeGrain) * TimeGrain = Circle
      /\ Circle \div AngleGrain \in Nat \ {0} /\ (Circle \div AngleGrain) * AngleGrain = Circle
  BY <1>1, GrainDivides
<1>3. Circle \div Period \in Nat
  BY <1>1, DivisionNat
<1> QED
  BY <1>1, <1>2, <1>3 DEF Precision

LEMMA CongMod ==
  ASSUME NEW a \in Int
  PROVE  a % Circle \in 0 .. Circle - 1 /\ Cong(a % Circle, a) /\ Cong(a, a % Circle)
<1> DEFINE q == a \div Circle
           m == a % Circle
<1>1. q \in Int /\ m \in 0 .. Circle - 1 /\ a = q * Circle + m
  BY DivisionIs, AnglesType
<1> HIDE DEF q, m
<1>2. m = a + (-q) * Circle /\ a = m + q * Circle /\ -q \in Int
  BY <1>1, AnglesType
<1>3. Cong(m, a) /\ Cong(a, m)
  BY <1>1, <1>2 DEF Cong
<1> QED
  BY <1>1, <1>3 DEF m

LEMMA CongOnly ==
  ASSUME NEW a, NEW r \in 0 .. Circle - 1, Cong(a, r)
  PROVE  a % Circle = r
<1>1. PICK k \in Int : a = r + k * Circle
  BY DEF Cong
<1>2. a = k * Circle + r
  BY <1>1, AnglesType
<1> QED
  BY <1>2, DivisionOnly, AnglesType

LEMMA CongSum ==
  ASSUME NEW a \in Int, NEW b \in Int, NEW c \in Int, NEW d \in Int, Cong(a, b), Cong(c, d)
  PROVE  Cong(a + c, b + d) /\ Cong(a - c, b - d)
<1>1. PICK i \in Int : a = b + i * Circle
  BY DEF Cong
<1>2. PICK j \in Int : c = d + j * Circle
  BY DEF Cong
<1>3. a + c = (b + d) + (i + j) * Circle /\ a - c = (b - d) + (i - j) * Circle
  BY <1>1, <1>2, AnglesType
<1>4. i + j \in Int /\ i - j \in Int
  OBVIOUS
<1> QED
  BY <1>3, <1>4 DEF Cong

LEMMA CongSame ==
  ASSUME NEW a \in Int
  PROVE  Cong(a, a)
<1>1. a = a + 0 * Circle
  BY AnglesType
<1> QED
  BY <1>1 DEF Cong

LEMMA CongTurned ==
  ASSUME NEW a \in Int, NEW b \in Int, Cong(a, b)
  PROVE  Cong(b, a)
<1>1. PICK k \in Int : a = b + k * Circle
  BY DEF Cong
<1>2. b = a + (-k) * Circle /\ -k \in Int
  BY <1>1, AnglesType
<1> QED
  BY <1>2 DEF Cong

LEMMA CongOn ==
  ASSUME NEW a \in Int, NEW b \in Int, NEW c \in Int, Cong(a, b), Cong(b, c)
  PROVE  Cong(a, c)
<1>1. Cong(a + b, b + c)
  BY CongSum
<1>2. Cong(a + b - b, b + c - b)
  BY <1>1, CongSame, CongSum
<1> QED
  BY <1>2

\* An angle that is less than p ahead of or behind another is less than p apart from it.
LEMMA ApartWithin ==
  ASSUME NEW a \in Int, NEW b \in Int, NEW c \in Int, NEW p \in Nat,
         Cong(a - b, c), c < p, -c < p
  PROVE  Apart(a, b) < p
<1>1. (a - b) % Circle \in 0 .. Circle - 1 /\ (b - a) % Circle \in 0 .. Circle - 1
  BY CongMod
<1>2. CASE c \in 0 .. Circle - 1
  <2>1. (a - b) % Circle = c
    BY <1>2, CongOnly
  <2> QED
    BY <1>1, <2>1 DEF Apart, Lesser
<1>3. CASE -c \in 0 .. Circle - 1
  <2>1. Cong(0 - (a - b), 0 - c)
    BY CongSame, CongSum
  <2>2. 0 - (a - b) = b - a /\ 0 - c = -c
    OBVIOUS
  <2>3. (b - a) % Circle = -c
    BY <1>3, <2>1, <2>2, CongOnly
  <2> QED
    BY <1>1, <2>3 DEF Apart, Lesser
<1>4. CASE ~(c \in 0 .. Circle - 1) /\ ~(-c \in 0 .. Circle - 1)
  <2>1. Circle \in Nat \ {0} /\ -c \in Int
    BY AnglesType
  <2>2. c > Circle - 1 \/ -c > Circle - 1
    BY <1>4, <2>1
  <2>3. Circle - 1 < p
    BY <2>1, <2>2
  <2> QED
    BY <1>1, <2>1, <2>3 DEF Apart, Lesser
<1> QED
  BY <1>2, <1>3, <1>4

-----------------------------------------------------------------------------
(* Rotation *)

\* dm_rotate before it is taken off whole turns.
Turn(time) == ((time * (Circle \div AngleGrain)) \div Period) * AngleGrain

LEMMA RotateIs ==
  ASSUME NEW t \in Int
  PROVE  /\ Turn(t) \in Int
         /\ dm_rotate(t) \in 0 .. Circle - 1
         /\ dm_rotate(t) \in Int
         /\ Cong(dm_rotate(t), Turn(t))
<1> DEFINE y == Circle \div AngleGrain
           z == (t * y) \div Period
<1>1. y \in Nat
  BY AnglesType
<1> HIDE DEF y
<1>2. t * y \in Int
  BY <1>1
<1>3. z \in Int
  BY <1>2, DivisionIs, AnglesType
<1> HIDE DEF z
<1>4. z * AngleGrain \in Int
  BY <1>3, AnglesType
<1>5. Turn(t) = z * AngleGrain
  BY DEF Turn, z, y
<1>6. dm_rotate(t) = Turn(t) % Circle
  BY DEF dm_rotate, Turn
<1>7. Turn(t) % Circle \in 0 .. Circle - 1 /\ Cong(Turn(t) % Circle, Turn(t))
  BY <1>4, <1>5, CongMod
<1>8. dm_rotate(t) \in Int
  BY <1>6, <1>7, AnglesType
<1> QED
  BY <1>4, <1>5, <1>6, <1>7, <1>8

LEMMA RotateZero == dm_rotate(0) = 0 /\ Turn(0) = 0
<1>1. 0 * (Circle \div AngleGrain) = 0
  BY AnglesType
<1>2. 0 \div Period = 0
  BY AnglesType
<1>3. 0 * AngleGrain = 0
  BY AnglesType
<1>4. Turn(0) = 0
  BY <1>1, <1>2, <1>3 DEF Turn
<1>5. 0 % Circle = 0
  BY AnglesType
<1> QED
  BY <1>1, <1>2, <1>3, <1>4, <1>5 DEF dm_rotate

\* Turning for two times after each other loses an angle at most, to rounding.
LEMMA TurnOfSum ==
  ASSUME NEW a \in Int, NEW b \in Int
  PROVE  \E e \in {0, 1} : Turn(a + b) = Turn(a) + Turn(b) + e * AngleGrain
<1> DEFINE y == Circle \div AngleGrain
           i == a * y
           j == b * y
<1>1. y \in Nat
  BY AnglesType
<1> HIDE DEF y
<1>2. i \in Int /\ j \in Int /\ (a + b) * y = i + j
  BY <1>1
<1> HIDE DEF i, j
<1> DEFINE n == Period
<1>0. n \in Nat \ {0}
  BY AnglesType
<1> HIDE DEF n
<1>3. PICK e \in {0, 1} : (i + j) \div n = (i \div n) + (j \div n) + e
  BY <1>0, <1>2, DivisionOfSum
<1> DEFINE v == i \div n
           w == j \div n
<1>4. v \in Int /\ w \in Int
  BY <1>0, <1>2, DivisionIs
<1>5. Turn(a) = v * AngleGrain /\ Turn(b) = w * AngleGrain
  BY DEF Turn, y, n, i, j
<1>6. Turn(a + b) = (v + w + e) * AngleGrain
  BY <1>2, <1>3 DEF Turn, y, n
<1> HIDE DEF v, w
<1>7. (v + w + e) * AngleGrain = v * AngleGrain + w * AngleGrain + e * AngleGrain
  BY <1>4, AnglesType
<1> QED
  BY <1>5, <1>6, <1>7

\* Whole turns do not matter.
LEMMA TurnOfPeriod ==
  ASSUME NEW a \in Int
  PROVE  a % Period \in 0 .. Period - 1 /\ Cong(Turn(a % Period), Turn(a))
<1> DEFINE y == Circle \div AngleGrain
           q == a \div Period
           m == a % Period
           i == m * y
           z == i \div Period
<1>1. y \in Nat /\ y * AngleGrain = Circle
  BY AnglesType
<1>2. q \in Int /\ m \in 0 .. Period - 1 /\ a = q * Period + m
  BY DivisionIs, AnglesType
<1> HIDE DEF y, q, m
<1>3. i \in Int /\ m \in Int
  BY <1>1, <1>2, AnglesType
<1>4. a * y = (q * y) * Period + i
  BY <1>1, <1>2, <1>3, AnglesType
<1>5. q * y \in Int
  BY <1>1, <1>2
<1> HIDE DEF i
<1> DEFINE r == i % Period
<1>6. z \in Int /\ r \in 0 .. Period - 1 /\ i = z * Period + r
  BY <1>3, DivisionIs, AnglesType
<1> HIDE DEF z, r
<1> DEFINE w == q * y
<1>7. w \in Int
  BY <1>5
<1> HIDE DEF w
<1>8. a * y = (w + z) * Period + r
  BY <1>4, <1>6, <1>7, AnglesType DEF w
<1>9. w + z \in Int
  BY <1>6, <1>7
<1>10. (a * y) \div Period = w + z
  BY <1>6, <1>8, <1>9, DivisionOnly, AnglesType
<1>11. Turn(a) = (w + z) * AngleGrain /\ Turn(m) = z * AngleGrain
  BY <1>10 DEF Turn, y, z, i
<1>12. w * AngleGrain = q * Circle
  BY <1>1, <1>2, AnglesType DEF w
<1>13. (w + z) * AngleGrain = q * Circle + z * AngleGrain
  BY <1>6, <1>7, <1>12, AnglesType
<1>14. z * AngleGrain = (q * Circle + z * AngleGrain) + (-q) * Circle /\ -q \in Int
  BY <1>2, <1>6, AnglesType
<1>15. Cong(Turn(m), Turn(a))
  BY <1>11, <1>13, <1>14 DEF Cong
<1> QED
  BY <1>2, <1>15 DEF m

-----------------------------------------------------------------------------
(* Rotational latency *)

LEMMA Positive ==
  ASSUME NEW f \in Int, NEW n \in Nat \ {0}, f * n > -n
  PROVE  f >= 0
<1>1. SUFFICES ASSUME ~(f >= 0) PROVE FALSE
  OBVIOUS
<1>2. -f \in Int /\ -f >= 1
  BY <1>1
<1>3. (-f) * n >= n
  BY <1>2, AtLeast
<1>4. (-f) * n = -(f * n)
  OBVIOUS
<1> QED
  BY <1>3, <1>4

\* Rounding an angle x down to grains of g, those to units of time of which p are one
\* turn of c, and the time to grains of h, loses less than a grain of each and what
\* passes in a unit of time.
LEMMA Rounding ==
  ASSUME NEW c \in Nat \ {0}, NEW p \in Nat \ {0}, NEW g \in Nat \ {0}, NEW h \in Nat \ {0},
         NEW n \in Nat \ {0}, NEW m \in Nat \ {0}, n * g = c, m * h = c,
         NEW q \in Nat, NEW t \in Nat, NEW k \in Int,
         NEW x0 \in 0 .. g - 1, NEW t0 \in 0 .. n - 1, NEW k0 \in 0 .. p - 1,
         NEW x \in Nat, x = q * g + x0, q * p = t * n + t0, t * m = k * p + k0
  PROVE  x - k * h \in 0 .. g + h + (c \div p) - 1
<1> DEFINE d == x - k * h
           i == c \div p
           r == c % p
<1>1. i \in Int /\ r \in 0 .. p - 1 /\ c = i * p + r
  BY DivisionIs
<1> HIDE DEF i, r
<1>2. d \in Int /\ d = x - k * h
  OBVIOUS
<1> HIDE DEF d
<1>3. d * p = x0 * p + t0 * g + k0 * h
  <2>1. d * p = x * p - (k * p) * h
    BY <1>2
  <2>2. x * p = (q * p) * g + x0 * p
    OBVIOUS
  <2>3. (q * p) * g = t * (n * g) + t0 * g
    OBVIOUS
  <2>4. t * (n * g) = (t * m) * h
    OBVIOUS
  <2>5. (t * m) * h = (k * p) * h + k0 * h
    OBVIOUS
  <2> DEFINE u == (k * p) * h
             v == k0 * h
             w == t0 * g
             y == x0 * p
  <2>6. u \in Int /\ v \in Int /\ w \in Int /\ y \in Int
    OBVIOUS
  <2>7. d * p = x * p - u /\ (t * m) * h = u + v /\ x * p = (q * p) * g + y
        /\ (q * p) * g = (t * m) * h + w
    BY <2>1, <2>2, <2>3, <2>4, <2>5
  <2> HIDE DEF u, v, w, y
  <2>8. d * p = y + w + v
    BY <2>6, <2>7
  <2> QED
    BY <2>8 DEF u, v, w, y
<1>4. x0 * p \in Nat /\ t0 * g \in Nat /\ k0 * h \in Nat
  OBVIOUS
<1>5. x0 * p <= g * p - p
  <2>1. (g - x0) * p >= p
    BY AtLeast
  <2>2. (g - x0) * p = g * p - x0 * p
    OBVIOUS
  <2> QED
    BY <2>1, <2>2, <1>4
<1>6. t0 * g <= c - g
  <2>1. (n - t0) * g >= g
    BY AtLeast
  <2>2. (n - t0) * g = n * g - t0 * g
    OBVIOUS
  <2> QED
    BY <2>1, <2>2, <1>4
<1>7. k0 * h <= h * p - h
  <2>1. (p - k0) * h >= h
    BY AtLeast
  <2>2. (p - k0) * h = h * p - k0 * h
    OBVIOUS
  <2> QED
    BY <2>1, <2>2, <1>4
<1>8. d >= 0
  BY <1>2, <1>3, <1>4, Positive
<1>9. g + h + i - 1 - d >= 0
  <2> DEFINE f == g + h + i - 1 - d
  <2>1. f \in Int
    BY <1>1, <1>2
  <2>2. f * p = g * p + h * p + i * p - p - d * p
    BY <1>1, <1>2
  <2> DEFINE u == g * p
             v == h * p
             w == i * p
             y == d * p
  <2>3. u \in Int /\ v \in Int /\ w \in Int /\ y \in Int
    BY <1>1, <1>2
  <2>4. y <= (u - p) + (c - g) + (v - h)
    BY <1>3, <1>4, <1>5, <1>6, <1>7
  <2>5. f * p = u + v + w - p - y /\ c = w + r
    BY <1>1, <2>2
  <2> HIDE DEF f, u, v, w, y
  <2>6. f * p > -p
    BY <1>1, <2>3, <2>4, <2>5
  <2>7. f >= 0
    BY <2>1, <2>6, Positive
  <2> QED
    BY <2>7 DEF f
<1> QED
  BY <1>1, <1>2, <1>8, <1>9 DEF d, i

\* Turning for the time from one angle to another leads from the one to the other, or
\* falls short of it by less than the precision.
LEMMA RottimeTurns ==
  ASSUME NEW a \in Int, NEW b \in Int
  PROVE  /\ dm_rottime(a, b) \in 0 .. Period - 1
         /\ \E short \in 0 .. Precision - 1 : Cong(b - a - Turn(dm_rottime(a, b)), short)
<1> DEFINE c == Circle
           p == Period
           g == TimeGrain
           h == AngleGrain
           n == Circle \div TimeGrain
           m == Circle \div AngleGrain
           x == (b - a) % Circle
           q == x \div g
           x0 == x % g
           y == q * p
           t == y \div n
           t0 == y % n
           z == t * m
           k == z \div p
           k0 == z % p
<1>1. /\ c \in Nat \ {0} /\ p \in Nat \ {0} /\ g \in Nat \ {0} /\ h \in Nat \ {0}
      /\ n \in Nat \ {0} /\ m \in Nat \ {0} /\ n * g = c /\ m * h = c
  BY AnglesType
<1>2. x \in 0 .. c - 1 /\ Cong(b - a, x)
  BY CongMod
<1>3. dm_rottime(a, b) = t
  BY DEF dm_rottime
<1>4. Turn(t) = k * h
  BY DEF Turn
<1>5. Precision = g + h + (c \div p)
  BY DEF Precision
<1> HIDE DEF c, p, g, h, n, m, x
<1>6. x \in Nat
  BY <1>1, <1>2
<1>g. g \in Nat \ {0}
  BY <1>1
<1>n. n \in Nat \ {0}
  BY <1>1
<1>p. p \in Nat \ {0}
  BY <1>1
<1>7. q \in Nat /\ x0 \in 0 .. g - 1 /\ x = q * g + x0
  <2>1. x \div g \in Nat
    BY <1>6, <1>g, DivisionNat
  <2>2. x % g \in 0 .. g - 1 /\ x = (x \div g) * g + (x % g)
    BY <1>6, <1>g, DivisionIs
  <2> QED
    BY <2>1, <2>2
<1> HIDE DEF q, x0
<1>8. y \in Nat /\ y = q * p
  BY <1>1, <1>7
<1> HIDE DEF y
<1>y. y \in Nat
  BY <1>8
<1>9. t \in Nat /\ t0 \in 0 .. n - 1 /\ y = t * n + t0
  <2>1. y \div n \in Nat
    BY <1>y, <1>n, DivisionNat
  <2>2. y % n \in 0 .. n - 1 /\ y = (y \div n) * n + (y % n)
    BY <1>y, <1>n, DivisionIs
  <2> QED
    BY <2>1, <2>2
<1> HIDE DEF t, t0
<1>10. z \in Nat /\ z = t * m
  BY <1>1, <1>9
<1> HIDE DEF z
<1>z. z \in Nat
  BY <1>10
<1>11. k \in Int /\ k0 \in 0 .. p - 1 /\ z = k * p + k0
  <2>1. z \div p \in Int /\ z % p \in 0 .. p - 1 /\ z = (z \div p) * p + (z % p)
    BY <1>z, <1>p, DivisionIs
  <2> QED
    BY <2>1
<1> HIDE DEF k, k0
<1>12. x - k * h \in 0 .. g + h + (c \div p) - 1
  <2>1. q * p = t * n + t0 /\ t * m = k * p + k0
    BY <1>8, <1>9, <1>10, <1>11
  <2> QED
    BY <1>1, <1>6, <1>7, <1>9, <1>11, <2>1, Rounding
<1>13. t <= p - 1
  <2>1. (n - 1 - q) * g > -g
    <3>1. (n - 1 - q) * g = n * g - g - q * g
      BY <1>1, <1>7
    <3>2. q * g \in Nat
      BY <1>1, <1>7
    <3> QED
      BY <1>1, <1>2, <1>7, <3>1, <3>2
  <2>2. n - 1 - q >= 0
    BY <1>1, <1>7, <2>1, Positive
  <2>3. (n - 1 - q) * p \in Nat
    BY <1>1, <1>7, <2>2
  <2>4. (n - 1 - q) * p = n * p - p - y
    BY <1>1, <1>7, <1>8
  <2>5. (p - 1 - t) * n = n * p - n - (t * n)
    BY <1>1, <1>9
  <2>6. n * p \in Int /\ t * n \in Int
    BY <1>1, <1>9
  <2>7. (p - 1 - t) * n > -n
    BY <1>1, <1>8, <1>9, <2>3, <2>4, <2>5, <2>6
  <2>8. p - 1 - t >= 0
    BY <1>1, <1>9, <2>7, Positive
  <2> QED
    BY <1>1, <1>9, <2>8
<1>14. Cong(b - a - k * h, x - k * h)
  <2>1. k * h \in Int
    BY <1>1, <1>11
  <2> QED
    BY <1>2, <1>6, <2>1, CongSame, CongSum
<1>15. x - k * h \in 0 .. Precision - 1
  <2>1. c \div p \in Int
    BY <1>1, DivisionIs
  <2>2. Precision - 1 = g + h + (c \div p) - 1
    BY <1>1, <1>5, <2>1
  <2> QED
    BY <1>12, <2>2
<1>16. t \in 0 .. Period - 1
  BY <1>1, <1>9, <1>13 DEF p
<1> QED
  BY <1>3, <1>4, <1>14, <1>15, <1>16

\* A seek that turns the disk by r from angle a, then the latency to angle b: the
\* rotation r2 over the whole time brings b under the head.
LEMMA SeekAndWait ==
  ASSUME NEW a \in Int, NEW b \in Int, NEW seek \in Int,
         NEW r \in Int, Cong(r, Turn(seek)),
         NEW wait, wait = dm_rottime((a + r) % Circle, b),
         NEW r2 \in Int, Cong(r2, Turn(seek + wait))
  PROVE  Apart(a + r2, b) < Precision
<1> DEFINE there == (a + r) % Circle
<1>1. there \in Int /\ Cong(there, a + r)
  <2>1. there \in 0 .. Circle - 1 /\ Cong(there, a + r)
    BY CongMod
  <2> QED
    BY <2>1, AnglesType
<1> HIDE DEF there
<1>2. wait = dm_rottime(there, b)
  BY DEF there
<1>3. PICK short \in 0 .. Precision - 1 : Cong(b - there - Turn(wait), short)
  BY <1>1, <1>2, RottimeTurns
<1>4. wait \in Int
  <2>1. wait \in 0 .. Period - 1
    BY <1>1, <1>2, RottimeTurns
  <2> QED
    BY <2>1, AnglesType
<1>5. PICK e \in {0, 1} : Turn(seek + wait) = Turn(seek) + Turn(wait) + e * AngleGrain
  BY <1>4, TurnOfSum
<1> DEFINE s == Turn(seek)
           w == Turn(wait)
           g == e * AngleGrain
           lost == g - short
<1>6. s \in Int /\ w \in Int /\ g \in Int /\ lost \in Int /\ short \in Int
  BY <1>4, RotateIs, AnglesType
<1>7. lost < Precision /\ -lost < Precision
  BY AnglesType
<1> HIDE DEF s, w, g
<1>8. Cong(r2, s + w + g) /\ Cong(r, s) /\ Cong(b - there - w, short)
  BY <1>3, <1>5 DEF s, w, g
<1> HIDE DEF lost
<1>9. Cong(a + r2 - b, lost)
  <2>1. Cong(there - (a + r), (a + r) - (a + r))
    BY <1>1, CongSame, CongSum
  <2>2. Cong(r2 - r, (s + w + g) - s)
    BY <1>6, <1>8, CongSum
  <2>3. Cong((r2 - r) - (b - there - w), ((s + w + g) - s) - short)
    BY <1>1, <1>6, <1>8, <2>2, CongSum
  <2>4. Cong(((r2 - r) - (b - there - w)) - (there - (a + r)),
             (((s + w + g) - s) - short) - ((a + r) - (a + r)))
    BY <1>1, <1>6, <2>1, <2>3, CongSum
  <2>5. /\ ((r2 - r) - (b - there - w)) - (there - (a + r)) = (a + r2 - b) + w
        /\ (((s + w + g) - s) - short) - ((a + r) - (a + r)) = lost + w
    BY <1>1, <1>6 DEF lost
  <2> DEFINE x == a + r2 - b
             y == x + w
             z == lost + w
  <2>6. Cong(y, z) /\ Cong(w, w)
    BY <1>6, <2>4, <2>5, CongSame
  <2>7. x \in Int /\ y \in Int /\ z \in Int /\ y - w = x /\ z - w = lost
    BY <1>6
  <2> HIDE DEF x, y, z
  <2>8. Cong(y - w, z - w)
    BY <1>6, <2>6, <2>7, CongSum
  <2>9. Cong(x, lost)
    BY <2>7, <2>8
  <2> QED
    BY <2>9 DEF x
<1>10. a + r2 \in Int /\ Precision \in Nat
  BY AnglesType
<1>11. Cong((a + r2) - b, lost)
  BY <1>9
<1> QED
  BY <1>6, <1>7, <1>10, <1>11, ApartWithin

\* A wait that is longer than the rotation from angle a to angle b leaves b behind, by
\* as far as the disk turns in the time it is longer.
LEMMA WaitTooLong ==
  ASSUME NEW a \in Int, NEW b \in Int, NEW late \in Int
  PROVE  Apart(a + dm_rotate(dm_rottime(a, b) + late), b + dm_rotate(late)) < Precision
<1> DEFINE gap == dm_rottime(a, b)
           s == Turn(gap)
           t == Turn(late)
           u == dm_rotate(gap + late)
           v == dm_rotate(late)
<1>1. PICK short \in 0 .. Precision - 1 : Cong(b - a - Turn(gap), short)
  BY RottimeTurns
<1>2. gap \in Int
  <2>1. gap \in 0 .. Period - 1
    BY RottimeTurns
  <2> QED
    BY <2>1, AnglesType
<1> HIDE DEF gap
<1>3. PICK e \in {0, 1} : Turn(gap + late) = Turn(gap) + Turn(late) + e * AngleGrain
  BY <1>2, TurnOfSum
<1> DEFINE g == e * AngleGrain
           lost == g - short
<1>4. /\ s \in Int /\ t \in Int /\ g \in Int /\ lost \in Int /\ short \in Int
      /\ u \in Int /\ Cong(u, Turn(gap + late)) /\ v \in Int /\ Cong(v, t)
  BY <1>2, RotateIs, AnglesType
<1>5. lost < Precision /\ -lost < Precision
  BY AnglesType
<1> HIDE DEF s, t, u, v, g
<1>6. Cong(u, s + t + g) /\ Cong(v, t) /\ Cong(b - a - s, short)
  BY <1>1, <1>3, <1>4 DEF s, t, g
<1> HIDE DEF lost
<1>7. Cong((a + u) - (b + v), lost)
  <2>1. Cong(u - v, (s + t + g) - t)
    BY <1>4, <1>6, CongSum
  <2>2. Cong((u - v) - (b - a - s), ((s + t + g) - t) - short)
    BY <1>4, <1>6, <2>1, CongSum
  <2> DEFINE x == (u - v) - (b - a - s)
             y == ((s + t + g) - t) - short
  <2>3. x \in Int /\ y \in Int /\ x - s = (a + u) - (b + v) /\ y - s = lost
    BY <1>4 DEF lost
  <2>4. Cong(x, y) /\ Cong(s, s)
    BY <1>4, <2>2, CongSame
  <2> HIDE DEF x, y
  <2>5. Cong(x - s, y - s)
    BY <1>4, <2>3, <2>4, CongSum
  <2> QED
    BY <2>3, <2>5
<1>8. a + u \in Int /\ b + v \in Int /\ Precision \in Nat
  BY <1>4, AnglesType
<1>9. Apart(a + u, b + v) < Precision
  BY <1>4, <1>5, <1>7, <1>8, ApartWithin
<1> QED
  BY <1>9 DEF u, v, gap

-----------------------------------------------------------------------------
(* Nearer angles come sooner *)

LEMMA DivisionGrows ==
  ASSUME NEW a \in Int, NEW b \in Int, NEW n \in Nat \ {0}, a <= b
  PROVE  a \div n <= b \div n
<1> DEFINE i == a \div n
           j == b \div n
           x == a % n
           y == b % n
<1>1. i \in Int /\ x \in 0 .. n - 1 /\ a = i * n + x
  BY DivisionIs
<1>2. j \in Int /\ y \in 0 .. n - 1 /\ b = j * n + y
  BY DivisionIs
<1> HIDE DEF i, j, x, y
<1>3. (j - i) * n = b - y - (a - x)
  BY <1>1, <1>2
<1>4. (j - i) * n > -n
  BY <1>1, <1>2, <1>3
<1>5. j - i >= 0
  BY <1>1, <1>2, <1>4, Positive
<1>6. i <= j
  BY <1>1, <1>2, <1>5
<1> QED
  BY <1>6 DEF i, j

LEMMA RottimeNat ==
  ASSUME NEW a \in Int, NEW b \in Int
  PROVE  dm_rottime(a, b) \in 0 .. Period - 1 /\ dm_rottime(a, b) \in Nat
<1>1. dm_rottime(a, b) \in 0 .. Period - 1
  BY RottimeTurns
<1> QED
  BY <1>1, AnglesType

LEMMA RottimeGrows ==
  ASSUME NEW a \in Int, NEW b \in Int, NEW c \in Int,
         (b - a) % Circle <= (c - a) % Circle
  PROVE  dm_rottime(a, b) <= dm_rottime(a, c)
<1> DEFINE u == (b - a) % Circle
           v == (c - a) % Circle
           i == u \div TimeGrain
           j == v \div TimeGrain
           n == Circle \div TimeGrain
<1>1. u \in Int /\ v \in Int /\ u <= v
  <2>1. u \in 0 .. Circle - 1 /\ v \in 0 .. Circle - 1
    BY CongMod
  <2> QED
    BY <2>1, AnglesType
<1>2. TimeGrain \in Nat \ {0} /\ n \in Nat \ {0} /\ Period \in Nat \ {0}
  BY AnglesType
<1> HIDE DEF u, v, n
<1>3. i \in Int /\ j \in Int /\ i <= j
  BY <1>1, <1>2, DivisionIs, DivisionGrows
<1> HIDE DEF i, j
<1>4. i * Period \in Int /\ j * Period \in Int
  BY <1>2, <1>3
<1>5. i * Period <= j * Period
  <2>1. (j - i) * Period \in Nat
    BY <1>2, <1>3
  <2>2. (j - i) * Period = j * Period - i * Period
    BY <1>2, <1>3
  <2> QED
    BY <2>1, <2>2, <1>4
<1>6. (i * Period) \div n <= (j * Period) \div n
  BY <1>2, <1>4, <1>5, DivisionGrows
<1> QED
  BY <1>6 DEF dm_rottime, u, v, i, j, n

\* From an angle that is sk ahead of first, the way on to one that is y ahead of it.
WayOn(sk, y) == IF y >= sk THEN y - sk ELSE y - sk + Circle

LEMMA Ahead ==
  ASSUME NEW theta \in Int, NEW first \in Int, NEW y \in 0 .. Circle - 1
  PROVE  /\ (first + y) % Circle \in Int
         /\ (((first + y) % Circle) - theta) % Circle = WayOn((theta - first) % Circle, y)
<1> DEFINE b  == (first + y) % Circle
           sk == (theta - first) % Circle
           r  == WayOn(sk, y)
<1>0. y \in Int /\ Circle \in Nat
  BY AnglesType
<1>1. b \in 0 .. Circle - 1 /\ Cong(b, first + y)
  BY <1>0, CongMod
<1>2. sk \in 0 .. Circle - 1 /\ Cong(theta - first, sk)
  BY CongMod
<1> HIDE DEF b, sk
<1>3. b \in Int /\ sk \in Int
  BY <1>0, <1>1, <1>2
<1>4. Cong(b - first, y) /\ Cong(b - first - (theta - first), y - sk)
  <2>1. Cong(first, first)
    BY CongSame
  <2>2. Cong(b - first, (first + y) - first) /\ (first + y) - first = y
    BY <1>0, <1>1, <1>3, <2>1, CongSum
  <2>3. b - first \in Int /\ theta - first \in Int
    BY <1>3
  <2> QED
    BY <1>0, <1>2, <1>3, <2>2, <2>3, CongSum
<1>5. b - first - (theta - first) = b - theta
  BY <1>3
<1>6. Cong(y - sk, r) /\ r \in 0 .. Circle - 1
  <2>1. CASE y >= sk
    <3>1. r = y - sk
      BY <2>1 DEF WayOn
    <3>2. Cong(y - sk, y - sk)
      BY <1>0, <1>3, CongSame
    <3> QED
      BY <1>0, <1>2, <1>3, <2>1, <3>1, <3>2
  <2>2. CASE ~(y >= sk)
    <3>1. r = y - sk + Circle
      BY <2>2 DEF WayOn
    <3>2. y - sk = (y - sk + Circle) + (-1) * Circle
      BY <1>0, <1>3
    <3>3. Cong(y - sk, r)
      BY <3>1, <3>2 DEF Cong
    <3> QED
      BY <1>0, <1>2, <1>3, <2>2, <3>1, <3>3
  <2> QED
    BY <2>1, <2>2
<1> HIDE DEF r
<1>7. r \in Int
  BY <1>0, <1>6
<1>8. Cong(b - theta, r)
  <2>1. Cong(b - theta, y - sk)
    BY <1>4, <1>5
  <2>2. b - theta \in Int /\ y - sk \in Int
    BY <1>0, <1>3
  <2> QED
    BY <1>6, <1>7, <2>1, <2>2, CongOn
<1>9. (b - theta) % Circle = r
  BY <1>6, <1>8, CongOnly
<1> QED
  BY <1>3, <1>9 DEF b, sk, r

\* No start of a sector is nearer than the next one.
LEMMA NextIsNearest ==
  ASSUME NEW sk \in 0 .. Circle - 1, NEW w \in 1 .. Circle, NEW k \in Nat, k * w < Circle
  PROVE  LET sec == NextStart(sk, w) \div w
         IN  /\ sec \in Nat /\ sec * w \in 0 .. Circle - 1
             /\ WayOn(sk, sec * w) <= WayOn(sk, k * w)
<1> DEFINE q   == sk \div w
           x   == sk % w
           raw == sk + w - x
           sec == NextStart(sk, w) \div w
           y   == k * w
<1>0. Circle \in Nat \ {0} /\ w \in Nat \ {0} /\ sk \in Nat
  BY AnglesType
<1>sk. sk \in Nat /\ sk \in Int
  BY <1>0
<1>w. w \in Nat \ {0}
  BY <1>0
<1>1. q \in Nat /\ x \in 0 .. w - 1 /\ sk = q * w + x
  <2>1. x \in 0 .. w - 1 /\ sk = q * w + x
    BY <1>sk, <1>w, DivisionIs
  <2>2. q \in Nat
    BY <1>sk, <1>w, DivisionNat
  <2> QED
    BY <2>1, <2>2
<1>2. y \in Nat /\ y < Circle
  BY <1>0
<1>3. NextStart(sk, w) = IF x = 0 THEN sk ELSE raw % Circle
  BY DEF NextStart
<1> HIDE DEF q, x
<1>4. raw = (q + 1) * w /\ raw \in Nat /\ q * w \in Nat
  BY <1>0, <1>1
<1>5. WayOn(sk, y) \in Nat
  BY <1>0, <1>2 DEF WayOn
<1>6. CASE x = 0
  <2>1. NextStart(sk, w) = q * w + 0 /\ q * w = sk
    BY <1>1, <1>3, <1>4, <1>6
  <2>2. 0 \in 0 .. w - 1 /\ q \in Int
    BY <1>0, <1>1
  <2>3. (q * w + 0) \div w = q
    BY <1>0, <2>2, DivisionOnly
  <2>4. sec = q
    BY <2>1, <2>3
  <2>5. WayOn(sk, sec * w) = 0
    BY <1>0, <2>1, <2>4 DEF WayOn
  <2> QED
    BY <1>0, <1>1, <1>5, <2>1, <2>4, <2>5
<1>7. CASE x # 0 /\ raw < Circle
  <2>1. raw % Circle = raw
    <3>1. Cong(raw, raw) /\ raw \in 0 .. Circle - 1
      BY <1>0, <1>4, <1>7, CongSame
    <3> QED
      BY <3>1, CongOnly
  <2>2. 0 \in 0 .. w - 1 /\ q + 1 \in Int
    BY <1>0, <1>1
  <2>3. ((q + 1) * w + 0) \div w = q + 1
    BY <1>0, <2>2, DivisionOnly
  <2>a. (q + 1) * w + 0 = raw
    BY <1>0, <1>1, <1>4
  <2>4. sec = q + 1
    BY <1>3, <1>7, <2>1, <2>3, <2>a
  <2>5. sec * w = raw
    BY <1>4, <2>4
  <2>6. WayOn(sk, raw) = raw - sk
    BY <1>0, <1>1, <1>4 DEF WayOn
  <2>7. y >= sk => y >= raw
    <3> SUFFICES ASSUME y >= sk PROVE y >= raw
      OBVIOUS
    <3>1. (k - q) * w = y - q * w
      BY <1>0, <1>1
    <3>2. (k - q - 1) * w = y - q * w - w
      BY <1>0, <1>1
    <3>3. (k - q - 1) * w > -w
      BY <1>0, <1>1, <1>2, <1>4, <1>7, <3>2
    <3>4. k - q - 1 >= 0
      BY <1>0, <1>1, <3>3, Positive
    <3>5. (k - q - 1) * w \in Nat
      BY <1>0, <1>1, <3>4
    <3>6. raw = q * w + w
      BY <1>0, <1>1
    <3> QED
      BY <1>0, <1>2, <1>4, <3>2, <3>5, <3>6
  <2>8. raw - sk <= WayOn(sk, y)
    BY <1>0, <1>2, <1>4, <1>7, <2>7 DEF WayOn
  <2>9. sec \in Nat
    BY <1>1, <2>4
  <2> QED
    BY <1>0, <1>4, <1>7, <2>5, <2>6, <2>8, <2>9
<1>8. CASE x # 0 /\ ~(raw < Circle)
  <2> DEFINE r == raw - Circle
  <2>1. r \in 0 .. w - 1
    BY <1>0, <1>1, <1>4, <1>8
  <2>2. raw % Circle = r
    <3>1. raw = r + 1 * Circle
      BY <1>0, <1>4
    <3>2. Cong(raw, r)
      BY <3>1 DEF Cong
    <3>3. r \in 0 .. Circle - 1
      BY <1>0, <2>1
    <3> QED
      BY <3>2, <3>3, CongOnly
  <2> HIDE DEF r
  <2>3. (0 * w + r) \div w = 0
    BY <1>0, <2>1, DivisionOnly
  <2>4. 0 * w + r = r
    BY <1>0, <2>1
  <2>5. sec = 0
    BY <1>3, <1>8, <2>2, <2>3, <2>4
  <2>6. sec * w = 0
    BY <1>0, <2>5
  <2>7. WayOn(sk, 0) = Circle - sk
    BY <1>0, <1>1, <1>4, <1>8 DEF WayOn
  <2>8. ~(y >= sk)
    <3> SUFFICES ASSUME y >= sk PROVE FALSE
      OBVIOUS
    <3>2. (k - q - 1) * w = y - q * w - w
      BY <1>0, <1>1
    <3>3. (k - q - 1) * w > -w
      BY <1>0, <1>1, <1>2, <1>4, <1>8, <3>2
    <3>4. k - q - 1 >= 0
      BY <1>0, <1>1, <3>3, Positive
    <3>5. (k - q - 1) * w \in Nat
      BY <1>0, <1>1, <3>4
    <3>6. raw = q * w + w
      BY <1>0, <1>1
    <3> QED
      BY <1>0, <1>2, <1>4, <1>8, <3>2, <3>5, <3>6
  <2>9. WayOn(sk, y) = y - sk + Circle
    BY <2>8 DEF WayOn
  <2> QED
    BY <1>0, <1>2, <2>5, <2>6, <2>7, <2>9
<1> QED
  BY <1>6, <1>7, <1>8

-----------------------------------------------------------------------------
(* Waiting on a track *)

\* The mechanics over the track of p, at angle a.
Over(p, a) == [cyl |-> p.cyl, head |-> p.head, theta |-> a]

LEMMA OverTrack ==
  ASSUME NEW p, NEW a
  PROVE  /\ Over(p, a).theta = a
         /\ TrackAt(Over(p, a)) = TrackAt(p)
         /\ \A k : SectorAt(Over(p, a), k) = SectorAt(p, k)
BY DEF Over, TrackAt, SectorAt

\* Without zero latency the wait is the rotation to the first sector.
LEMMA WaitsForSector ==
  ASSUME NEW d, NEW p \in [cyl : Nat, head : Nat, sector : Nat], NEW a, NEW len
  PROVE  dm_latency(d, Over(p, a), p.sector, len, FALSE) =
           [ok |-> len <= g4_spt_pbn(d, TrackAt(p)), time |-> dm_rottime(a, g4_skew(d, p)),
            add |-> 0]
<1>1. SectorAt(p, p.sector) = p
  BY DEF SectorAt
<1> QED
  BY <1>1, OverTrack DEF dm_latency, WaitOn, WaitUpTo, WaitBetween

LEMMA SectorAngleType ==
  ASSUME NEW n \in 1 .. Circle
  PROVE  /\ SectorAngle(n) \in 1 .. Circle
         /\ \A k \in 0 .. n - 1 : k * SectorAngle(n) \in 0 .. Circle - 1
<1> DEFINE w == SectorAngle(n)
           c == Circle
           r == c % n
<1>1. c \in Nat \ {0} /\ n \in Nat \ {0}
  BY AnglesType
<1>2. w \in Nat /\ r \in 0 .. n - 1 /\ c = w * n + r
  <2>1. c \in Int /\ c \in Nat
    BY <1>1
  <2>2. c \div n \in Nat
    BY <1>1, DivisionNat
  <2>3. r \in 0 .. n - 1 /\ c = (c \div n) * n + r
    BY <1>1, <2>1, DivisionIs
  <2> QED
    BY <2>2, <2>3 DEF SectorAngle
<1>3. n <= c
  BY AnglesType
<1> HIDE DEF w, r, c
<1>4. w # 0
  <2>1. 0 * n = 0
    BY <1>1
  <2> QED
    BY <1>1, <1>2, <1>3, <2>1
<1>5. ASSUME NEW k \in 0 .. n - 1
      PROVE  k * w \in 0 .. c - 1
  <2>1. (n - k) * w >= w /\ k * w \in Nat
    BY <1>1, <1>2, <1>5, AtLeast
  <2>2. (n - k) * w = w * n - k * w /\ w * n \in Nat
    BY <1>1, <1>2, <1>5
  <2> QED
    BY <1>1, <1>2, <1>4, <2>1, <2>2
<1>6. w <= c
  BY <1>1, <1>2, <1>5
<1> QED
  BY <1>1, <1>2, <1>4, <1>5, <1>6 DEF w, c

LEMMA EvenTrackType ==
  ASSUME NEW d, NEW p \in [cyl : Nat, head : Nat, sector : 0 .. Circle - 1], EvenTrack(d, p)
  PROVE  LET n     == g4_spt_pbn(d, TrackAt(p))
             w     == SectorAngle(n)
             first == g4_skew(d, TrackAt(p))
         IN  /\ n \in Nat /\ n \in 1 .. Circle /\ first \in Int /\ w \in 1 .. Circle /\ w \in Nat \ {0}
             /\ \A k \in 0 .. n - 1 : /\ g4_sector_width(d, SectorAt(p, k), 1) \in {0, w}
                                      /\ k * w \in 0 .. Circle - 1
             /\ \A k \in 0 .. Circle - 1 :
                  \/ ptol(d, SectorAt(p, k)) < 0
                  \/ /\ k \in 0 .. n - 1
                     /\ g4_spt_pbn(d, SectorAt(p, k)) = n
                     /\ g4_skew(d, SectorAt(p, k)) = (first + k * w) % Circle
                     /\ g4_skew(d, SectorAt(p, k)) \in Int
<1> DEFINE n     == g4_spt_pbn(d, TrackAt(p))
           w     == SectorAngle(n)
           first == g4_skew(d, TrackAt(p))
<1>1. n \in 1 .. Circle /\ first \in 0 .. Circle - 1
  BY DEF EvenTrack
<1>2. n \in Nat /\ n \in Int /\ first \in Int
  BY <1>1, AnglesType
<1>3. w \in 1 .. Circle /\ \A k \in 0 .. n - 1 : k * w \in 0 .. Circle - 1
  BY <1>1, SectorAngleType
<1>4. w \in Nat \ {0}
  BY <1>3, AnglesType
<1>5. \A k \in 0 .. n - 1 : g4_sector_width(d, SectorAt(p, k), 1) \in {0, w}
  BY DEF EvenTrack
<1>6. ASSUME NEW k \in 0 .. Circle - 1, ~(ptol(d, SectorAt(p, k)) < 0)
      PROVE  /\ k < n
             /\ g4_spt_pbn(d, SectorAt(p, k)) = n
             /\ g4_skew(d, SectorAt(p, k)) = (first + k * w) % Circle
  BY <1>6 DEF EvenTrack
<1> HIDE DEF n, w, first
<1>7. ASSUME NEW k \in 0 .. Circle - 1, k < n
      PROVE  k \in 0 .. n - 1 /\ (first + k * w) % Circle \in Int
  <2>1. k \in 0 .. n - 1
    BY <1>2, <1>7
  <2>2. k * w \in Int
    BY <1>4
  <2>3. (first + k * w) % Circle \in 0 .. Circle - 1
    BY <1>2, <2>2, CongMod
  <2> QED
    BY <2>1, <2>3, AnglesType
<1> QED
  BY <1>1, <1>2, <1>3, <1>4, <1>5, <1>6, <1>7 DEF n, w, first

\* Whatever the flag, the wait is no longer than that for the first sector, and the
\* block it is for is one of the track: no assertion fails when the sectors of the
\* track have a width.
LEMMA Waits ==
  ASSUME NEW d, NEW p \in [cyl : Nat, head : Nat, sector : 0 .. Circle - 1],
         EvenTrack(d, p), ptol(d, p) \in Nat, NEW a \in Int,
         NEW len \in 1 .. g4_spt_pbn(d, TrackAt(p)), NEW immed \in BOOLEAN
  PROVE  LET wait == dm_latency(d, Over(p, a), p.sector, len, immed)
         IN  /\ wait.time \in Nat /\ wait.time <= dm_rottime(a, g4_skew(d, p))
             /\ wait.add \in Nat
             /\ WideToTheEnd(d, p) => wait.ok
<1> DEFINE n     == g4_spt_pbn(d, TrackAt(p))
           w     == SectorAngle(n)
           first == g4_skew(d, TrackAt(p))
           Skew(k)  == g4_skew(d, SectorAt(p, k))
           Width(k) == g4_sector_width(d, SectorAt(p, k), 1)
           Nearer(k) == Skew(k) \in Int /\ dm_rottime(a, Skew(k)) <= dm_rottime(a, Skew(p.sector))
           start == p.sector
           last  == LastAccessed(start, len, n)
           block == g1_access_block(d, Over(p, a), start, len, immed)
           wait  == dm_latency(d, Over(p, a), start, len, immed)
<1>1. SectorAt(p, start) = p
  BY DEF SectorAt
<1>c. Circle \in Nat \ {0}
  BY AnglesType
<1>p. start \in 0 .. Circle - 1 /\ start \in Nat /\ ~(ptol(d, p) < 0)
  BY <1>c
<1>2. /\ n \in Nat /\ n \in 1 .. Circle /\ first \in Int /\ w \in 1 .. Circle /\ w \in Nat \ {0}
      /\ \A k \in 0 .. n - 1 : Width(k) \in {0, w} /\ k * w \in 0 .. Circle - 1
      /\ \A k \in 0 .. Circle - 1 :
           \/ ptol(d, SectorAt(p, k)) < 0
           \/ /\ k \in 0 .. n - 1
              /\ g4_spt_pbn(d, SectorAt(p, k)) = n
              /\ Skew(k) = (first + k * w) % Circle
              /\ Skew(k) \in Int
  BY EvenTrackType
<1>3. /\ start \in 0 .. n - 1 /\ g4_spt_pbn(d, SectorAt(p, start)) = n
      /\ Skew(start) = (first + start * w) % Circle /\ Skew(start) \in Int
      /\ start * w \in 0 .. Circle - 1
  BY <1>1, <1>2, <1>p
<1>s. start * w < Circle /\ start < n
  <2>1. start * w \in 0 .. Circle - 1 /\ start \in 0 .. n - 1
    BY <1>3
  <2> QED
    BY <1>2, <1>c, <2>1
<1>4. last \in 0 .. n - 1 /\ (last # start => n >= 2 /\ len >= 2)
  BY <1>2, <1>3 DEF LastAccessed
<1>5. Nearer(start)
  <2>1. dm_rottime(a, Skew(start)) \in Nat
    BY <1>3, RottimeNat
  <2> QED
    BY <1>3, <2>1
<1> HIDE DEF n, w, first, start, last
<1>6. WideToTheEnd(d, p) => \A k \in 0 .. n - 2 : Width(k) # 0
  BY DEF WideToTheEnd, n
<1>7. ASSUME NEW sk \in 0 .. Circle - 1, sk = (a - first) % Circle,
             NEW sec, sec = NextStart(sk, w) \div w, ~(ptol(d, SectorAt(p, sec)) < 0)
      PROVE  sec \in 0 .. n - 1 /\ Nearer(sec)
  <2>1. start \in Nat /\ start * w < Circle
    BY <1>p, <1>s
  <2>2. sec \in Nat /\ sec * w \in 0 .. Circle - 1 /\ WayOn(sk, sec * w) <= WayOn(sk, start * w)
    BY <1>2, <1>7, <2>1, NextIsNearest
  <2>3. sec \in 0 .. Circle - 1
    <3>1. sec * w >= sec
      <4>1. w * sec >= sec
        BY <1>2, <2>2, AtLeast
      <4> QED
        BY <1>2, <2>2, <4>1
    <3>2. sec * w <= Circle - 1 /\ sec * w \in Int
      BY <2>2, <1>c
    <3> QED
      BY <1>c, <2>2, <3>1, <3>2
  <2>4. sec \in 0 .. n - 1 /\ Skew(sec) = (first + sec * w) % Circle /\ Skew(sec) \in Int
    BY <1>2, <1>7, <2>3
  <2>5. /\ (Skew(sec) - a) % Circle = WayOn(sk, sec * w)
        /\ (Skew(start) - a) % Circle = WayOn(sk, start * w)
    <3>1. first \in Int
      BY <1>2
    <3>2. \A y \in 0 .. Circle - 1 : (((first + y) % Circle) - a) % Circle = WayOn(sk, y)
      BY <1>7, <3>1, Ahead
    <3>3. start * w \in 0 .. Circle - 1 /\ sec * w \in 0 .. Circle - 1
      BY <1>3, <2>2
    <3>4. Skew(sec) = (first + sec * w) % Circle /\ Skew(start) = (first + start * w) % Circle
      BY <1>3, <2>4
    <3> QED
      BY <3>2, <3>3, <3>4
  <2>6. dm_rottime(a, Skew(sec)) <= dm_rottime(a, Skew(start))
    BY <1>3, <2>2, <2>4, <2>5, RottimeGrows
  <2> QED
    BY <2>4, <2>6 DEF start
<1> HIDE DEF Nearer, Skew, Width
<1>8. ASSUME immed, last # start
      PROVE  /\ Nearer(block.sector)
             /\ WideToTheEnd(d, p) => block.ok
  <2> DEFINE sk  == (a - first) % Circle
             sec == NextStart(sk, w) \div w
  <2>1. sk \in 0 .. Circle - 1
    BY <1>2, CongMod
  <2>2. block = FirstRead(d, Over(p, a), start, n, last, Skew(start), Skew(last))
    <3>1. ~(len > n)
      BY <1>2 DEF n
    <3>2. block = BlockOf(d, Over(p, a), start, len, immed, n, last)
      BY <1>3, OverTrack DEF g1_access_block, BlockOn, last
    <3> QED
      BY <1>8, <3>1, <3>2, OverTrack DEF BlockOf, Skew
  <2> HIDE DEF block
  <2>3. CASE OutsideAccess(a, Skew(start), Skew(last))
    <3>1. block = [ok |-> start < n, sector |-> start]
      BY <2>2, <2>3, OverTrack DEF FirstRead
    <3> QED
      BY <3>1, <1>s, <1>5
  <2>4. CASE ~OutsideAccess(a, Skew(start), Skew(last))
    <3>1. block = SectorInside(d, Over(p, a), start, n, Width(last))
      BY <1>8, <2>2, <2>4, OverTrack DEF FirstRead, Width
    <3>2. CASE Width(last) = 0
      <4>1. block = [ok |-> TRUE, sector |-> start]
        BY <3>1, <3>2 DEF SectorInside
      <4> QED
        BY <4>1, <1>5
    <3>3. CASE Width(last) = w /\ Width(last) # 0
      <4>1. SectorAt(p, 0) = TrackAt(p)
        BY DEF SectorAt, TrackAt
      <4>2. block = SectorUnder(d, Over(p, a), start, n, w, Width(0))
        BY <3>1, <3>3, <4>1, OverTrack DEF SectorInside, Width
      <4>3. CASE Width(0) = 0
        <5>1. block = [ok |-> FALSE, sector |-> start]
          BY <4>2, <4>3 DEF SectorUnder
        <5>2. ~WideToTheEnd(d, p)
          BY <1>2, <1>4, <1>6, <1>8, <4>3
        <5> QED
          BY <5>1, <5>2, <1>5
      <4>4. CASE Width(0) = w /\ Width(0) # 0
        <5>1. block = MappedSector(d, Over(p, a), start, n, sec)
          BY <4>2, <4>4, OverTrack DEF SectorUnder, first
        <5> HIDE DEF sec, sk
        <5>2. CASE ptol(d, SectorAt(p, sec)) < 0
          <6>1. block = [ok |-> TRUE, sector |-> start]
            BY <5>1, <5>2, OverTrack DEF MappedSector
          <6> QED
            BY <6>1, <1>5
        <5>3. CASE ~(ptol(d, SectorAt(p, sec)) < 0)
          <6>1. block = [ok |-> sec < n, sector |-> sec]
            BY <5>1, <5>3, OverTrack DEF MappedSector
          <6>2. sec \in 0 .. n - 1 /\ Nearer(sec)
            BY <1>7, <2>1, <5>3 DEF sec, sk
          <6>3. sec < n
            BY <6>2, <1>2
          <6> QED
            BY <6>1, <6>2, <6>3
        <5> QED
          BY <5>2, <5>3
      <4> QED
        BY <1>2, <4>3, <4>4
    <3> QED
      BY <1>2, <1>4, <3>2, <3>3
  <2> QED
    BY <2>3, <2>4
<1>9. wait = WaitBetween(d, Over(p, a), start, len, immed, n, last, Skew(start), Skew(last))
  BY OverTrack DEF dm_latency, WaitOn, WaitUpTo, last, n, Skew
<1>10. CASE ~immed \/ OutsideAccess(a, Skew(start), Skew(last)) \/ last = start
  <2>1. wait = [ok |-> len <= n, time |-> dm_rottime(a, Skew(start)), add |-> 0]
    BY <1>9, <1>10, OverTrack DEF WaitBetween
  <2>2. len <= n
    BY <1>2 DEF n
  <2>3. dm_rottime(a, Skew(start)) \in Nat /\ Skew(start) = g4_skew(d, p)
    BY <1>1, <1>3, RottimeNat DEF Skew
  <2> HIDE DEF wait
  <2>4. wait.ok /\ wait.time = dm_rottime(a, g4_skew(d, p)) /\ wait.add = 0
    BY <2>1, <2>2, <2>3
  <2>5. wait.time \in Nat /\ wait.time <= dm_rottime(a, g4_skew(d, p)) /\ wait.add \in Nat
    BY <2>3, <2>4
  <2> QED
    BY <2>4, <2>5 DEF wait, start
<1>11. CASE immed /\ ~OutsideAccess(a, Skew(start), Skew(last)) /\ last # start
  <2> DEFINE spare == n - len
             extra == IF spare = 0 THEN 0 ELSE g4_sector_width(d, SectorAt(p, spare), spare)
  <2>1. ~(len > n) /\ len \in Int /\ spare \in 0 .. n - 1 /\ n \in Int
    BY <1>2 DEF n
  <2>2. wait = WaitFor(d, Over(p, a), spare, extra, block)
    BY <1>9, <1>11, <2>1, OverTrack DEF WaitBetween, WaitInside
  <2>3. g4_sector_width(d, SectorAt(p, spare), spare) = Width(spare)
    BY DEF g4_sector_width, Width
  <2>4. Width(spare) \in {0, w} /\ w \in Int
    BY <1>2, <2>1
  <2>5. extra \in Int
    BY <2>3, <2>4
  <2>6. WideToTheEnd(d, p) => spare = 0 \/ extra # 0
    BY <1>2, <1>4, <1>6, <1>11, <2>1, <2>3
  <2> HIDE DEF spare, extra, block
  <2>7. /\ wait.ok = (block.ok /\ (spare = 0 \/ extra # 0))
        /\ wait.time = dm_rottime(a, Skew(block.sector)) /\ wait.add = dm_rottime(0, extra)
    BY <2>2, OverTrack DEF WaitFor, Skew
  <2>8. Nearer(block.sector) /\ (WideToTheEnd(d, p) => block.ok)
    BY <1>8, <1>11 DEF block
  <2>9. /\ Skew(block.sector) \in Int
        /\ dm_rottime(a, Skew(block.sector)) <= dm_rottime(a, Skew(start))
    BY <2>8 DEF Nearer, start
  <2>10. Skew(start) = g4_skew(d, p)
    BY <1>1 DEF Skew
  <2>0. 0 \in Int
    OBVIOUS
  <2>11. dm_rottime(a, Skew(block.sector)) \in Nat /\ dm_rottime(0, extra) \in Nat
    BY <2>0, <2>5, <2>9, RottimeNat
  <2> HIDE DEF wait
  <2>12. wait.time \in Nat /\ wait.time <= dm_rottime(a, g4_skew(d, p)) /\ wait.add \in Nat
    BY <2>7, <2>9, <2>10, <2>11
  <2>13. WideToTheEnd(d, p) => wait.ok
    BY <2>6, <2>7, <2>8
  <2> QED
    BY <2>12, <2>13 DEF wait, start
<1> QED
  BY <1>10, <1>11

LEMMA XfertimeNat ==
  ASSUME NEW d, NEW p, NEW a, NEW len, g4_sector_width(d, TrackAt(p), 1) \in Int
  PROVE  dm_xfertime(d, Over(p, a), len) \in Nat
<1>1. g4_sector_width(d, TrackAt(p), len) \in Int
  BY DEF g4_sector_width
<1>2. 0 \in Int
  OBVIOUS
<1> QED
  BY <1>1, <1>2, RottimeNat, OverTrack DEF dm_xfertime

LEMMA SeekNat ==
  ASSUME NEW d, d.cyls \in Nat, SeeksTakeTime(d), NEW from, NEW to, NEW rw \in {Read, Write},
         from.cyl \in Cylinders(d), to.cyl \in Cylinders(d)
  PROVE  dm_seek_time(from, to, rw) \in Nat
<1> DEFINE dist == Magnitude(to.cyl - from.cyl)
<1>1. dist \in Cylinders(d)
  BY DEF Magnitude, Cylinders
<1> HIDE DEF dist
<1>2. SeekFn[rw][dist] \in Nat
  BY <1>1 DEF SeeksTakeTime
<1> QED
  BY <1>2, MechAssumption DEF dm_seek_time, dist, Larger, dm_headswitch_time

-----------------------------------------------------------------------------
(* Numbers *)

\* Of some numbers one is the least.
LEMMA LeastOf ==
  ASSUME NEW T, T \subseteq Nat, T # {}
  PROVE  \E m \in T : \A k \in T : m <= k
<1> DEFINE R == OpToRel(<, Nat)
<1>1. IsWellFoundedOn(R, Nat)
  BY NatLessThanWellFounded, Zenon
<1>2. ASSUME NEW a \in Nat, NEW b \in Nat, a < b PROVE <<a, b>> \in R
  BY <1>2, Zenon DEF OpToRel
<1> HIDE DEF R
<1>3. PICK m \in T : \A k \in T : ~(<<k, m>> \in R)
  BY <1>1, WFMin, Zenon
<1>4. ASSUME NEW k \in T PROVE m <= k
  <2>1. m \in Nat /\ k \in Nat
    OBVIOUS
  <2>2. ~(k < m)
    BY <1>2, <1>3, <2>1
  <2> QED
    BY <2>1, <2>2
<1> QED
  BY <1>3, <1>4

LEMMA LowestIs ==
  ASSUME NEW T, T \subseteq Nat, T # {}
  PROVE  Lowest(T) \in T /\ \A k \in T : Lowest(T) <= k
<1>1. \E m \in T : \A k \in T : m <= k
  BY LeastOf
<1> QED
  BY <1>1 DEF Lowest

\* Numbers reached from 0 one by one are all numbers.
LEMMA OneByOne ==
  ASSUME NEW T, T \subseteq Nat, 0 \in T, \A n \in T : n + 1 \in T
  PROVE  T = Nat
<1> DEFINE R == Nat \ T
<1>1. R = {}
  <2> SUFFICES ASSUME R # {} PROVE FALSE
    OBVIOUS
  <2>1. PICK m \in R : \A k \in R : m <= k
    BY LeastOf
  <2>2. m \in Nat /\ m # 0
    OBVIOUS
  <2>3. m - 1 \in Nat /\ m - 1 \notin R /\ (m - 1) + 1 = m
    BY <2>1, <2>2
  <2> QED
    BY <2>3
<1> QED
  BY <1>1

-----------------------------------------------------------------------------
(* Sums *)

\* One step of Sums, with f for the sums before.
NextSum(terms, f, k) == IF k = 0 THEN 0 ELSE f[k - 1] + terms[k]

LEMMA SumsAre ==
  ASSUME NEW terms \in Seq(Int)
  PROVE  /\ Sums(terms) \in [0 .. Len(terms) -> Int]
         /\ Sums(terms)[0] = 0
         /\ \A k \in 1 .. Len(terms) : Sums(terms)[k] = Sums(terms)[k - 1] + terms[k]
<1> DEFINE Ends(n) == \E f : f = [k \in 0 .. n |-> NextSum(terms, f, k)]
<1>1. Ends(0)
  <2> DEFINE f == [k \in 0 .. 0 |-> 0]
  <2>1. f = [k \in 0 .. 0 |-> NextSum(terms, f, k)]
    BY DEF NextSum
  <2> QED
    BY <2>1
<1>2. ASSUME NEW n \in Nat, Ends(n) PROVE Ends(n + 1)
  <2>1. PICK f : f = [k \in 0 .. n |-> NextSum(terms, f, k)]
    BY <1>2
  <2> DEFINE g == [k \in 0 .. n + 1 |-> NextSum(terms, f, k)]
  <2>2. \A k \in 0 .. n : g[k] = f[k]
    BY <2>1
  <2> HIDE DEF g
  <2>3. \A k \in 0 .. n + 1 : NextSum(terms, g, k) = NextSum(terms, f, k)
    <3> SUFFICES ASSUME NEW k \in 0 .. n + 1, k # 0 PROVE g[k - 1] = f[k - 1]
      BY DEF NextSum
    <3>1. k - 1 \in 0 .. n
      OBVIOUS
    <3> QED
      BY <2>2, <3>1
  <2>4. g = [k \in 0 .. n + 1 |-> NextSum(terms, g, k)]
    BY <2>3 DEF g
  <2> QED
    BY <2>4
<1> HIDE DEF Ends
<1> DEFINE T == { n \in Nat : Ends(n) }
<1>3. T = Nat
  <2>1. T \subseteq Nat /\ 0 \in T /\ \A n \in T : n + 1 \in T
    BY <1>1, <1>2
  <2> HIDE DEF T
  <2> QED
    BY <2>1, OneByOne
<1>4. \E f : f = [k \in 0 .. Len(terms) |-> NextSum(terms, f, k)]
  <2>1. Ends(Len(terms))
    BY <1>3
  <2> QED
    BY <2>1 DEF Ends
<1>5. Sums(terms) = CHOOSE f : f = [k \in 0 .. Len(terms) |-> NextSum(terms, f, k)]
  BY DEF Sums, NextSum
<1> DEFINE s == Sums(terms)
<1> HIDE DEF s
<1>6. s = [k \in 0 .. Len(terms) |-> NextSum(terms, s, k)]
  BY <1>4, <1>5 DEF s
<1>7. \A k \in 0 .. Len(terms) : s[k] = NextSum(terms, s, k)
  BY <1>6
<1>8. s[0] = 0
  BY <1>7 DEF NextSum
<1>9. ASSUME NEW k \in 1 .. Len(terms) PROVE s[k] = s[k - 1] + terms[k]
  BY <1>7 DEF NextSum
<1> DEFINE U == { n \in Nat : n <= Len(terms) => s[n] \in Int }
<1>10. U = Nat
  <2>1. 0 \in U
    BY <1>8
  <2>2. ASSUME NEW n \in U PROVE n + 1 \in U
    <3> SUFFICES ASSUME n + 1 <= Len(terms) PROVE s[n + 1] \in Int
      OBVIOUS
    <3>1. n + 1 \in 1 .. Len(terms) /\ (n + 1) - 1 = n /\ n <= Len(terms)
      OBVIOUS
    <3>2. s[n + 1] = s[n] + terms[n + 1]
      BY <1>9, <3>1
    <3>3. s[n] \in Int /\ terms[n + 1] \in Int
      BY <3>1
    <3> QED
      BY <3>2, <3>3
  <2> QED
    BY <2>1, <2>2, OneByOne
<1>11. \A k \in 0 .. Len(terms) : s[k] \in Int
  BY <1>10
<1>12. s \in [0 .. Len(terms) -> Int]
  BY <1>6, <1>11
<1> QED
  BY <1>8, <1>9, <1>12 DEF s

LEMMA TotalType ==
  ASSUME NEW terms \in Seq(Int)
  PROVE  Total(terms) \in Int
<1>1. Len(terms) \in 0 .. Len(terms)
  OBVIOUS
<1> QED
  BY <1>1, SumsAre DEF Total

-----------------------------------------------------------------------------
(* Searches of the slip list *)

LEMMA Midpoint ==
  ASSUME NEW a \in Nat, NEW b \in Nat, a <= b, b # a, b # a + 1
  PROVE  LET m == a + ((b - a) \div 2) IN m \in Nat /\ a < m /\ m < b
  OBVIOUS

\* The bounds that slipcount_bins may be given for n entries, and those at most w apart.
Intervals(n) == { q \in (0 .. n) \X (0 .. n) : q[1] <= q[2] }
Within(n, w) == { p \in Intervals(n) : p[2] - p[1] <= w }

MidOf(p) == p[1] + ((p[2] - p[1]) \div 2)

\* One level of slipcount_bins, with f for what the next one returns.
Level(s, a, f, p) ==
  IF p[2] \in {p[1], p[1] + 1} THEN p[1]
  ELSE IF s[MidOf(p) + 1].off > a THEN f[<<p[1], MidOf(p)>>] ELSE f[<<MidOf(p), p[2]>>]

\* The next level's bounds are closer together.
LEMMA LevelNarrows ==
  ASSUME NEW n \in Nat, NEW w \in Nat, NEW p \in Within(n, w), p[2] \notin {p[1], p[1] + 1}
  PROVE  /\ w > 0
         /\ MidOf(p) \in p[1] + 1 .. p[2] - 1
         /\ <<p[1], MidOf(p)>> \in Within(n, w - 1)
         /\ <<MidOf(p), p[2]>> \in Within(n, w - 1)
<1> DEFINE m == MidOf(p)
<1>1. p[1] \in 0 .. n /\ p[2] \in 0 .. n /\ p[1] <= p[2] /\ p[2] - p[1] <= w
  BY DEF Within, Intervals
<1>2. m \in Nat /\ p[1] < m /\ m < p[2]
  <2>1. p[1] \in Nat /\ p[2] \in Nat /\ p[1] <= p[2] /\ p[2] # p[1] /\ p[2] # p[1] + 1
    BY <1>1
  <2> HIDE DEF m
  <2>2. m = p[1] + ((p[2] - p[1]) \div 2)
    BY DEF m, MidOf
  <2> QED
    BY <2>1, <2>2, Midpoint
<1> HIDE DEF m
<1>3. w > 0 /\ m \in 0 .. n /\ m - p[1] <= w - 1 /\ p[2] - m <= w - 1
  BY <1>1, <1>2
<1>4. <<p[1], m>> \in Within(n, w - 1) /\ <<m, p[2]>> \in Within(n, w - 1)
  BY <1>1, <1>2, <1>3 DEF Within, Intervals
<1>5. m \in p[1] + 1 .. p[2] - 1
  BY <1>1, <1>2
<1> QED
  BY <1>3, <1>4, <1>5 DEF m

\* slipcount_bins returns from bounds any distance apart.
LEMMA LevelsEnd ==
  ASSUME NEW s, NEW a, NEW n \in Nat, NEW w \in Nat
  PROVE  \E f : f = [p \in Within(n, w) |-> Level(s, a, f, p)]
<1> DEFINE Ends(v) == \E f : f = [p \in Within(n, v) |-> Level(s, a, f, p)]
           T == { v \in Nat : ~Ends(v) }
<1>1. Ends(0)
  <2> DEFINE f == [p \in Within(n, 0) |-> p[1]]
  <2>1. \A p \in Within(n, 0) : Level(s, a, f, p) = p[1]
    <3> SUFFICES ASSUME NEW p \in Within(n, 0) PROVE p[2] \in {p[1], p[1] + 1}
      BY DEF Level
    <3>1. p[1] \in Nat /\ p[2] \in Nat /\ p[1] <= p[2] /\ p[2] - p[1] <= 0
      BY DEF Within, Intervals
    <3> QED
      BY <3>1
  <2>2. f = [p \in Within(n, 0) |-> Level(s, a, f, p)]
    BY <2>1
  <2> QED
    BY <2>2
<1>2. ASSUME NEW v \in Nat, Ends(v) PROVE Ends(v + 1)
  <2>1. PICK f : f = [p \in Within(n, v) |-> Level(s, a, f, p)]
    BY <1>2
  <2> DEFINE g == [p \in Within(n, v + 1) |-> Level(s, a, f, p)]
  <2>2. \A p \in Within(n, v) : p \in Within(n, v + 1) /\ g[p] = f[p]
    <3> SUFFICES ASSUME NEW p \in Within(n, v) PROVE p \in Within(n, v + 1) /\ g[p] = f[p]
      OBVIOUS
    <3>1. p \in Within(n, v + 1)
      BY DEF Within, Intervals
    <3>2. f[p] = Level(s, a, f, p)
      BY <2>1
    <3> QED
      BY <3>1, <3>2
  <2> HIDE DEF g
  <2>3. \A p \in Within(n, v + 1) : Level(s, a, g, p) = Level(s, a, f, p)
    <3> SUFFICES ASSUME NEW p \in Within(n, v + 1) PROVE Level(s, a, g, p) = Level(s, a, f, p)
      OBVIOUS
    <3>1. CASE p[2] \in {p[1], p[1] + 1}
      BY <3>1 DEF Level
    <3>2. CASE p[2] \notin {p[1], p[1] + 1}
      <4>1. <<p[1], MidOf(p)>> \in Within(n, v) /\ <<MidOf(p), p[2]>> \in Within(n, v)
        <5>1. v + 1 \in Nat /\ (v + 1) - 1 = v
          OBVIOUS
        <5> QED
          BY <3>2, <5>1, LevelNarrows
      <4> QED
        BY <2>2, <4>1 DEF Level
    <3> QED
      BY <3>1, <3>2
  <2>4. g = [p \in Within(n, v + 1) |-> Level(s, a, g, p)]
    BY <2>3 DEF g
  <2> QED
    BY <2>4
<1> HIDE DEF Ends
<1>3. T = {}
  <2> SUFFICES ASSUME T # {} PROVE FALSE
    OBVIOUS
  <2>1. PICK m \in T : \A k \in T : m <= k
    BY LeastOf
  <2>2. m \in Nat /\ m # 0
    BY <1>1
  <2>3. m - 1 \in Nat /\ m - 1 \notin T /\ (m - 1) + 1 = m
    BY <2>1, <2>2
  <2>4. Ends(m)
    BY <1>2, <2>3
  <2> QED
    BY <2>4
<1>4. Ends(w)
  BY <1>3
<1> QED
  BY <1>4 DEF Ends

\* slipcount_bins of bounds is one level of it.
LEMMA BinsLevel ==
  ASSUME NEW s, NEW a, Len(s) \in Nat, NEW p \in Intervals(Len(s))
  PROVE  Bins(s, a)[p] = Level(s, a, Bins(s, a), p)
<1> DEFINE n == Len(s)
<1>1. Intervals(n) = Within(n, n)
  BY DEF Intervals, Within
<1>2. \E f : f = [q \in Intervals(n) |-> Level(s, a, f, q)]
  <2>1. \E f : f = [q \in Within(n, n) |-> Level(s, a, f, q)]
    <3>1. n \in Nat
      OBVIOUS
    <3> HIDE DEF n
    <3> QED
      BY <3>1, LevelsEnd
  <2> QED
    BY <1>1, <2>1
<1>3. Bins(s, a) = CHOOSE f : f = [q \in Intervals(n) |-> Level(s, a, f, q)]
  BY DEF Bins, Intervals, Level, MidOf
<1> DEFINE b == Bins(s, a)
<1>4. b = [q \in Intervals(n) |-> Level(s, a, b, q)]
  BY <1>2, <1>3
<1> HIDE DEF b
<1>5. b[p] = Level(s, a, b, p)
  BY <1>4
<1> QED
  BY <1>5 DEF b

\* It finds an entry.
LEMMA BinsInside ==
  ASSUME NEW s, NEW a, Len(s) \in Nat \ {0}
  PROVE  BinsOf(s, a) \in 1 .. Len(s)
<1> DEFINE n == Len(s)
           b == Bins(s, a)
           Inside(w) == \A p \in Within(n, w) : p[1] < p[2] => b[p] \in p[1] .. p[2] - 1
           T == { w \in Nat : Inside(w) }
<1>1. \A p \in Intervals(n) : b[p] = Level(s, a, b, p)
  BY BinsLevel
<1> HIDE DEF b
<1>2. Inside(0)
  <2> SUFFICES ASSUME NEW p \in Within(n, 0), p[1] < p[2] PROVE FALSE
    OBVIOUS
  <2> QED
    BY DEF Within, Intervals
<1>3. ASSUME NEW w \in Nat, Inside(w) PROVE Inside(w + 1)
  <2> SUFFICES ASSUME NEW p \in Within(n, w + 1), p[1] < p[2] PROVE b[p] \in p[1] .. p[2] - 1
    OBVIOUS
  <2>0. p \in Intervals(n)
    BY DEF Within
  <2>1. p \in Intervals(n) /\ p[1] \in Nat /\ p[2] \in Nat
    BY <2>0 DEF Intervals
  <2>2. b[p] = Level(s, a, b, p)
    BY <1>1, <2>1
  <2>3. CASE p[2] \in {p[1], p[1] + 1}
    BY <2>1, <2>2, <2>3 DEF Level
  <2>4. CASE p[2] \notin {p[1], p[1] + 1}
    <3> DEFINE m == MidOf(p)
    <3>1. m \in p[1] + 1 .. p[2] - 1 /\ <<p[1], m>> \in Within(n, w) /\ <<m, p[2]>> \in Within(n, w)
      <4>1. w + 1 \in Nat /\ (w + 1) - 1 = w
        OBVIOUS
      <4> QED
        BY <2>4, <4>1, LevelNarrows
    <3>2. b[p] \in {b[<<p[1], m>>], b[<<m, p[2]>>]}
      BY <2>2, <2>4 DEF Level
    <3> HIDE DEF m
    <3>3. m \in Nat /\ p[1] < m /\ m < p[2]
      BY <2>1, <3>1
    <3>4. b[<<p[1], m>>] \in p[1] .. m - 1 /\ b[<<m, p[2]>>] \in m .. p[2] - 1
      BY <1>3, <3>1, <3>3
    <3> QED
      BY <2>1, <3>2, <3>3, <3>4
  <2> QED
    BY <2>3, <2>4
<1>4. T = Nat
  <2> HIDE DEF Inside
  <2>1. T \subseteq Nat /\ 0 \in T /\ \A w \in T : w + 1 \in T
    BY <1>2, <1>3
  <2> HIDE DEF T
  <2> QED
    BY <2>1, OneByOne
<1>5. Inside(n)
  <2> HIDE DEF Inside
  <2> QED
    BY <1>4
<1>6. <<0, n>> \in Within(n, n)
  BY DEF Within, Intervals
<1>7. b[<<0, n>>] \in 0 .. n - 1
  BY <1>5, <1>6
<1> QED
  BY <1>7 DEF BinsOf, b

\* Both searches return numbers.
LEMMA SlipcountType ==
  ASSUME NEW s \in Seq(SlipEntry), s # <<>>, NEW a \in Int
  PROVE  slipcount(s, a) \in Int /\ slipcount_rev(s, a) \in Int
<1> DEFINE first == BinsOf(s, a)
<1>1. Len(s) \in Nat \ {0} /\ \A k \in 1 .. Len(s) : s[k].off \in Int /\ s[k].count \in Int
  <2>1. Len(s) \in Nat \ {0}
    OBVIOUS
  <2>2. ASSUME NEW k \in 1 .. Len(s) PROVE s[k].off \in Int /\ s[k].count \in Int
    <3>1. s[k] \in SlipEntry
      OBVIOUS
    <3> QED
      BY <3>1 DEF SlipEntry
  <2> QED
    BY <2>1, <2>2
<1>2. first \in 1 .. Len(s)
  BY <1>1, BinsInside
<1> HIDE DEF first
<1> DEFINE moved(k) == IF k = first THEN a ELSE a + s[k - 1].count
           Past(k) == k > Len(s) \/ s[k].off > moved(k)
           T == { k \in first .. Len(s) + 1 : Past(k) }
           stop == StopsAt(s, a, first)
<1>3. stop \in first .. Len(s) + 1
  <2>1. Len(s) + 1 \in T
    BY <1>1, <1>2
  <2>2. T \subseteq Nat
    BY <1>2
  <2> HIDE DEF Past
  <2>3. PICK m \in T : \A k \in T : m <= k
    <3> HIDE DEF T
    <3> QED
      BY <2>1, <2>2, LeastOf
  <2>4. m \in first .. Len(s) + 1 /\ Past(m)
    BY <2>3 DEF T
  <2>5. \A k \in first .. m - 1 : ~Past(k)
    <3> SUFFICES ASSUME NEW k \in first .. m - 1, Past(k) PROVE FALSE
      OBVIOUS
    <3>1. k \in first .. Len(s) + 1 /\ k < m
      BY <1>1, <1>2, <2>4
    <3>2. k \in T
      BY <3>1 DEF T
    <3> QED
      BY <1>2, <2>3, <2>4, <3>1, <3>2
  <2>6. \E k \in first .. Len(s) + 1 : Past(k) /\ \A j \in first .. k - 1 : ~Past(j)
    BY <2>4, <2>5
  <2>7. stop = CHOOSE k \in first .. Len(s) + 1 : Past(k) /\ \A j \in first .. k - 1 : ~Past(j)
    BY DEF StopsAt, Past
  <2> HIDE DEF stop
  <2> QED
    BY <2>6, <2>7
<1> HIDE DEF stop
<1>4. CountWalked(s, first, stop) \in Int
  BY <1>1, <1>2, <1>3 DEF CountWalked
<1>5. CountOrSlipped(s, a, first) \in Int
  BY <1>1, <1>2 DEF CountOrSlipped
<1> QED
  BY <1>4, <1>5 DEF slipcount, slipcount_rev, WalkFrom, first, stop

-----------------------------------------------------------------------------
(* Paths *)

InnerNode == [type : {"IDX"}, e : IdxEntry, quot : Int, resid : Int]
LeafNode  == [type : {"TRACK"}, t : TrackPattern, quot : {0}, resid : Int]

\* A path down the index tree: at least one entry, and a track at its end.
IsPath(path) ==
  /\ path \in Seq(InnerNode \cup LeafNode)
  /\ Len(path) >= 2
  /\ \A i \in 1 .. Len(path) - 1 : path[i] \in InnerNode
  /\ path[Len(path)] \in LeafNode

LEMMA ExtendIs ==
  ASSUME NEW S, NEW rest \in Seq(S), rest # <<>>, NEW node \in S
  PROVE  /\ Extend(node, rest) \in Seq(S)
         /\ Len(Extend(node, rest)) = Len(rest) + 1
         /\ Extend(node, rest)[1] = node
         /\ \A i \in 1 .. Len(rest) : Extend(node, rest)[i + 1] = rest[i]
<1> DEFINE x == <<node>> \o rest
<1>1. Extend(node, rest) = x
  BY DEF Extend
<1>2. <<node>> \in Seq(S) /\ Len(<<node>>) = 1 /\ <<node>>[1] = node
  OBVIOUS
<1>3. x \in Seq(S) /\ Len(x) = 1 + Len(rest)
  BY <1>2, ConcatProperties
<1>4. x[1] = node
  OBVIOUS
<1>5. \A i \in 1 .. Len(rest) : x[i + 1] = rest[i]
  OBVIOUS
<1> HIDE DEF x
<1>6. Len(x) = Len(rest) + 1
  BY <1>3
<1> QED
  BY <1>1, <1>3, <1>4, <1>5, <1>6

LEMMA ExtendPath ==
  ASSUME NEW node \in InnerNode, NEW rest, IsPath(rest)
  PROVE  /\ IsPath(Extend(node, rest))
         /\ Extend(node, rest) # <<>>
         /\ Len(Extend(node, rest)) = Len(rest) + 1
         /\ Extend(node, rest)[1] = node
         /\ \A i \in 1 .. Len(rest) : Extend(node, rest)[i + 1] = rest[i]
         /\ Extend(node, rest)[Len(Extend(node, rest))] = rest[Len(rest)]
<1> DEFINE x == Extend(node, rest)
           n == Len(rest)
<1>1. rest \in Seq(InnerNode \cup LeafNode) /\ n \in Nat /\ n >= 2 /\ rest # <<>>
  BY DEF IsPath
<1>2. /\ x \in Seq(InnerNode \cup LeafNode)
      /\ Len(x) = n + 1
      /\ x[1] = node
      /\ \A i \in 1 .. n : x[i + 1] = rest[i]
  <2> DEFINE S == InnerNode \cup LeafNode
  <2>1. node \in S /\ rest \in Seq(S)
    BY <1>1
  <2> HIDE DEF S
  <2>2. /\ x \in Seq(S)
        /\ Len(x) = n + 1
        /\ x[1] = node
        /\ \A i \in 1 .. n : x[i + 1] = rest[i]
    BY <1>1, <2>1, ExtendIs
  <2> QED
    BY <2>2 DEF S
<1> HIDE DEF x, n
<1>3. x[n + 1] = rest[n]
  BY <1>1, <1>2
<1>4. ASSUME NEW i \in 1 .. n PROVE x[i] \in InnerNode
  <2>1. CASE i = 1
    BY <1>2, <2>1
  <2>2. CASE i # 1
    <3>1. i - 1 \in 1 .. n - 1 /\ i - 1 \in 1 .. n /\ (i - 1) + 1 = i
      BY <1>1, <2>2
    <3>2. x[i] = rest[i - 1]
      BY <1>2, <3>1
    <3> QED
      BY <3>1, <3>2 DEF IsPath, n
  <2> QED
    BY <2>1, <2>2
<1>5. (n + 1) - 1 = n /\ n + 1 >= 2
  BY <1>1
<1>8. rest[n] \in LeafNode
  BY DEF IsPath, n
<1>6. IsPath(x)
  BY <1>2, <1>3, <1>4, <1>5, <1>8 DEF IsPath
<1>7. x # <<>>
  BY <1>1, <1>2
<1> QED
  BY <1>2, <1>3, <1>6, <1>7 DEF x, n

\* One entry and its track are a path.
LEMMA ShortPath ==
  ASSUME NEW node \in InnerNode, NEW leaf \in LeafNode
  PROVE  /\ IsPath(Extend(node, <<leaf>>))
         /\ Extend(node, <<leaf>>) # <<>>
         /\ Len(Extend(node, <<leaf>>)) = 2
         /\ Extend(node, <<leaf>>)[1] = node
         /\ Extend(node, <<leaf>>)[Len(Extend(node, <<leaf>>))] = leaf
<1> DEFINE rest == <<leaf>>
           x == Extend(node, rest)
           S == InnerNode \cup LeafNode
<1>1. node \in S /\ rest \in Seq(S) /\ rest # <<>> /\ Len(rest) = 1 /\ rest[1] = leaf
  OBVIOUS
<1> HIDE DEF S, rest
<1>2. /\ x \in Seq(S)
      /\ Len(x) = Len(rest) + 1
      /\ x[1] = node
      /\ \A i \in 1 .. Len(rest) : x[i + 1] = rest[i]
  BY <1>1, ExtendIs
<1> HIDE DEF x
<1>3. Len(x) = 2 /\ x[1 + 1] = leaf
  BY <1>1, <1>2
<1>4. ASSUME NEW i \in 1 .. Len(x) - 1 PROVE x[i] \in InnerNode
  <2>1. i = 1
    BY <1>3
  <2> QED
    BY <1>2, <2>1
<1>5. x[2] = leaf
  BY <1>3
<1>6. x # <<>>
  BY <1>3
<1>7. Len(x) >= 2 /\ x[Len(x)] = leaf
  BY <1>3, <1>5
<1>8. IsPath(x)
  BY <1>2, <1>4, <1>7, Zenon DEF IsPath, S
<1> QED
  BY <1>2, <1>3, <1>6, <1>7, <1>8 DEF x, rest

\* What a well-formed disk has at the places of its arrays.
LEMMA EntryIs ==
  ASSUME NEW d, WellFormed(d), NEW k \in DOMAIN d.idx, NEW i \in DOMAIN d.idx[k]
  PROVE  /\ k \in 1 .. Len(d.idx)
         /\ d.idx[k][i] \in IdxEntry
         /\ d.idx[k][i].childtype = "TRACK" => d.track[d.idx[k][i].child] \in TrackPattern
         /\ d.idx[k][i].childtype # "TRACK" =>
              d.idx[k][i].child \in DOMAIN d.idx /\ d.idx[k][i].child < k
<1> DEFINE e == d.idx[k][i]
<1>1. d.idx \in Seq(Seq(IdxEntry)) /\ d.track \in Seq(TrackPattern)
  BY DEF WellFormed
<1>2. k \in 1 .. Len(d.idx)
  BY <1>1
<1>3. d.idx[k] \in Seq(IdxEntry)
  BY <1>1, <1>2
<1>4. e \in IdxEntry
  BY <1>3
<1>5. StandsFor(d, k, e)
  BY DEF WellFormed
<1> HIDE DEF e
<1>6. CASE e.childtype = "TRACK"
  <2>1. e.child \in DOMAIN d.track
    BY <1>5, <1>6 DEF StandsFor
  <2> HIDE DEF TrackPattern
  <2>2. d.track[e.child] \in TrackPattern
    BY <1>1, <2>1
  <2> QED
    BY <1>2, <1>4, <1>6, <2>2 DEF e
<1>7. CASE e.childtype # "TRACK"
  <2>1. e.child \in 1 .. k - 1
    BY <1>5, <1>7 DEF StandsFor
  <2>2. e.child \in DOMAIN d.idx /\ e.child < k
    BY <1>1, <1>2, <2>1
  <2> QED
    BY <1>2, <1>4, <1>7, <2>2 DEF e
<1> QED
  BY <1>6, <1>7

-----------------------------------------------------------------------------
(* The path to an address *)

LbnCovers(e, x) == e.lbn <= x /\ x < e.lbn + e.runlen
LbnHere(d, at) == { i \in DOMAIN d.idx[at[1]] : LbnCovers(d.idx[at[1]][i], at[2]) }
LbnEntry(d, at) == d.idx[at[1]][Lowest(LbnHere(d, at))]
LbnRest(d, at) == (at[2] - LbnEntry(d, at).lbn) % LbnEntry(d, at).len
LbnLeaf(t, x) == IF t.low <= x /\ x <= t.high THEN <<TrackNode(t, x - t.low)>> ELSE <<>>

\* One level of g4_recurse, with f for what the next one returns.
LbnLevel(d, f, at) ==
  IF LbnHere(d, at) = {} THEN <<>>
  ELSE Extend(LbnNode(LbnEntry(d, at), at[2]),
              IF LbnEntry(d, at).childtype = "TRACK"
              THEN LbnLeaf(d.track[LbnEntry(d, at).child], LbnRest(d, at))
              ELSE f[<<LbnEntry(d, at).child, LbnRest(d, at)>>])

\* The calls on the first n nodes.
LbnCalls(d, n) == { at \in (DOMAIN d.idx) \X Int : at[1] <= n }

\* The entry that is taken, and what is left of the address in it.
LEMMA LbnEntryIs ==
  ASSUME NEW d, WellFormed(d), NEW at \in (DOMAIN d.idx) \X Int, LbnHere(d, at) # {}
  PROVE  LET e == LbnEntry(d, at)
         IN  /\ e \in IdxEntry
             /\ LbnRest(d, at) \in Nat
             /\ LbnNode(e, at[2]) \in InnerNode
             /\ e.childtype = "TRACK" => d.track[e.child] \in TrackPattern
             /\ e.childtype # "TRACK" => e.child \in DOMAIN d.idx /\ e.child < at[1]
<1> DEFINE k == at[1]
           i == Lowest(LbnHere(d, at))
           e == LbnEntry(d, at)
<1>1. k \in DOMAIN d.idx /\ at[2] \in Int
  OBVIOUS
<1>2. d.idx[k] \in Seq(IdxEntry)
  BY <1>1 DEF WellFormed
<1>3. LbnHere(d, at) \subseteq Nat
  BY <1>2 DEF LbnHere
<1>4. i \in LbnHere(d, at)
  BY <1>3, LowestIs
<1>5. i \in DOMAIN d.idx[k]
  BY <1>4 DEF LbnHere
<1>6. e = d.idx[k][i]
  BY DEF LbnEntry
<1> HIDE DEF e, i, k
<1>7. /\ e \in IdxEntry
      /\ e.childtype = "TRACK" => d.track[e.child] \in TrackPattern
      /\ e.childtype # "TRACK" => e.child \in DOMAIN d.idx /\ e.child < k
  BY <1>1, <1>5, <1>6, EntryIs
<1>8. e.lbn \in Int /\ e.len \in Nat \ {0}
  BY <1>7 DEF IdxEntry
<1>9. LbnRest(d, at) \in Nat
  BY <1>1, <1>8 DEF LbnRest, e
<1>10. LbnNode(e, at[2]) \in InnerNode
  <2>1. (at[2] - e.lbn) \div e.len \in Int /\ (at[2] - e.lbn) % e.len \in Int
    BY <1>1, <1>8
  <2> QED
    BY <1>7, <2>1 DEF LbnNode, IdxNode, InnerNode
<1> QED
  BY <1>7, <1>9, <1>10 DEF e, k

\* A level asks only for levels of nodes before its own.
LEMMA LbnLevelsBelow ==
  ASSUME NEW d, WellFormed(d), NEW n \in Nat, NEW f, NEW g,
         \A at \in LbnCalls(d, n) : f[at] = g[at],
         NEW at \in LbnCalls(d, n + 1)
  PROVE  LbnLevel(d, f, at) = LbnLevel(d, g, at)
<1>1. at \in (DOMAIN d.idx) \X Int /\ at[1] <= n + 1
  BY DEF LbnCalls
<1>2. CASE LbnHere(d, at) = {}
  BY <1>2 DEF LbnLevel
<1>3. CASE LbnHere(d, at) # {}
  <2> DEFINE e == LbnEntry(d, at)
             x == LbnRest(d, at)
  <2>1. x \in Nat /\ (e.childtype # "TRACK" => e.child \in DOMAIN d.idx /\ e.child < at[1])
    BY <1>1, <1>3, LbnEntryIs
  <2>2. CASE e.childtype = "TRACK"
    BY <1>3, <2>2 DEF LbnLevel
  <2>3. CASE e.childtype # "TRACK"
    <3> HIDE DEF e, x
    <3>1. d.idx \in Seq(Seq(IdxEntry))
      BY DEF WellFormed
    <3>2. e.child \in Nat /\ at[1] \in Nat
      BY <1>1, <2>1, <2>3, <3>1
    <3>3. e.child <= n
      BY <1>1, <2>1, <2>3, <3>2
    <3>4. <<e.child, x>> \in LbnCalls(d, n)
      BY <2>1, <2>3, <3>3 DEF LbnCalls
    <3>5. f[<<e.child, x>>] = g[<<e.child, x>>]
      BY <3>4
    <3> QED
      BY <1>3, <2>3, <3>5 DEF LbnLevel, e, x
  <2> QED
    BY <2>2, <2>3
<1> QED
  BY <1>2, <1>3

\* The recursion ends: its paths are one level of it.
LEMMA LbnPathsIs ==
  ASSUME NEW d, WellFormed(d)
  PROVE  \A at \in (DOMAIN d.idx) \X Int : LbnPaths(d)[at] = LbnLevel(d, LbnPaths(d), at)
<1> DEFINE Ends(n) == \E f : f = [at \in LbnCalls(d, n) |-> LbnLevel(d, f, at)]
           T == { n \in Nat : Ends(n) }
           N == Len(d.idx)
<1>0. d.idx \in Seq(Seq(IdxEntry)) /\ N \in Nat /\ DOMAIN d.idx = 1 .. N
  BY DEF WellFormed
<1>1. Ends(0)
  <2>1. LbnCalls(d, 0) = {}
    BY <1>0 DEF LbnCalls
  <2> DEFINE f == [at \in {} |-> at]
  <2>2. f = [at \in LbnCalls(d, 0) |-> LbnLevel(d, f, at)]
    BY <2>1
  <2> QED
    BY <2>2
<1>2. ASSUME NEW n \in Nat, Ends(n) PROVE Ends(n + 1)
  <2>1. PICK f : f = [at \in LbnCalls(d, n) |-> LbnLevel(d, f, at)]
    BY <1>2
  <2> DEFINE g == [at \in LbnCalls(d, n + 1) |-> LbnLevel(d, f, at)]
  <2>2. ASSUME NEW at \in LbnCalls(d, n) PROVE f[at] = g[at]
    <3>1. at \in LbnCalls(d, n + 1)
      BY <1>0 DEF LbnCalls
    <3>2. f[at] = LbnLevel(d, f, at)
      BY <2>1
    <3> QED
      BY <3>1, <3>2
  <2> HIDE DEF g
  <2>3. \A at \in LbnCalls(d, n + 1) : LbnLevel(d, f, at) = LbnLevel(d, g, at)
    BY <2>2, LbnLevelsBelow
  <2>4. g = [at \in LbnCalls(d, n + 1) |-> LbnLevel(d, g, at)]
    BY <2>3 DEF g
  <2> QED
    BY <2>4
<1> HIDE DEF Ends
<1>3. T = Nat
  <2>1. T \subseteq Nat /\ 0 \in T /\ \A n \in T : n + 1 \in T
    BY <1>1, <1>2
  <2> HIDE DEF T
  <2> QED
    BY <2>1, OneByOne
<1>4. LbnCalls(d, N) = (DOMAIN d.idx) \X Int
  BY <1>0 DEF LbnCalls
<1>5. \E f : f = [at \in (DOMAIN d.idx) \X Int |-> LbnLevel(d, f, at)]
  <2>1. Ends(N)
    BY <1>0, <1>3
  <2> QED
    BY <1>4, <2>1 DEF Ends
<1>6. LbnPaths(d) = CHOOSE f : f = [at \in (DOMAIN d.idx) \X Int |-> LbnLevel(d, f, at)]
  BY DEF LbnPaths, LbnLevel, LbnHere, LbnEntry, LbnRest, LbnLeaf, LbnCovers
<1> DEFINE p == LbnPaths(d)
<1> HIDE DEF p
<1>7. p = [at \in (DOMAIN d.idx) \X Int |-> LbnLevel(d, p, at)]
  BY <1>5, <1>6 DEF p
<1>8. \A at \in (DOMAIN d.idx) \X Int : p[at] = LbnLevel(d, p, at)
  BY <1>7
<1> QED
  BY <1>8 DEF p

PathOrNone(path) == path = <<>> \/ IsPath(path)

LEMMA LbnPathsType ==
  ASSUME NEW d, WellFormed(d)
  PROVE  \A at \in (DOMAIN d.idx) \X Int : PathOrNone(LbnPaths(d)[at])
<1> DEFINE p == LbnPaths(d)
           Typed(n) == \A at \in LbnCalls(d, n) : PathOrNone(p[at])
           T == { n \in Nat : Typed(n) }
           N == Len(d.idx)
<1>0. d.idx \in Seq(Seq(IdxEntry)) /\ N \in Nat /\ DOMAIN d.idx = 1 .. N
  BY DEF WellFormed
<1>1. \A at \in (DOMAIN d.idx) \X Int : p[at] = LbnLevel(d, p, at)
  BY LbnPathsIs
<1> HIDE DEF p
<1>2. Typed(0)
  BY <1>0 DEF LbnCalls
<1>3. ASSUME NEW n \in Nat, Typed(n) PROVE Typed(n + 1)
  <2> SUFFICES ASSUME NEW at \in LbnCalls(d, n + 1), LbnHere(d, at) # {} PROVE PathOrNone(p[at])
    <3>1. \A at \in LbnCalls(d, n + 1) : LbnHere(d, at) = {} => p[at] = <<>>
      BY <1>1 DEF LbnCalls, LbnLevel
    <3> QED
      BY <3>1 DEF PathOrNone
  <2> DEFINE e == LbnEntry(d, at)
             x == LbnRest(d, at)
             node == LbnNode(e, at[2])
  <2>1. at \in (DOMAIN d.idx) \X Int /\ at[1] <= n + 1 /\ at[1] \in Nat
    BY <1>0 DEF LbnCalls
  <2>2. /\ x \in Nat /\ node \in InnerNode
        /\ e.childtype = "TRACK" => d.track[e.child] \in TrackPattern
        /\ e.childtype # "TRACK" => e.child \in DOMAIN d.idx /\ e.child < at[1]
    BY <2>1, LbnEntryIs
  <2>3. p[at] = LbnLevel(d, p, at)
    BY <1>1, <2>1
  <2>4. CASE e.childtype = "TRACK"
    <3> DEFINE t == d.track[e.child]
               leaf == TrackNode(t, x - t.low)
    <3>1. t \in TrackPattern
      BY <2>2, <2>4
    <3>2. LbnLeaf(t, x) \in {<<>>, <<leaf>>}
      BY DEF LbnLeaf
    <3>3. p[at] = Extend(node, LbnLeaf(t, x))
      BY <2>3, <2>4 DEF LbnLevel
    <3> HIDE DEF t
    <3>4. leaf \in LeafNode
      BY <2>2, <3>1 DEF LeafNode, TrackNode, TrackPattern
    <3> HIDE DEF leaf, node, x
    <3>5. CASE LbnLeaf(t, x) = <<>>
      BY <3>3, <3>5 DEF Extend, PathOrNone
    <3>6. CASE LbnLeaf(t, x) = <<leaf>>
      BY <2>2, <3>3, <3>4, <3>6, ShortPath DEF PathOrNone
    <3> QED
      BY <3>2, <3>5, <3>6
  <2>5. CASE e.childtype # "TRACK"
    <3> DEFINE rest == p[<<e.child, x>>]
    <3>1. p[at] = Extend(node, rest)
      BY <2>3, <2>5 DEF LbnLevel
    <3> HIDE DEF e, x, node
    <3>2. e.child <= n /\ e.child \in DOMAIN d.idx
      BY <1>0, <2>1, <2>2, <2>5
    <3>3. <<e.child, x>> \in LbnCalls(d, n)
      BY <2>2, <3>2 DEF LbnCalls
    <3>4. PathOrNone(rest)
      BY <1>3, <3>3
    <3> HIDE DEF rest
    <3>5. CASE rest = <<>>
      BY <3>1, <3>5 DEF Extend, PathOrNone
    <3>6. CASE IsPath(rest)
      BY <2>2, <3>1, <3>6, ExtendPath DEF PathOrNone
    <3> QED
      BY <3>4, <3>5, <3>6 DEF PathOrNone
  <2> QED
    BY <2>4, <2>5
<1> HIDE DEF Typed
<1>4. T = Nat
  <2>1. T \subseteq Nat /\ 0 \in T /\ \A n \in T : n + 1 \in T
    BY <1>2, <1>3
  <2> HIDE DEF T
  <2> QED
    BY <2>1, OneByOne
<1>5. Typed(N)
  BY <1>0, <1>4
<1>6. LbnCalls(d, N) = (DOMAIN d.idx) \X Int
  BY <1>0 DEF LbnCalls
<1> QED
  BY <1>5, <1>6 DEF Typed, p

RootNode(d) == IdxNode(d.idx[Len(d.idx)][1], 0, 1)

LEMMA RootNodeType ==
  ASSUME NEW d, WellFormed(d)
  PROVE  RootNode(d) \in InnerNode /\ Len(d.idx) \in DOMAIN d.idx
<1> DEFINE e == d.idx[Len(d.idx)][1]
<1>1. Len(d.idx) \in DOMAIN d.idx /\ 1 \in DOMAIN d.idx[Len(d.idx)]
  <2>1. d.idx \in Seq(Seq(IdxEntry)) /\ d.idx # <<>> /\ Root(d) # <<>>
    BY DEF WellFormed
  <2>2. Len(d.idx) \in DOMAIN d.idx
    BY <2>1
  <2>3. Root(d) \in Seq(IdxEntry)
    BY <2>1, <2>2 DEF Root
  <2>4. 1 \in DOMAIN Root(d)
    BY <2>1, <2>3
  <2> QED
    BY <2>2, <2>4 DEF Root
<1>2. e \in IdxEntry
  BY <1>1, EntryIs
<1> HIDE DEF e
<1>3. IdxNode(e, 0, 1) \in InnerNode
  BY <1>2 DEF IdxNode, InnerNode
<1> QED
  BY <1>1, <1>3 DEF RootNode, e

LEMMA LbnPathType ==
  ASSUME NEW d, WellFormed(d), NEW a \in Int
  PROVE  PathOrNone(LbnPath(d, a))
<1> DEFINE rest == LbnPaths(d)[<<Len(d.idx), a>>]
<1>1. <<Len(d.idx), a>> \in (DOMAIN d.idx) \X Int
  BY RootNodeType
<1>2. PathOrNone(rest)
  BY <1>1, LbnPathsType
<1>3. LbnPath(d, a) = Extend(RootNode(d), rest)
  BY DEF LbnPath, FromRoot, RootNode
<1> HIDE DEF rest
<1>4. CASE rest = <<>>
  BY <1>3, <1>4 DEF Extend, PathOrNone
<1>5. CASE IsPath(rest)
  BY <1>3, <1>5, RootNodeType, ExtendPath DEF PathOrNone
<1> QED
  BY <1>2, <1>4, <1>5 DEF PathOrNone

-----------------------------------------------------------------------------
(* The path to a sector *)

LEMMA CDivType ==
  ASSUME NEW a \in Int, NEW b \in Nat \ {0}
  PROVE  CDiv(a, b) \in Int /\ CMod(a, b) \in Int
<1>1. (IF a < 0 THEN -a ELSE a) \in Int /\ (IF b < 0 THEN -b ELSE b) = b
  OBVIOUS
<1>2. ((IF a < 0 THEN -a ELSE a) \div b) \in Int
  BY <1>1
<1>3. CDiv(a, b) \in Int
  BY <1>1, <1>2 DEF CDiv
<1>4. b * CDiv(a, b) \in Int
  BY <1>3
<1> QED
  BY <1>3, <1>4 DEF CMod

PbnCovers(p, e, c) ==
  /\ LowCyl(e) <= c
  /\ c <= HighCyl(e)
  /\ e.childtype = "TRACK" => p.head = e.head
PbnHere(d, p, at) == { i \in DOMAIN d.idx[at[1]] : PbnCovers(p, d.idx[at[1]][i], at[2]) }
PbnEntry(d, p, at) == d.idx[at[1]][Lowest(PbnHere(d, p, at))]
PbnRest(d, p, at) == CMod(at[2] - PbnEntry(d, p, at).cyl, PbnEntry(d, p, at).cyllen)
PbnLeft(d, p, at) == HighestIn(PbnEntry(d, p, at), CopyOf(PbnEntry(d, p, at), at[2]), at[3])
PbnLeaf(p, t, max) ==
  IF t.low <= p.sector /\ p.sector <= t.high /\ p.sector <= max
  THEN <<TrackNode(t, p.sector - t.low)>> ELSE <<>>
PbnNode(d, p, at) ==
  IdxNode(PbnEntry(d, p, at), CopyOf(PbnEntry(d, p, at), at[2]), PbnRest(d, p, at))

\* One level of g4_recurse, with f for what the next one returns.
PbnLevel(d, p, f, at) ==
  IF PbnHere(d, p, at) = {} THEN <<>>
  ELSE Extend(PbnNode(d, p, at),
              IF PbnEntry(d, p, at).childtype = "TRACK"
              THEN PbnLeaf(p, d.track[PbnEntry(d, p, at).child], PbnLeft(d, p, at))
              ELSE f[<<PbnEntry(d, p, at).child, PbnRest(d, p, at), PbnLeft(d, p, at)>>])

PbnCalls(d, n) == { at \in (DOMAIN d.idx) \X Int \X Int : at[1] <= n }

LEMMA PbnEntryIs ==
  ASSUME NEW d, WellFormed(d), NEW p, NEW at \in (DOMAIN d.idx) \X Int \X Int,
         PbnHere(d, p, at) # {}
  PROVE  LET e == PbnEntry(d, p, at)
         IN  /\ e \in IdxEntry
             /\ PbnRest(d, p, at) \in Int
             /\ PbnLeft(d, p, at) \in Int
             /\ PbnNode(d, p, at) \in InnerNode
             /\ e.childtype = "TRACK" => d.track[e.child] \in TrackPattern
             /\ e.childtype # "TRACK" => e.child \in DOMAIN d.idx /\ e.child < at[1]
<1> DEFINE k == at[1]
           i == Lowest(PbnHere(d, p, at))
           e == PbnEntry(d, p, at)
           q == CopyOf(e, at[2])
<1>1. k \in DOMAIN d.idx /\ at[2] \in Int /\ at[3] \in Int
  OBVIOUS
<1>2. d.idx[k] \in Seq(IdxEntry)
  BY <1>1 DEF WellFormed
<1>3. PbnHere(d, p, at) \subseteq Nat
  BY <1>2 DEF PbnHere
<1>4. i \in PbnHere(d, p, at)
  BY <1>3, LowestIs
<1>5. i \in DOMAIN d.idx[k]
  BY <1>4 DEF PbnHere
<1>6. e = d.idx[k][i]
  BY DEF PbnEntry
<1> HIDE DEF e, i, k
<1>7. /\ e \in IdxEntry
      /\ e.childtype = "TRACK" => d.track[e.child] \in TrackPattern
      /\ e.childtype # "TRACK" => e.child \in DOMAIN d.idx /\ e.child < k
  BY <1>1, <1>5, <1>6, EntryIs
<1>8. /\ e.cyl \in Int /\ e.cyllen \in Nat \ {0} /\ e.cylrunlen \in Int
      /\ e.lbn \in Int /\ e.len \in Nat \ {0} /\ e.runlen \in Int
  BY <1>7 DEF IdxEntry
<1>9. CDiv(at[2] - e.cyl, e.cyllen) \in Int /\ CMod(at[2] - e.cyl, e.cyllen) \in Int
  <2>1. at[2] - e.cyl \in Int
    BY <1>1, <1>8
  <2> QED
    BY <1>8, <2>1, CDivType
<1>10. q \in Int
  BY <1>8, <1>9 DEF CopyOf
<1>11. PbnRest(d, p, at) \in Int
  BY <1>9 DEF PbnRest, e
<1> HIDE DEF q
<1>12. HighestIn(e, q, at[3]) \in Int
  <2>1. (q + 1) * e.len - 1 \in Int /\ q * e.len \in Int
    BY <1>8, <1>10
  <2>2. Lesser(at[3], e.lbn + e.runlen - 1) - e.lbn \in Int
    BY <1>1, <1>8 DEF Lesser
  <2> QED
    BY <2>1, <2>2 DEF HighestIn, Lesser
<1>13. PbnLeft(d, p, at) \in Int
  BY <1>12 DEF PbnLeft, e, q
<1>14. PbnNode(d, p, at) \in InnerNode
  BY <1>7, <1>10, <1>11 DEF PbnNode, IdxNode, InnerNode, e, q
<1> QED
  BY <1>7, <1>11, <1>13, <1>14 DEF e, k

LEMMA PbnLevelsBelow ==
  ASSUME NEW d, WellFormed(d), NEW p, NEW n \in Nat, NEW f, NEW g,
         \A at \in PbnCalls(d, n) : f[at] = g[at],
         NEW at \in PbnCalls(d, n + 1)
  PROVE  PbnLevel(d, p, f, at) = PbnLevel(d, p, g, at)
<1>1. at \in (DOMAIN d.idx) \X Int \X Int /\ at[1] <= n + 1
  BY DEF PbnCalls
<1>2. CASE PbnHere(d, p, at) = {}
  BY <1>2 DEF PbnLevel
<1>3. CASE PbnHere(d, p, at) # {}
  <2> DEFINE e == PbnEntry(d, p, at)
             x == PbnRest(d, p, at)
             m == PbnLeft(d, p, at)
  <2>1. /\ x \in Int /\ m \in Int
        /\ e.childtype # "TRACK" => e.child \in DOMAIN d.idx /\ e.child < at[1]
    BY <1>1, <1>3, PbnEntryIs
  <2>2. CASE e.childtype = "TRACK"
    BY <1>3, <2>2 DEF PbnLevel
  <2>3. CASE e.childtype # "TRACK"
    <3> HIDE DEF e, x, m
    <3>1. d.idx \in Seq(Seq(IdxEntry))
      BY DEF WellFormed
    <3>2. e.child \in Nat /\ at[1] \in Nat
      BY <1>1, <2>1, <2>3, <3>1
    <3>3. e.child <= n
      BY <1>1, <2>1, <2>3, <3>2
    <3>4. <<e.child, x, m>> \in PbnCalls(d, n)
      BY <2>1, <2>3, <3>3 DEF PbnCalls
    <3>5. f[<<e.child, x, m>>] = g[<<e.child, x, m>>]
      BY <3>4
    <3> QED
      BY <1>3, <2>3, <3>5 DEF PbnLevel, e, x, m
  <2> QED
    BY <2>2, <2>3
<1> QED
  BY <1>2, <1>3

LEMMA PbnPathsIs ==
  ASSUME NEW d, WellFormed(d), NEW p
  PROVE  \A at \in (DOMAIN d.idx) \X Int \X Int :
           PbnPaths(d, p)[at] = PbnLevel(d, p, PbnPaths(d, p), at)
<1> DEFINE Ends(n) == \E f : f = [at \in PbnCalls(d, n) |-> PbnLevel(d, p, f, at)]
           T == { n \in Nat : Ends(n) }
           N == Len(d.idx)
<1>0. d.idx \in Seq(Seq(IdxEntry)) /\ N \in Nat /\ DOMAIN d.idx = 1 .. N
  BY DEF WellFormed
<1>1. Ends(0)
  <2>1. PbnCalls(d, 0) = {}
    BY <1>0 DEF PbnCalls
  <2> DEFINE f == [at \in {} |-> at]
  <2>2. f = [at \in PbnCalls(d, 0) |-> PbnLevel(d, p, f, at)]
    BY <2>1
  <2> QED
    BY <2>2
<1>2. ASSUME NEW n \in Nat, Ends(n) PROVE Ends(n + 1)
  <2>1. PICK f : f = [at \in PbnCalls(d, n) |-> PbnLevel(d, p, f, at)]
    BY <1>2
  <2> DEFINE g == [at \in PbnCalls(d, n + 1) |-> PbnLevel(d, p, f, at)]
  <2>2. ASSUME NEW at \in PbnCalls(d, n) PROVE f[at] = g[at]
    <3>1. at \in PbnCalls(d, n + 1)
      BY <1>0 DEF PbnCalls
    <3>2. f[at] = PbnLevel(d, p, f, at)
      BY <2>1
    <3> QED
      BY <3>1, <3>2
  <2> HIDE DEF g
  <2>3. \A at \in PbnCalls(d, n + 1) : PbnLevel(d, p, f, at) = PbnLevel(d, p, g, at)
    BY <2>2, PbnLevelsBelow
  <2>4. g = [at \in PbnCalls(d, n + 1) |-> PbnLevel(d, p, g, at)]
    BY <2>3 DEF g
  <2> QED
    BY <2>4
<1> HIDE DEF Ends
<1>3. T = Nat
  <2>1. T \subseteq Nat /\ 0 \in T /\ \A n \in T : n + 1 \in T
    BY <1>1, <1>2
  <2> HIDE DEF T
  <2> QED
    BY <2>1, OneByOne
<1>4. PbnCalls(d, N) = (DOMAIN d.idx) \X Int \X Int
  BY <1>0 DEF PbnCalls
<1>5. \E f : f = [at \in (DOMAIN d.idx) \X Int \X Int |-> PbnLevel(d, p, f, at)]
  <2>1. Ends(N)
    BY <1>0, <1>3
  <2> QED
    BY <1>4, <2>1 DEF Ends
<1>6. PbnPaths(d, p)
        = CHOOSE f : f = [at \in (DOMAIN d.idx) \X Int \X Int |-> PbnLevel(d, p, f, at)]
  BY DEF PbnPaths, PbnLevel, PbnHere, PbnEntry, PbnRest, PbnLeft, PbnLeaf, PbnNode, PbnCovers
<1> DEFINE paths == PbnPaths(d, p)
<1> HIDE DEF paths
<1>7. paths = [at \in (DOMAIN d.idx) \X Int \X Int |-> PbnLevel(d, p, paths, at)]
  BY <1>5, <1>6 DEF paths
<1>8. \A at \in (DOMAIN d.idx) \X Int \X Int : paths[at] = PbnLevel(d, p, paths, at)
  BY <1>7
<1> QED
  BY <1>8 DEF paths

-----------------------------------------------------------------------------
(* Two sectors of one track *)

\* Two paths that end on the same track by the same entries.
Alike(x, y) ==
  /\ Len(x) = Len(y)
  /\ \A i \in 1 .. Len(x) - 1 : x[i] = y[i]
  /\ x[Len(x)].t = y[Len(y)].t

LEMMA ExtendAlike ==
  ASSUME NEW node \in InnerNode, NEW x, NEW y, IsPath(x), IsPath(y), Alike(x, y)
  PROVE  Alike(Extend(node, x), Extend(node, y))
<1> DEFINE u == Extend(node, x)
           v == Extend(node, y)
           n == Len(x)
<1>1. n \in Nat /\ n >= 2 /\ Len(y) = n
  BY DEF IsPath, Alike
<1>3. Len(u) = n + 1 /\ u[1] = node /\ \A i \in 1 .. n : u[i + 1] = x[i]
  BY ExtendPath
<1>4. Len(v) = n + 1 /\ v[1] = node /\ \A i \in 1 .. n : v[i + 1] = y[i]
  BY <1>1, ExtendPath
<1> HIDE DEF u, v, n
<1>5. ASSUME NEW i \in 1 .. n PROVE u[i] = v[i]
  <2>1. CASE i = 1
    BY <1>3, <1>4, <2>1
  <2>2. CASE i # 1
    <3>1. i - 1 \in 1 .. n - 1 /\ i - 1 \in 1 .. n /\ (i - 1) + 1 = i
      BY <1>1, <2>2
    <3>2. u[i] = x[i - 1] /\ v[i] = y[i - 1]
      BY <1>3, <1>4, <3>1
    <3>3. x[i - 1] = y[i - 1]
      BY <3>1 DEF Alike, n
    <3> QED
      BY <3>2, <3>3
  <2> QED
    BY <2>1, <2>2
<1>6. u[n + 1] = x[n] /\ v[n + 1] = y[n]
  BY <1>1, <1>3, <1>4
<1>7. x[n].t = y[n].t
  BY <1>1 DEF Alike, n
<1>8. (n + 1) - 1 = n
  BY <1>1
<1> QED
  BY <1>3, <1>4, <1>5, <1>6, <1>7, <1>8 DEF Alike, u, v

\* The paths to a sector and to one before it on its track: if the first is found, the
\* second is, along the same entries, and each ends with the sector's number.
Paired(p, q, x, y) ==
  \/ x = <<>>
  \/ /\ IsPath(x) /\ IsPath(y) /\ Alike(x, y)
     /\ x[Len(x)].resid = p.sector /\ p.sector \in 0 .. x[Len(x)].t.high
     /\ y[Len(y)].resid = q.sector

LEMMA PairedBelow ==
  ASSUME NEW p, NEW q, NEW x, NEW y, NEW node \in InnerNode, Paired(p, q, x, y)
  PROVE  Paired(p, q, Extend(node, x), Extend(node, y))
<1>1. CASE x = <<>>
  BY <1>1 DEF Paired, Extend
<1>2. CASE x # <<>>
  <2>1. IsPath(x) /\ IsPath(y) /\ Alike(x, y)
    BY <1>2 DEF Paired
  <2>2. /\ IsPath(Extend(node, x)) /\ Extend(node, x)[Len(Extend(node, x))] = x[Len(x)]
        /\ IsPath(Extend(node, y)) /\ Extend(node, y)[Len(Extend(node, y))] = y[Len(y)]
    BY <2>1, ExtendPath
  <2>3. Alike(Extend(node, x), Extend(node, y))
    BY <2>1, ExtendAlike
  <2> QED
    BY <1>2, <2>2, <2>3 DEF Paired
<1> QED
  BY <1>1, <1>2

\* At a track.
LEMMA PairedLeaf ==
  ASSUME NEW p, NEW q, p.sector \in Int, q.sector \in Int,
         0 <= p.sector => 0 <= q.sector /\ q.sector <= p.sector,
         NEW node \in InnerNode, NEW t \in TrackPattern, NEW max \in Int
  PROVE  Paired(p, q, Extend(node, PbnLeaf(p, t, max)), Extend(node, PbnLeaf(q, t, max)))
<1> DEFINE x == TrackNode(t, p.sector)
           y == TrackNode(t, q.sector)
<1>1. t.low = 0 /\ t.high \in Nat
  BY DEF TrackPattern
<1>2. p.sector - t.low = p.sector /\ q.sector - t.low = q.sector
  BY <1>1
<1>3. CASE 0 <= p.sector /\ p.sector <= t.high /\ p.sector <= max
  <2>1. PbnLeaf(p, t, max) = <<x>> /\ PbnLeaf(q, t, max) = <<y>>
    BY <1>1, <1>2, <1>3 DEF PbnLeaf
  <2>2. x \in LeafNode /\ y \in LeafNode
    BY DEF LeafNode, TrackNode
  <2>3. x.t = y.t /\ x.t = t /\ x.resid = p.sector /\ y.resid = q.sector
    BY DEF TrackNode
  <2> HIDE DEF x, y
  <2> DEFINE u == Extend(node, <<x>>)
             v == Extend(node, <<y>>)
  <2>4. IsPath(u) /\ u[Len(u)] = x /\ IsPath(v) /\ v[Len(v)] = y
    BY <2>2, ShortPath
  <2>5. Len(u) = 2 /\ Len(v) = 2 /\ u[1] = node /\ v[1] = node
    BY <2>2, ShortPath
  <2> HIDE DEF u, v
  <2>6. Alike(u, v)
    <3>1. \A i \in 1 .. Len(u) - 1 : u[i] = v[i]
      BY <2>5
    <3> QED
      BY <2>3, <2>4, <2>5, <3>1 DEF Alike
  <2>7. p.sector \in 0 .. t.high
    BY <1>1, <1>3
  <2> QED
    BY <2>1, <2>3, <2>4, <2>6, <2>7 DEF Paired, u, v
<1>4. CASE ~(0 <= p.sector /\ p.sector <= t.high /\ p.sector <= max)
  <2>1. PbnLeaf(p, t, max) = <<>>
    BY <1>1, <1>4 DEF PbnLeaf
  <2> QED
    BY <2>1 DEF Paired, Extend
<1> QED
  BY <1>3, <1>4

LEMMA PbnPathsPaired ==
  ASSUME NEW d, WellFormed(d), NEW p, NEW q, p.head = q.head, p.sector \in Int, q.sector \in Int,
         0 <= p.sector => 0 <= q.sector /\ q.sector <= p.sector
  PROVE  \A at \in (DOMAIN d.idx) \X Int \X Int :
           Paired(p, q, PbnPaths(d, p)[at], PbnPaths(d, q)[at])
<1> DEFINE f == PbnPaths(d, p)
           g == PbnPaths(d, q)
           Pairs(n) == \A at \in PbnCalls(d, n) : Paired(p, q, f[at], g[at])
           T == { n \in Nat : Pairs(n) }
           N == Len(d.idx)
<1>0. d.idx \in Seq(Seq(IdxEntry)) /\ N \in Nat /\ DOMAIN d.idx = 1 .. N
  BY DEF WellFormed
<1>1. \A at \in (DOMAIN d.idx) \X Int \X Int :
        f[at] = PbnLevel(d, p, f, at) /\ g[at] = PbnLevel(d, q, g, at)
  BY PbnPathsIs
<1> HIDE DEF f, g
<1>2. Pairs(0)
  BY <1>0 DEF PbnCalls
<1>3. ASSUME NEW n \in Nat, Pairs(n) PROVE Pairs(n + 1)
  <2> SUFFICES ASSUME NEW at \in PbnCalls(d, n + 1) PROVE Paired(p, q, f[at], g[at])
    OBVIOUS
  <2>1. at \in (DOMAIN d.idx) \X Int \X Int /\ at[1] <= n + 1 /\ at[1] \in Nat
    BY <1>0 DEF PbnCalls
  <2>2. PbnHere(d, q, at) = PbnHere(d, p, at)
    BY DEF PbnHere, PbnCovers
  <2>3. /\ PbnEntry(d, q, at) = PbnEntry(d, p, at)
        /\ PbnRest(d, q, at) = PbnRest(d, p, at)
        /\ PbnLeft(d, q, at) = PbnLeft(d, p, at)
        /\ PbnNode(d, q, at) = PbnNode(d, p, at)
    BY <2>2 DEF PbnEntry, PbnRest, PbnLeft, PbnNode
  <2>4. f[at] = PbnLevel(d, p, f, at) /\ g[at] = PbnLevel(d, q, g, at)
    BY <1>1, <2>1
  <2>5. CASE PbnHere(d, p, at) = {}
    BY <2>4, <2>5 DEF PbnLevel, Paired
  <2>6. CASE PbnHere(d, p, at) # {}
    <3> DEFINE e == PbnEntry(d, p, at)
               c == PbnRest(d, p, at)
               m == PbnLeft(d, p, at)
               node == PbnNode(d, p, at)
    <3>1. /\ c \in Int /\ m \in Int /\ node \in InnerNode
          /\ e.childtype = "TRACK" => d.track[e.child] \in TrackPattern
          /\ e.childtype # "TRACK" => e.child \in DOMAIN d.idx /\ e.child < at[1]
      BY <2>1, <2>6, PbnEntryIs
    <3>2. CASE e.childtype = "TRACK"
      <4> DEFINE t == d.track[e.child]
      <4>1. f[at] = Extend(node, PbnLeaf(p, t, m)) /\ g[at] = Extend(node, PbnLeaf(q, t, m))
        BY <2>2, <2>3, <2>4, <2>6, <3>2 DEF PbnLevel
      <4>2. t \in TrackPattern
        BY <3>1, <3>2
      <4> HIDE DEF node, t, m
      <4> QED
        BY <3>1, <4>1, <4>2, PairedLeaf
    <3>3. CASE e.childtype # "TRACK"
      <4> DEFINE next == <<e.child, c, m>>
      <4>1. f[at] = Extend(node, f[next]) /\ g[at] = Extend(node, g[next])
        BY <2>2, <2>3, <2>4, <2>6, <3>3 DEF PbnLevel
      <4> HIDE DEF e, c, m, node
      <4>2. e.child <= n /\ e.child \in DOMAIN d.idx
        BY <1>0, <2>1, <3>1, <3>3
      <4>3. next \in PbnCalls(d, n)
        BY <3>1, <4>2 DEF PbnCalls
      <4>4. Paired(p, q, f[next], g[next])
        BY <1>3, <4>3
      <4> HIDE DEF next
      <4> QED
        BY <3>1, <4>1, <4>4, PairedBelow
    <3> QED
      BY <3>2, <3>3
  <2> QED
    BY <2>5, <2>6
<1> HIDE DEF Pairs
<1>4. T = Nat
  <2>1. T \subseteq Nat /\ 0 \in T /\ \A n \in T : n + 1 \in T
    BY <1>2, <1>3
  <2> HIDE DEF T
  <2> QED
    BY <2>1, OneByOne
<1>5. Pairs(N)
  BY <1>0, <1>4
<1>6. PbnCalls(d, N) = (DOMAIN d.idx) \X Int \X Int
  BY <1>0 DEF PbnCalls
<1> QED
  BY <1>5, <1>6 DEF Pairs, f, g

LEMMA TopAddressType ==
  ASSUME NEW d, WellFormed(d)
  PROVE  TopAddress(d) \in Int
<1>1. d.sectors - 1 \in Int /\ d.slips \in Seq(SlipEntry) /\ d.slips # <<>>
  BY DEF WellFormed
<1>2. slipcount_rev(d.slips, d.sectors - 1) \in Int
  BY <1>1, SlipcountType
<1> QED
  BY <1>1, <1>2 DEF TopAddress

LEMMA PbnPathPaired ==
  ASSUME NEW d, WellFormed(d), NEW p, NEW q, p.cyl \in Int, p.cyl = q.cyl, p.head = q.head,
         p.sector \in Int, q.sector \in Int,
         0 <= p.sector => 0 <= q.sector /\ q.sector <= p.sector
  PROVE  Paired(p, q, PbnPath(d, p), PbnPath(d, q))
<1> DEFINE at == <<Len(d.idx), p.cyl, TopAddress(d)>>
           x == PbnPaths(d, p)[at]
           y == PbnPaths(d, q)[at]
<1>1. at \in (DOMAIN d.idx) \X Int \X Int
  BY RootNodeType, TopAddressType
<1>2. Paired(p, q, x, y)
  BY <1>1, PbnPathsPaired
<1>3. PbnPath(d, p) = Extend(RootNode(d), x) /\ PbnPath(d, q) = Extend(RootNode(d), y)
  BY DEF PbnPath, FromRoot, RootNode
<1> HIDE DEF x, y
<1> QED
  BY <1>2, <1>3, RootNodeType, PairedBelow

LEMMA IdxNodesAre ==
  ASSUME NEW path, IsPath(path)
  PROVE  /\ IdxNodes(path) = [i \in 1 .. Len(path) - 1 |-> path[i]]
         /\ IdxNodes(path) \in Seq(InnerNode)
         /\ Len(IdxNodes(path)) = Len(path) - 1
<1> DEFINE n == Len(path) - 1
           s == [i \in 1 .. n |-> path[i]]
<1>1. path \in Seq(InnerNode \cup LeafNode) /\ n \in Nat /\ n >= 1
  BY DEF IsPath
<1>2. IdxNodes(path) = s
  <2>1. IdxNodes(path) = [i \in 1 .. (1 + n) - 1 |-> path[(i + 1) - 1]]
    BY DEF IdxNodes
  <2>2. (1 + n) - 1 = n /\ \A i \in 1 .. n : (i + 1) - 1 = i
    BY <1>1
  <2> QED
    BY <2>1, <2>2
<1>3. s \in Seq(InnerNode) /\ Len(s) = n
  <2>1. \A i \in 1 .. n : path[i] \in InnerNode
    BY DEF IsPath
  <2> QED
    BY <1>1, <2>1
<1> QED
  BY <1>2, <1>3

LEMMA AlikeNodes ==
  ASSUME NEW x, NEW y, IsPath(x), IsPath(y), Alike(x, y)
  PROVE  IdxNodes(x) = IdxNodes(y) /\ TrackOf(x) = TrackOf(y)
<1>1. Len(x) - 1 = Len(y) - 1 /\ \A i \in 1 .. Len(x) - 1 : x[i] = y[i]
  BY DEF Alike
<1>2. [i \in 1 .. Len(x) - 1 |-> x[i]] = [i \in 1 .. Len(y) - 1 |-> y[i]]
  BY <1>1
<1> QED
  BY <1>2, IdxNodesAre DEF Alike, TrackOf

\* How far the entries of a path turn the start of its track.
TurnAlong(nodes) ==
  Total([i \in DOMAIN nodes |-> nodes[i].e.off + nodes[i].quot * nodes[i].e.alen])

LEMMA TurnAlongType ==
  ASSUME NEW nodes \in Seq(InnerNode)
  PROVE  TurnAlong(nodes) \in Int
<1> DEFINE terms == [i \in DOMAIN nodes |-> nodes[i].e.off + nodes[i].quot * nodes[i].e.alen]
<1>1. ASSUME NEW i \in DOMAIN nodes PROVE terms[i] \in Int
  <2>1. nodes[i] \in InnerNode
    OBVIOUS
  <2>2. nodes[i].e.off \in Int /\ nodes[i].quot \in Int /\ nodes[i].e.alen \in Int
    BY <2>1 DEF InnerNode, IdxEntry
  <2> QED
    BY <2>2
<1>2. DOMAIN nodes = 1 .. Len(nodes)
  OBVIOUS
<1>3. terms \in Seq(Int)
  <2> DEFINE v(i) == nodes[i].e.off + nodes[i].quot * nodes[i].e.alen
  <2>1. \A i \in 1 .. Len(nodes) : v(i) \in Int
    BY <1>1, <1>2
  <2> HIDE DEF v
  <2>2. [i \in 1 .. Len(nodes) |-> v(i)] \in Seq(Int)
    BY <2>1
  <2> QED
    BY <1>2, <2>2 DEF v
<1> HIDE DEF terms
<1> QED
  BY <1>3, TotalType DEF TurnAlong, terms

LEMMA SkewIs ==
  ASSUME NEW d, NEW p, IsPath(PbnPath(d, p))
  PROVE  LET path == PbnPath(d, p)
         IN  g4_skew(d, p) = (TurnAlong(IdxNodes(path))
                               + path[Len(path)].resid * SectorAngle(TrackOf(path).spt)) % Circle
<1>1. PbnPath(d, p) # <<>>
  BY DEF IsPath
<1> QED
  BY <1>1 DEF g4_skew, TurnAlong, TrackOf

\* The sectors of a track follow each other from its first at equal angles.
LEMMA TrackTurns ==
  ASSUME NEW d, WellFormed(d), NEW p, NEW q, p.cyl \in Int, p.sector \in Int,
         q.cyl = p.cyl, q.head = p.head, q.sector = 0, PbnPath(d, p) # <<>>
  PROVE  LET n == TrackOf(PbnPath(d, p)).spt
         IN  /\ PbnPath(d, q) # <<>> /\ TrackOf(PbnPath(d, q)).spt = n
             /\ n \in 2 .. Circle /\ p.sector \in 0 .. n - 1
             /\ g4_skew(d, q) \in 0 .. Circle - 1
             /\ g4_skew(d, p) = (g4_skew(d, q) + p.sector * SectorAngle(n)) % Circle
<1> DEFINE x == PbnPath(d, p)
           y == PbnPath(d, q)
           n == TrackOf(x).spt
           w == SectorAngle(n)
           turn == TurnAlong(IdxNodes(x))
           k == p.sector
<1>1. Paired(p, q, x, y)
  <2>1. 0 <= p.sector => 0 <= q.sector /\ q.sector <= p.sector
    OBVIOUS
  <2>2. q.sector \in Int
    OBVIOUS
  <2> QED
    BY <2>1, <2>2, PbnPathPaired
<1> HIDE DEF x, y
<1>2. /\ IsPath(x) /\ IsPath(y) /\ Alike(x, y)
      /\ x[Len(x)].resid = k /\ k \in 0 .. x[Len(x)].t.high
      /\ y[Len(y)].resid = 0
  BY <1>1 DEF Paired, x
<1>3. x[Len(x)].t \in TrackPattern /\ y # <<>>
  BY <1>2 DEF IsPath, LeafNode
<1>4. n \in 2 .. Circle /\ k \in 0 .. n - 1
  <2>1. n \in 2 .. Circle /\ x[Len(x)].t.high \in Nat /\ x[Len(x)].t.high < n
    BY <1>3 DEF TrackPattern, TrackOf
  <2>2. n \in Int
    BY <2>1, AnglesType
  <2> QED
    BY <1>2, <2>1, <2>2
<1>5. IdxNodes(y) = IdxNodes(x) /\ TrackOf(y) = TrackOf(x)
  BY <1>2, AlikeNodes
<1>6. turn \in Int
  BY <1>2, IdxNodesAre, TurnAlongType
<1>7. g4_skew(d, p) = (turn + k * w) % Circle
  BY <1>2, SkewIs DEF x
<1>8. g4_skew(d, q) = (turn + 0 * w) % Circle
  BY <1>2, <1>5, SkewIs DEF y
<1>9. w \in Nat /\ k * w \in Int
  <2>1. n \in 1 .. Circle
    BY <1>4, AnglesType
  <2>2. w \in 1 .. Circle /\ k * w \in 0 .. Circle - 1
    BY <1>4, <2>1, SectorAngleType
  <2> QED
    BY <2>2, AnglesType
<1> HIDE DEF turn, n, w, k
<1>10. g4_skew(d, q) = turn % Circle
  BY <1>6, <1>8, <1>9
<1>11. turn % Circle \in 0 .. Circle - 1 /\ turn % Circle \in Int
  <2>1. turn % Circle \in 0 .. Circle - 1
    BY <1>6, CongMod
  <2> QED
    BY <2>1, AnglesType
<1>12. ((turn % Circle) + k * w) % Circle = (turn + k * w) % Circle
  <2> DEFINE r == (turn + k * w) % Circle
  <2>1. turn + k * w \in Int
    BY <1>6, <1>9
  <2>2. r \in 0 .. Circle - 1 /\ Cong(turn + k * w, r)
    BY <2>1, CongMod
  <2>3. Cong(turn % Circle, turn)
    BY <1>6, CongMod
  <2>4. Cong((turn % Circle) + k * w, turn + k * w)
    BY <1>6, <1>9, <1>11, <2>3, CongSame, CongSum
  <2> HIDE DEF r
  <2>5. (turn % Circle) + k * w \in Int /\ r \in Int
    BY <1>9, <1>11, <2>2, AnglesType
  <2>6. Cong((turn % Circle) + k * w, r)
    BY <2>1, <2>2, <2>4, <2>5, CongOn
  <2>7. ((turn % Circle) + k * w) % Circle = r
    BY <2>2, <2>6, CongOnly
  <2> QED
    BY <2>7 DEF r
<1> QED
  BY <1>3, <1>4, <1>5, <1>7, <1>10, <1>11, <1>12 DEF n, w, k, x, y

LEMMA NoRemap ==
  ASSUME NEW d, d.remaps = <<>>, NEW p
  PROVE  ~PbnRemapped(d, p)
<1>1. DOMAIN d.remaps = {}
  OBVIOUS
<1> QED
  BY <1>1 DEF PbnRemapped

LEMMA HeldHasPath ==
  ASSUME NEW d, NEW p, ~PbnRemapped(d, p), ~(ptol(d, p) < 0)
  PROVE  PbnPath(d, p) # <<>>
<1> SUFFICES ASSUME PbnPath(d, p) = <<>> PROVE FALSE
  OBVIOUS
<1>1. ptol(d, p) = -4
  BY DEF ptol, LbnOf, DM_NX
<1> QED
  BY <1>1

\* A layout file without remaps keeps the promise EvenTracks of MechService, however
\* many nodes its index has: where an LBN is, the sectors of the track turn evenly.
THEOREM TreesHaveEvenTracks ==
  ASSUME NEW d, WellFormed(d), d.remaps = <<>>, FindsLbns(d)
  PROVE  EvenTracks(d)
<1> SUFFICES ASSUME NEW lbn \in 0 .. d.sectors - 1 PROVE EvenTrack(d, SectorOf(d, lbn))
  BY DEF EvenTracks
<1> DEFINE p == SectorOf(d, lbn)
           q == TrackAt(p)
           n == g4_spt_pbn(d, q)
           first == g4_skew(d, q)
<1>1. d.sectors \in Nat /\ d.cyls \in Nat /\ d.heads \in Nat
  BY DEF WellFormed
<1>2. p \in [cyl : Cylinders(d), head : 0 .. d.heads - 1, sector : 0 .. Circle - 1] /\ ptol(d, p) = lbn
  BY DEF FindsLbns
<1> HIDE DEF p
<1>3. p.cyl \in Int /\ p.sector \in Int
  BY <1>1, <1>2, AnglesType DEF Cylinders
<1>4. PbnPath(d, p) # <<>>
  <2>1. ~(ptol(d, p) < 0)
    BY <1>1, <1>2
  <2> QED
    BY <2>1, NoRemap, HeldHasPath
<1>5. q.cyl = p.cyl /\ q.head = p.head /\ q.sector = 0
  BY DEF TrackAt
<1>6. PbnPath(d, q) # <<>> /\ TrackOf(PbnPath(d, q)).spt \in 2 .. Circle /\ first \in 0 .. Circle - 1
  BY <1>3, <1>4, <1>5, TrackTurns
<1>7. \A x : g4_spt_pbn(d, x) = PathSpt(PbnPath(d, x))
  BY NoRemap DEF g4_spt_pbn
<1>8. n = TrackOf(PbnPath(d, q)).spt
  BY <1>6, <1>7 DEF PathSpt
<1> HIDE DEF q, n, first
<1>9. ASSUME NEW k \in Int, PbnPath(d, SectorAt(p, k)) # <<>>
      PROVE  /\ g4_sector_width(d, SectorAt(p, k), 1) = SectorAngle(n)
             /\ k < n
             /\ g4_spt_pbn(d, SectorAt(p, k)) = n
             /\ g4_skew(d, SectorAt(p, k)) = (first + k * SectorAngle(n)) % Circle
  <2> DEFINE s == SectorAt(p, k)
  <2>1. s.cyl = p.cyl /\ s.head = p.head /\ s.sector = k
    BY DEF SectorAt
  <2> HIDE DEF s
  <2>2. PbnPath(d, s) # <<>>
    BY <1>9 DEF s
  <2>3. q.cyl = s.cyl /\ q.head = s.head
    BY <1>5, <2>1
  <2>4. /\ TrackOf(PbnPath(d, s)).spt = n
        /\ s.sector \in 0 .. n - 1
        /\ g4_skew(d, s) = (first + k * SectorAngle(n)) % Circle
    BY <1>3, <1>5, <1>8, <2>1, <2>2, <2>3, TrackTurns DEF first
  <2>5. g4_spt_pbn(d, s) = n
    BY <1>7, <2>2, <2>4 DEF PathSpt
  <2>6. g4_sector_width(d, s, 1) = SectorAngle(n)
    BY <2>2, <2>4, NoRemap DEF g4_sector_width
  <2>7. k < n
    BY <1>6, <1>8, <2>1, <2>4, AnglesType
  <2> QED
    BY <2>4, <2>5, <2>6, <2>7 DEF s
<1>10. ASSUME NEW k \in 0 .. n - 1
       PROVE  g4_sector_width(d, SectorAt(p, k), 1) \in {0, SectorAngle(n)}
  <2>1. k \in Int
    OBVIOUS
  <2>2. CASE PbnPath(d, SectorAt(p, k)) = <<>>
    BY <2>2, NoRemap DEF g4_sector_width
  <2>3. CASE PbnPath(d, SectorAt(p, k)) # <<>>
    BY <1>9, <2>1, <2>3
  <2> QED
    BY <2>2, <2>3
<1>11. ASSUME NEW k \in 0 .. Circle - 1, ~(ptol(d, SectorAt(p, k)) < 0)
       PROVE  /\ k < n
              /\ g4_spt_pbn(d, SectorAt(p, k)) = n
              /\ g4_skew(d, SectorAt(p, k)) = (first + k * SectorAngle(n)) % Circle
  <2>1. PbnPath(d, SectorAt(p, k)) # <<>>
    BY <1>11, NoRemap, HeldHasPath
  <2>2. k \in Int
    OBVIOUS
  <2> QED
    BY <1>9, <2>1, <2>2
<1>12. n \in 1 .. Circle
  BY <1>6, <1>8, AnglesType
<1> QED
  BY <1>6, <1>10, <1>11, <1>12 DEF EvenTrack, n, first, q, p

\* When ltop finds an LBN, what it returns does not depend on the struct the caller
\* passes (layout_g4.c:408-447).
LEMMA SectorAnyStruct ==
  ASSUME NEW d, NEW lbn, NEW old, ltop(d, lbn, Origin).status = DM_OK
  PROVE  ltop(d, lbn, old).pbn = SectorOf(d, lbn)
<1>1. CASE ~LbnExists(d, lbn)
  BY <1>1 DEF ltop, DM_OK, DM_NX
<1>2. CASE LbnExists(d, lbn) /\ LbnRemapped(d, lbn)
  BY <1>2 DEF ltop, SectorOf
<1>3. CASE LbnExists(d, lbn) /\ ~LbnRemapped(d, lbn)
  <2> DEFINE path == LbnPath(d, Shifted(d, lbn))
  <2> HIDE DEF path
  <2>1. \A o : ltop(d, lbn, o) = EndOf(path, o, slipcount(d.slips, lbn))
    BY <1>3 DEF ltop, path
  <2>2. path # <<>>
    BY <2>1 DEF EndOf, DM_OK, DM_NX
  <2> QED
    BY <2>1, <2>2 DEF EndOf, SectorOf
<1> QED
  BY <1>1, <1>2, <1>3
=============================================================================

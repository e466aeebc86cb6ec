-------------------------- MODULE RoundTripsProofs --------------------------
(***************************************************************************)
(* Proofs about round trips: the walk of the fills (FillPairing), the rows *)
(* the simulator writes fill by fill (RoundTrips), and the record of them  *)
(* (TradeJournal), for any number of fills, of any sizes and prices.       *)
(*                                                                         *)
(* The log only grows at its end, so what holds of the walk of a log is    *)
(* carried by one more fill: FoldByAppend makes each computation over the  *)
(* log a step from the log before.  TripsAccounted is the invariant behind *)
(* the cash and the ids, SimCut the one that keeps the simulator's row     *)
(* beside the walk's open trip.  Averages are fractions in lowest terms,   *)
(* and two computations of one average are equal because those are unique  *)
(* (SameRatio).                                                            *)
(*                                                                         *)
(* JournalInv is the invariant of the record.  What a sync has fetched is  *)
(* compared with what happened: one that missed nothing has every fill but *)
(* a last activity that is not booked yet (Told), and that one is exactly  *)
(* what the lapsed contracts stand for, or leaves the closed trips as they *)
(* were.  What any sync may write is named by orders of the life it began  *)
(* in, so that it touches no row of another.                               *)
(***************************************************************************)
EXTENDS RoundTrips, TradeJournal, SumLemmas

-----------------------------------------------------------------------------
(* Fractions.                                                              *)

LEMMA Cancel ==
  ASSUME NEW b \in Nat, b > 0, NEW x \in Int, NEW y \in Int, x * b = y * b
  PROVE  x = y
OBVIOUS

LEMMA Regroup ==
  ASSUME NEW x \in Int, NEW y \in Int, NEW z \in Int
  PROVE  /\ x * y \in Int /\ x * y = y * x /\ (x * y) * z = x * (y * z) /\ (x * y) * z = (x * z) * y
         /\ (x + y) * z = x * z + y * z /\ (x - y) * z = x * z - y * z
OBVIOUS

LEMMA Quotient ==
  ASSUME NEW a \in Int, NEW g \in Nat, g > 0
  PROVE  /\ a \div g \in Int /\ a % g \in 0..(g - 1)
         /\ a = (a \div g) * g + (a % g)
OBVIOUS

\* b is a divisor of a.
Divides(g, a) == \E q \in Int : a = q * g

LEMMA DividesIs ==
  ASSUME NEW a \in Int, NEW g \in Nat, g > 0
  PROVE  Divides(g, a) <=> a % g = 0
<1>1. ASSUME NEW q \in Int
      PROVE  (q * g) % g = 0
  OBVIOUS
<1>2. a % g = 0 => a = (a \div g) * g /\ a \div g \in Int
  BY Quotient
<1>3. QED
  BY <1>1, <1>2 DEF Divides

LEMMA SmallestOf ==
  ASSUME NEW S \in SUBSET Nat, S # {}
  PROVE  \E m \in S : \A y \in S : m <= y
<1>1. PICK b \in S : b \in Nat
  OBVIOUS
<1> DEFINE T == {z \in 0..b : b - z \in S}
<1>2. IsFiniteSet(T)
  <2>1. IsFiniteSet(0..b) /\ T \subseteq 0..b
    BY <1>1, FS_Interval
  <2>2. QED
    BY <2>1, FS_Subset
<1>3. 0 \in T
  BY <1>1
<1>4. Numbers(T)
  BY DEF Numbers
<1>5. Max(T) \in T /\ \A z \in T : Max(T) >= z
  BY <1>2, <1>3, <1>4, MaxIsIn, Zenon
<1>6. PICK z \in T : \A x \in T : z >= x
  BY <1>5
<1>7. ASSUME NEW y \in S
      PROVE  b - z <= y
  <2>1. CASE y > b
    BY <1>1, <2>1
  <2>2. CASE y <= b
    <3>1. b - y \in T
      <4>1. b - (b - y) = y /\ b - y \in 0..b
        BY <1>1, <2>2
      <4>2. QED
        BY <4>1
    <3>2. QED
      BY <1>1, <1>6, <3>1
  <2>3. QED
    BY <1>1, <2>1, <2>2
<1>8. QED
  BY <1>7

\* A fraction in lowest terms is the fraction it was made of, divided by the
\* greatest number that divides both parts.
LEMMA RatioIs ==
  ASSUME NEW n \in Int, NEW d \in Nat, d > 0
  PROVE  \E x \in Int, y \in Nat, g \in Nat :
           /\ Ratio(n, d) = [num |-> x, den |-> y] /\ y > 0 /\ g > 0 /\ n = x * g /\ d = y * g
           /\ \A j \in Nat : j > g => ~(Divides(j, n) /\ Divides(j, d))
<1> DEFINE m == IF n < 0 THEN -n ELSE n
           Best(k) == /\ d % k = 0 /\ m % k = 0
                      /\ \A j \in (k + 1)..d : d % j # 0 \/ m % j # 0
           g == CHOOSE k \in 1..d : Best(k)
<1>0. m \in Int
  OBVIOUS
<1>1. \A j \in Nat : j > 0 => (m % j = 0 <=> Divides(j, n))
  <2>1. TAKE j \in Nat
  <2>2. HAVE j > 0
  <2>3. m % j = 0 <=> Divides(j, m)
    BY <1>0, <2>2, DividesIs
  <2>4. ASSUME NEW a \in Int, Divides(j, a)
        PROVE  Divides(j, -a)
    <3>1. PICK q \in Int : a = q * j
      BY <2>4 DEF Divides
    <3>2. -a = (-q) * j /\ -q \in Int
      BY <3>1
    <3>3. QED
      BY <3>2 DEF Divides
  <2>5. CASE n < 0
    <3>1. m = -n /\ n = -m
      BY <2>5
    <3>2. Divides(j, m) => Divides(j, -m)
      BY <1>0, <2>4
    <3>3. Divides(j, n) => Divides(j, -n)
      BY <2>4
    <3>4. QED
      BY <2>3, <3>1, <3>2, <3>3
  <2>6. CASE n >= 0
    BY <2>3, <2>6
  <2>7. QED
    BY <2>5, <2>6
<1> DEFINE S == {z \in 0..(d - 1) : d % (d - z) = 0 /\ m % (d - z) = 0}
<1> HIDE DEF m
<1>2. \E k \in 1..d : Best(k)
  <2>1. PICK T : T = {z \in Nat : z < d /\ d % (d - z) = 0 /\ m % (d - z) = 0}
    OBVIOUS
  <2>2. d - 1 \in T
    <3>1. d - (d - 1) = 1 /\ d % 1 = 0 /\ m % 1 = 0 /\ d - 1 \in Nat /\ d - 1 < d
      BY <1>0
    <3>2. QED
      BY <2>1, <3>1
  <2>3. T \in SUBSET Nat /\ T # {}
    BY <2>1, <2>2
  <2>4. PICK z \in T : \A y \in T : z <= y
    BY <2>3, SmallestOf
  <2>5. z \in Nat /\ z < d /\ d % (d - z) = 0 /\ m % (d - z) = 0
    BY <2>1, <2>4
  <2>6. PICK k \in 1..d : k = d - z
    BY <2>5
  <2>7. ASSUME NEW j \in (k + 1)..d, d % j = 0, m % j = 0
        PROVE  FALSE
    <3>1. d - j \in Nat /\ d - j < d /\ d - (d - j) = j /\ d - j < z
      BY <2>5, <2>6
    <3>2. d - j \in T
      BY <2>1, <2>7, <3>1
    <3>3. QED
      BY <2>4, <2>5, <3>1, <3>2
  <2>8. Best(k)
    BY <2>5, <2>6, <2>7
  <2>9. QED
    BY <2>8
<1>3. g \in 1..d /\ Best(g)
  <2> HIDE DEF Best
  <2>1. QED
    BY <1>2
<1>4. Ratio(n, d) = [num |-> n \div g, den |-> d \div g]
  BY DEF Ratio, m
<1> HIDE DEF g
<1>5. PICK k \in Nat : k = g /\ k > 0 /\ k <= d
  BY <1>3
<1>6. d % k = 0 /\ m % k = 0 /\ \A j \in (k + 1)..d : d % j # 0 \/ m % j # 0
  BY <1>3, <1>5
<1>7. Divides(k, n) /\ n % k = 0
  BY <1>1, <1>5, <1>6, DividesIs
<1>8. PICK x \in Int : x = n \div k /\ n = x * k
  BY <1>5, <1>7, Quotient
<1>9. PICK y \in Int : y = d \div k /\ d = y * k
  BY <1>5, <1>6, Quotient
<1>10. y \in Nat /\ y > 0
  BY <1>5, <1>9
<1>11. \A j \in Nat : j > k => ~(Divides(j, n) /\ Divides(j, d))
  <2>1. TAKE j \in Nat
  <2>2. HAVE j > k
  <2>3. SUFFICES ASSUME Divides(j, n), Divides(j, d)
                 PROVE  FALSE
    OBVIOUS
  <2>4. d % j = 0 /\ m % j = 0
    BY <1>1, <1>5, <2>2, <2>3, DividesIs
  <2>5. PICK q \in Int : d = q * j
    BY <2>3 DEF Divides
  <2>6. j <= d
    BY <1>5, <2>2, <2>5
  <2>7. j \in (k + 1)..d
    BY <1>5, <2>2, <2>6
  <2>8. QED
    BY <1>6, <2>4, <2>7
<1>12. QED
  BY <1>4, <1>5, <1>8, <1>9, <1>10, <1>11

LEMMA RatioEquals ==
  ASSUME NEW n \in Int, NEW d \in Nat, d > 0
  PROVE  \E x \in Int, y \in Nat : Ratio(n, d) = [num |-> x, den |-> y] /\ y > 0 /\ x * d = n * y
<1>1. PICK x \in Int, y \in Nat, g \in Nat :
        /\ Ratio(n, d) = [num |-> x, den |-> y] /\ y > 0 /\ g > 0 /\ n = x * g /\ d = y * g
        /\ \A j \in Nat : j > g => ~(Divides(j, n) /\ Divides(j, d))
  BY RatioIs
<1>2. x * (y * g) = (x * g) * y
  BY Regroup
<1>3. QED
  BY <1>1, <1>2

\* Of all ways to write a fraction, the lowest terms have the least denominator.
LEMMA LowestIs ==
  ASSUME NEW a \in Int, NEW b \in Nat, b > 0, NEW u \in Int, NEW v \in Nat, v > 0, u * b = a * v
  PROVE  LET r == Ratio(a, b)
         IN  r.num \in Int /\ r.den \in Nat /\ r.den > 0 /\ r.num * b = a * r.den /\ r.den <= v
<1> DEFINE D == {y \in Nat : y > 0 /\ \E x \in Int : x * b = a * y}
<1>1. D \in SUBSET Nat /\ D # {}
  OBVIOUS
<1>2. PICK m \in D : \A y \in D : m <= y
  <2> HIDE DEF D
  <2>1. QED
    BY <1>1, SmallestOf
<1>3. m \in Nat /\ m > 0
  OBVIOUS
<1>4. PICK x0 \in Int : x0 * b = a * m
  OBVIOUS
<1>5. ASSUME NEW y \in Nat, y > 0, NEW x \in Int, x * b = a * y
      PROVE  \E q \in Nat : q > 0 /\ y = q * m /\ x = q * x0
  <2>1. PICK q \in Int, r \in Int : y = q * m + r /\ r \in 0..(m - 1)
    <3>1. /\ y \div m \in Int /\ y % m \in 0..(m - 1) /\ y = (y \div m) * m + (y % m)
      BY <1>3, Quotient
    <3>2. y % m \in Int
      BY <1>3, <3>1
    <3>3. QED
      BY <3>1, <3>2
  <2>2. PICK p \in Int : p = q * x0
    OBVIOUS
  <2>3. p * b = a * (q * m)
    <3>1. p * b = q * (x0 * b)
      BY <2>2, Regroup
    <3>2. q * (a * m) = a * (q * m)
      BY <1>3, Regroup
    <3>3. QED
      BY <1>4, <3>1, <3>2
  <2>4. (x - p) * b = a * r
    <3>1. PICK z \in Int : z = q * m
      BY <1>3
    <3>2. (x - p) * b = x * b - p * b
      BY Regroup
    <3>3. a * y - a * z = a * (y - z)
      OBVIOUS
    <3>4. y - z = r
      BY <2>1, <3>1
    <3>5. QED
      BY <1>5, <2>3, <3>1, <3>2, <3>3, <3>4
  <2>5. r = 0
    <3>1. SUFFICES ASSUME r > 0
                   PROVE  FALSE
      BY <2>1
    <3>2. r \in D
      <4>1. x - p \in Int /\ r \in Nat
        BY <2>1
      <4>2. QED
        BY <2>4, <3>1, <4>1
    <3>3. QED
      BY <1>2, <1>3, <2>1, <3>2
  <2>6. x = p
    <3>1. (x - p) * b = 0 * b
      BY <2>4, <2>5
    <3>2. x - p = 0
      BY <3>1, Cancel
    <3>3. QED
      BY <3>2
  <2>7. y = q * m
    BY <2>1, <2>5
  <2>8. q > 0
    BY <1>3, <1>5, <2>7
  <2>9. QED
    BY <2>2, <2>6, <2>7, <2>8
<1>6. PICK x \in Int, y \in Nat, g \in Nat :
        /\ Ratio(a, b) = [num |-> x, den |-> y] /\ y > 0 /\ g > 0 /\ a = x * g /\ b = y * g
        /\ \A j \in Nat : j > g => ~(Divides(j, a) /\ Divides(j, b))
  BY RatioIs
<1>7. x * b = a * y
  <2>1. x * (y * g) = (x * g) * y
    BY Regroup
  <2>2. QED
    BY <1>6, <2>1
<1>8. PICK q \in Nat : q > 0 /\ y = q * m /\ x = q * x0
  BY <1>5, <1>6, <1>7
<1>9. q = 1
  <2>1. PICK j \in Nat : j = q * g
    OBVIOUS
  <2>2. a = x0 * j /\ b = m * j
    <3>1. (q * x0) * g = x0 * (q * g) /\ (q * m) * g = m * (q * g)
      BY <1>3, Regroup
    <3>2. QED
      BY <1>6, <1>8, <2>1, <3>1
  <2>3. Divides(j, a) /\ Divides(j, b)
    BY <1>3, <2>2 DEF Divides
  <2>4. j <= g
    BY <1>6, <2>1, <2>3
  <2>5. QED
    BY <1>6, <1>8, <2>1, <2>4
<1>10. y = m
  BY <1>3, <1>8, <1>9
<1>11. v \in D
  OBVIOUS
<1>12. QED
  BY <1>2, <1>6, <1>7, <1>10, <1>11

\* Equal fractions have the same lowest terms.
LEMMA SameRatio ==
  ASSUME NEW a \in Int, NEW b \in Nat, b > 0, NEW c \in Int, NEW e \in Nat, e > 0, a * e = c * b
  PROVE  Ratio(a, b) = Ratio(c, e)
<1>1. PICK x \in Int, y \in Nat : Ratio(a, b) = [num |-> x, den |-> y] /\ y > 0 /\ x * b = a * y
  BY RatioEquals
<1>2. PICK u \in Int, v \in Nat : Ratio(c, e) = [num |-> u, den |-> v] /\ v > 0 /\ u * e = c * v
  BY RatioEquals
<1>3. u * b = a * v
  <2>1. (u * b) * e = (a * v) * e
    <3>1. (u * b) * e = (u * e) * b /\ (c * v) * b = (c * b) * v /\ (a * e) * v = (a * v) * e
      BY Regroup
    <3>2. QED
      BY <1>2, <3>1
  <2>2. u * b \in Int /\ a * v \in Int
    OBVIOUS
  <2>3. QED
    BY <2>1, <2>2, Cancel
<1>4. x * e = c * y
  <2>1. (x * e) * b = (c * y) * b
    <3>1. (x * e) * b = (x * b) * e /\ (a * y) * e = (a * e) * y /\ (c * b) * y = (c * y) * b
      BY Regroup
    <3>2. QED
      BY <1>1, <3>1
  <2>2. x * e \in Int /\ c * y \in Int
    OBVIOUS
  <2>3. QED
    BY <2>1, <2>2, Cancel
<1>5. Ratio(a, b).den <= v
  BY <1>2, <1>3, LowestIs
<1>6. Ratio(c, e).den <= y
  BY <1>1, <1>4, LowestIs
<1>7. y = v
  BY <1>1, <1>2, <1>5, <1>6
<1>8. x = u
  BY <1>1, <1>2, <1>3, <1>7, Cancel
<1>9. QED
  BY <1>1, <1>2, <1>7, <1>8

-----------------------------------------------------------------------------
(* The walk.                                                               *)

Whole == {[num |-> n, den |-> 1] : n \in Int}

Orders == 1..MaxFills

TripRow ==
  [side : {"long", "short"}, entry : Orders, leg : Nat, entryQty : Int, entryValue : Int,
          exitQty : Nat, exitValue : Int, exits : SUBSET Orders, fills : Int]

\* A trip that is open, and one that is closed.
OpenT == {t \in TripRow : OpenQty(t) > 0}

Fractions == {r \in [num : Int, den : Nat] : r.den > 0}

ClosedT ==
  [id : Orders \X Nat, side : {"long", "short"}, qty : Int, entryAvg : Fractions,
   exitAvg : Fractions, pnl : Whole, exits : SUBSET Orders, fills : Int]

WalkT == [current : OpenT \cup {Flat}, closed : Seq(ClosedT), legs : [Orders -> Nat]]

WalkStart == [current |-> Flat, closed |-> <<>>, legs |-> [o \in Orders |-> 0]]

-----------------------------------------------------------------------------
LEMMA WholeQuotient ==
  ASSUME NEW k \in Int, NEW q \in Nat, q > 0
  PROVE  (k * q) % q = 0 /\ (k * q) \div q = k
OBVIOUS

\* A multiple of the denominator is a whole number.
LEMMA RatioOfMultiple ==
  ASSUME NEW k \in Int, NEW q \in Nat, q > 0
  PROVE  Ratio(k * q, q) = [num |-> k, den |-> 1]
<1> DEFINE m == IF k * q < 0 THEN -(k * q) ELSE k * q
           Div(g) == /\ q % g = 0 /\ m % g = 0
                     /\ \A j \in (g + 1)..q : q % j # 0 \/ m % j # 0
           g == CHOOSE i \in 1..q : Div(i)
<1>1. q % q = 0 /\ q \div q = 1
  OBVIOUS
<1>2. m % q = 0
  <2>1. (k * q) % q = 0 /\ ((-k) * q) % q = 0
    BY WholeQuotient
  <2>2. (-k) * q = -(k * q)
    OBVIOUS
  <2>3. QED
    BY <2>1, <2>2
<1> HIDE DEF m
<1>3. q \in 1..q /\ Div(q)
  BY <1>1, <1>2
<1>4. g \in 1..q /\ Div(g)
  <2> HIDE DEF Div
  <2>1. QED
    BY <1>3
<1> HIDE DEF g
<1>5. g = q
  BY <1>1, <1>2, <1>4
<1>6. Ratio(k * q, q) = [num |-> (k * q) \div g, den |-> q \div g]
  BY DEF Ratio, m, g
<1>7. QED
  BY <1>1, <1>5, <1>6, WholeQuotient

-----------------------------------------------------------------------------
LEMMA RatioIn ==
  ASSUME NEW n \in Int, NEW d \in Nat, d > 0
  PROVE  Ratio(n, d) \in Fractions
<1>1. PICK x \in Int, y \in Nat : Ratio(n, d) = [num |-> x, den |-> y] /\ y > 0 /\ x * d = n * y
  BY RatioEquals
<1>2. QED
  BY <1>1 DEF Fractions

LEMMA FillIs ==
  ASSUME NEW f \in Fill
  PROVE  /\ f.order \in Orders /\ f.qty \in Nat /\ f.qty > 0 /\ f.price \in Nat
         /\ f.side \in {"buy", "sell"} /\ Opens(f) \in {"long", "short"}
         /\ f.qty * f.price \in Int
<1>1. /\ f.order \in Orders /\ f.qty \in 1..MaxQty /\ f.price \in FillPrices
      /\ f.side \in {"buy", "sell"}
  BY DEF Fill, Orders
<1>2. f.qty \in Nat /\ f.qty > 0 /\ f.price \in Nat
  <2>1. MaxQty \in Nat /\ \A p \in FillPrices : p \in Nat
    BY BoundsAssumption, FillPricesAssumption
  <2>2. QED
    BY <1>1, <2>1
<1>3. f.qty * f.price \in Int
  BY <1>2
<1>4. QED
  BY <1>1, <1>2, <1>3 DEF Opens

LEMMA RowIs ==
  ASSUME NEW t \in TripRow
  PROVE  /\ t.side \in {"long", "short"} /\ t.entry \in Orders /\ t.leg \in Nat
         /\ t.entryQty \in Int /\ t.entryValue \in Int /\ t.exitQty \in Nat /\ t.exitValue \in Int
         /\ t.exits \in SUBSET Orders /\ t.fills \in Int
BY DEF TripRow

LEMMA TripIs ==
  ASSUME NEW t \in OpenT
  PROVE  /\ t \in TripRow
         /\ t.side \in {"long", "short"} /\ t.entry \in Orders /\ t.leg \in Nat
         /\ t.entryQty \in Int /\ t.entryValue \in Int /\ t.exitQty \in Nat /\ t.exitValue \in Int
         /\ t.exits \in SUBSET Orders /\ t.fills \in Int
         /\ t.entryQty - t.exitQty > 0 /\ OpenQty(t) = t.entryQty - t.exitQty
         /\ t # Flat
<1>1. /\ t \in TripRow
      /\ OpenQty(t) > 0
  BY DEF OpenT
<1>2. t.side # "flat"
  BY <1>1, RowIs
<1>3. QED
  BY <1>1, <1>2, RowIs DEF OpenQty, Flat

\* What one fill does to a trip that is open (round_trips).
LEMMA OpenedIs ==
  ASSUME NEW f \in Fill, NEW qty \in Nat, qty > 0, NEW leg \in Nat
  PROVE  LET t == OpenTrip(f, qty, leg)
         IN  /\ t \in OpenT /\ t.side = Opens(f) /\ t.entry = f.order /\ t.leg = leg
             /\ t.entryQty = qty /\ t.exitQty = 0
             /\ t.entryValue = qty * f.price /\ t.exitValue = 0
<1>1. qty * f.price \in Int
  BY FillIs
<1>2. QED
  BY <1>1, FillIs DEF OpenTrip, OpenT, OpenQty, TripRow

LEMMA AddedIs ==
  ASSUME NEW f \in Fill, NEW t \in OpenT
  PROVE  LET a == AddEntry(t, f)
         IN  /\ a \in OpenT /\ a.side = t.side /\ a.entry = t.entry /\ a.leg = t.leg
             /\ a.entryQty = t.entryQty + f.qty /\ a.exitQty = t.exitQty
             /\ a.entryValue = t.entryValue + f.qty * f.price /\ a.exitValue = t.exitValue
<1>1. PICK v \in Int : v = f.qty * f.price
  BY FillIs
<1>2. f.qty \in Nat /\ t.entryQty \in Int /\ t.entryValue \in Int /\ t.fills \in Int /\ t.exitQty \in Int
      /\ t.entryQty - t.exitQty > 0
  BY FillIs, TripIs
<1>3. AddEntry(t, f) = [t EXCEPT !.entryQty = t.entryQty + f.qty, !.entryValue = t.entryValue + v, !.fills = t.fills + 1]
  BY <1>1 DEF AddEntry
<1>4. t \in TripRow
  BY TripIs
<1> DEFINE a == AddEntry(t, f)
<1>5. /\ a \in TripRow
      /\ a.side = t.side /\ a.entry = t.entry /\ a.leg = t.leg
      /\ a.entryQty = t.entryQty + f.qty /\ a.exitQty = t.exitQty
      /\ a.entryValue = t.entryValue + v /\ a.exitValue = t.exitValue
  <2>1. PICK m \in Int : m = t.entryQty + f.qty
    BY <1>2
  <2>2. PICK w \in Int : w = t.entryValue + v
    BY <1>2
  <2>3. PICK n \in Int : n = t.fills + 1
    BY <1>2
  <2>4. a = [t EXCEPT !.entryQty = m, !.entryValue = w, !.fills = n]
    BY <1>3, <2>1, <2>2, <2>3
  <2> HIDE DEF a
  <2>5. QED
    BY <1>4, <2>1, <2>2, <2>4 DEF TripRow
<1> HIDE DEF a
<1>6. OpenQty(a) > 0
  BY <1>2, <1>5 DEF OpenQty
<1>7. a \in OpenT
  BY <1>5, <1>6 DEF OpenT
<1>8. QED
  BY <1>1, <1>5, <1>7 DEF a

LEMMA ExitedIs ==
  ASSUME NEW f \in Fill, NEW t \in OpenT
  PROVE  LET take == Least(f.qty, OpenQty(t))
             a == AddExit(t, f, take)
         IN  /\ take \in Nat /\ take > 0 /\ take <= f.qty /\ take * f.price \in Int
             /\ a \in TripRow
             /\ a.side = t.side /\ a.entry = t.entry /\ a.leg = t.leg
             /\ a.entryQty = t.entryQty /\ a.exitQty = t.exitQty + take
             /\ a.entryValue = t.entryValue /\ a.exitValue = t.exitValue + take * f.price
             /\ OpenQty(a) = OpenQty(t) - take /\ OpenQty(a) >= 0
             /\ OpenQty(a) > 0 => take = f.qty /\ a \in OpenT
             /\ OpenQty(a) <= 0 => a.exitQty = a.entryQty /\ take = OpenQty(t)
<1> DEFINE take == Least(f.qty, OpenQty(t))
<1>1. /\ take \in Nat /\ take > 0 /\ take <= f.qty /\ take <= OpenQty(t)
      /\ take = f.qty \/ take = OpenQty(t)
  BY FillIs, TripIs DEF Least
<1>2. take * f.price \in Int /\ f.order \in Orders
  BY <1>1, FillIs
<1> HIDE DEF take
<1> DEFINE a == AddExit(t, f, take)
<1>3. /\ a \in TripRow
      /\ a.side = t.side /\ a.entry = t.entry /\ a.leg = t.leg
      /\ a.entryQty = t.entryQty /\ a.exitQty = t.exitQty + take
      /\ a.entryValue = t.entryValue /\ a.exitValue = t.exitValue + take * f.price
  <2>1. PICK v \in Int : v = take * f.price
    BY <1>2
  <2>2. t.exitQty \in Nat /\ t.exitValue \in Int /\ t.fills \in Int /\ t.exits \in SUBSET Orders
    BY TripIs
  <2>3. a = [t EXCEPT !.exitQty = t.exitQty + take, !.exitValue = t.exitValue + v,
                      !.exits = t.exits \cup {f.order}, !.fills = t.fills + 1]
    BY <2>1 DEF AddExit
  <2>4. PICK m \in Nat : m = t.exitQty + take
    BY <1>1, <2>2
  <2>5. PICK w \in Int : w = t.exitValue + v
    BY <2>2
  <2>6. PICK x \in SUBSET Orders : x = t.exits \cup {f.order}
    BY <1>2, <2>2
  <2>7. PICK n \in Int : n = t.fills + 1
    BY <2>2
  <2>8. a = [t EXCEPT !.exitQty = m, !.exitValue = w, !.exits = x, !.fills = n]
    BY <2>3, <2>4, <2>5, <2>6, <2>7
  <2>9. t \in TripRow
    BY TripIs
  <2> HIDE DEF a
  <2>10. QED
    BY <2>1, <2>4, <2>5, <2>8, <2>9 DEF TripRow
<1>4. OpenQty(a) = OpenQty(t) - take
  BY <1>1, <1>3, TripIs DEF OpenQty
<1>5. OpenQty(a) > 0 => a \in OpenT
  BY <1>3 DEF OpenT
<1> HIDE DEF a
<1>6. OpenQty(a) <= 0 => a.exitQty = a.entryQty /\ take = OpenQty(t)
  BY <1>1, <1>3, <1>4, TripIs
<1>7. OpenQty(a) > 0 => take = f.qty
  BY <1>1, <1>4, TripIs
<1>8. OpenQty(a) >= 0
  BY <1>1, <1>4, TripIs
<1>9. QED
  BY <1>1, <1>2, <1>3, <1>4, <1>5, <1>6, <1>7, <1>8 DEF take, a

\* What is kept of a trip that has nothing open: its profit is what its exits
\* brought in less what its entries cost, or the other way around.
LEMMA FinishedIs ==
  ASSUME NEW a \in TripRow,
         a.exitQty = a.entryQty, a.exitQty > 0
  PROVE  /\ Finish(a) \in ClosedT
         /\ Finish(a).pnl = [num |-> Sign(a.side) * (a.exitValue - a.entryValue), den |-> 1]
         /\ Finish(a).id = <<a.entry, a.leg>>
<1> DEFINE q == a.exitQty
           v == a.exitValue
           w == a.entryValue
<1>1. q \in Nat /\ q > 0 /\ v \in Int /\ w \in Int /\ Sign(a.side) \in {-1, 1}
  BY RowIs DEF Sign
<1>2. Sign(a.side) * (v * q - w * q) = (Sign(a.side) * (v - w)) * q
  BY <1>1
<1>3. Sign(a.side) * (v - w) \in Int
  BY <1>1
<1>4. Ratio(Sign(a.side) * (v * q - w * q), q) = [num |-> Sign(a.side) * (v - w), den |-> 1]
  BY <1>1, <1>2, <1>3, RatioOfMultiple
<1>5. Finish(a).pnl = [num |-> Sign(a.side) * (v - w), den |-> 1]
  BY <1>4 DEF Finish
<1>6. Finish(a).pnl \in Whole
  BY <1>3, <1>5 DEF Whole
<1>7. Ratio(a.entryValue, a.entryQty) \in Fractions /\ Ratio(a.exitValue, a.exitQty) \in Fractions
  <2>1. a.entryValue \in Int /\ a.exitValue \in Int /\ a.entryQty \in Nat /\ a.entryQty > 0
    BY RowIs
  <2>2. QED
    BY <2>1, RatioIn
<1>8. Finish(a) \in ClosedT
  BY <1>6, <1>7, RowIs DEF Finish, ClosedT
<1>9. QED
  BY <1>5, <1>8 DEF Finish

-----------------------------------------------------------------------------
(* One fill of the walk.                                                   *)

\* A state of the walk, w, after fill f: what is open and what that closed.
LEMMA WalkIs ==
  ASSUME NEW s \in WalkT
  PROVE  /\ s.current \in OpenT \/ s.current = Flat
         /\ s.closed \in Seq(ClosedT) /\ s.legs \in [Orders -> Nat]
         /\ s = [current |-> s.current, closed |-> s.closed, legs |-> s.legs]
BY DEF WalkT

LEMMA LegOpened ==
  ASSUME NEW legs \in [Orders -> Nat], NEW o \in Orders
  PROVE  LET opened == [legs EXCEPT ![o] = @ + 1]
         IN  /\ opened \in [Orders -> Nat] /\ opened[o] = legs[o] + 1
             /\ \A p \in Orders : opened[p] >= legs[p]
OBVIOUS

\* From flat, a fill opens a trip.
LEMMA WalkOpens ==
  ASSUME NEW s \in WalkT, NEW f \in Fill, s.current = Flat
  PROVE  WalkFill(s, f) = [current |-> OpenTrip(f, f.qty, s.legs[f.order]), closed |-> s.closed,
                           legs |-> [s.legs EXCEPT ![f.order] = @ + 1]]
<1>1. WalkFill(s, f) = [s EXCEPT !.current = OpenTrip(f, f.qty, s.legs[f.order]),
                                 !.legs = [s.legs EXCEPT ![f.order] = @ + 1]]
  BY DEF WalkFill
<1>2. QED
  BY <1>1, WalkIs

\* A fill of the trip's own side adds to it.
LEMMA WalkAdds ==
  ASSUME NEW s \in WalkT, NEW f \in Fill, s.current \in OpenT, Opens(f) = s.current.side
  PROVE  WalkFill(s, f) = [current |-> AddEntry(s.current, f), closed |-> s.closed, legs |-> s.legs]
<1>1. s.current # Flat
  BY TripIs
<1>2. WalkFill(s, f) = [s EXCEPT !.current = AddEntry(s.current, f)]
  BY <1>1 DEF WalkFill
<1>3. QED
  BY <1>2, WalkIs

\* A fill of the other side takes from it, closes it, or closes it and opens the
\* next with what is left of the fill.
LEMMA WalkTakes ==
  ASSUME NEW s \in WalkT, NEW f \in Fill, s.current \in OpenT, Opens(f) # s.current.side
  PROVE  LET take == Least(f.qty, OpenQty(s.current))
             after == AddExit(s.current, f, take)
         IN  /\ OpenQty(after) > 0 =>
                  WalkFill(s, f) = [current |-> after, closed |-> s.closed, legs |-> s.legs]
             /\ OpenQty(after) <= 0 /\ f.qty - take <= 0 =>
                  WalkFill(s, f) = [current |-> Flat, closed |-> Append(s.closed, Finish(after)),
                                    legs |-> s.legs]
             /\ OpenQty(after) <= 0 /\ f.qty - take > 0 =>
                  WalkFill(s, f) = [current |-> OpenTrip(f, f.qty - take, s.legs[f.order]),
                                    closed |-> Append(s.closed, Finish(after)),
                                    legs |-> [s.legs EXCEPT ![f.order] = @ + 1]]
<1> DEFINE take == Least(f.qty, OpenQty(s.current))
           after == AddExit(s.current, f, take)
<1>1. s.current # Flat
  BY TripIs
<1>2. take \in Nat /\ f.qty \in Nat /\ OpenQty(after) \in Int
  BY FillIs, TripIs, ExitedIs, RowIs DEF OpenQty
<1>3. WalkFill(s, f) =
        IF OpenQty(after) > 0 THEN [s EXCEPT !.current = after]
        ELSE [current |-> IF f.qty - take > 0 THEN OpenTrip(f, f.qty - take, s.legs[f.order]) ELSE Flat,
              closed |-> Append(s.closed, Finish(after)),
              legs |-> IF f.qty - take > 0 THEN [s.legs EXCEPT ![f.order] = @ + 1] ELSE s.legs]
  BY <1>1 DEF WalkFill
<1> HIDE DEF take, after
<1>4. [s EXCEPT !.current = after] = [current |-> after, closed |-> s.closed, legs |-> s.legs]
  BY WalkIs
<1>5. CASE OpenQty(after) > 0
  BY <1>2, <1>3, <1>4, <1>5 DEF take, after
<1>6. CASE OpenQty(after) <= 0 /\ f.qty - take > 0
  <2>1. ~(OpenQty(after) > 0)
    BY <1>2, <1>6
  <2>2. WalkFill(s, f) = [current |-> OpenTrip(f, f.qty - take, s.legs[f.order]),
                          closed |-> Append(s.closed, Finish(after)),
                          legs |-> [s.legs EXCEPT ![f.order] = @ + 1]]
    BY <1>3, <1>6, <2>1
  <2>3. QED
    BY <1>2, <1>6, <2>1, <2>2 DEF take, after
<1>7. CASE OpenQty(after) <= 0 /\ f.qty - take <= 0
  <2>1. ~(OpenQty(after) > 0) /\ ~(f.qty - take > 0)
    BY <1>2, <1>7
  <2>2. WalkFill(s, f) = [current |-> Flat, closed |-> Append(s.closed, Finish(after)), legs |-> s.legs]
    BY <1>3, <2>1
  <2>3. QED
    BY <1>2, <2>1, <2>2 DEF take, after
<1>8. QED
  BY <1>2, <1>5, <1>6, <1>7

\* The shares an open trip holds, and the cash it has brought in so far.
Held(c) == IF c = Flat THEN 0 ELSE Sign(c.side) * OpenQty(c)
Money(c) == IF c = Flat THEN 0 ELSE Sign(c.side) * (c.exitValue - c.entryValue)

\* Nothing of a fill is lost: its shares are in what is open, its cash in what
\* is open or in the profit of the trip it closed.
Carries(s, w, f) ==
  /\ w \in WalkT
  /\ Held(w.current) = Held(s.current) + Signed(f)
  /\ \E k \in Int :
       /\ Money(w.current) + k = Money(s.current) - Signed(f) * f.price
       /\ \/ k = 0 /\ w.closed = s.closed
          \/ \E t \in ClosedT : t.pnl = [num |-> k, den |-> 1] /\ w.closed = Append(s.closed, t)

LEMMA SignedIs ==
  ASSUME NEW f \in Fill
  PROVE  /\ Signed(f) = Sign(Opens(f)) * f.qty
         /\ Signed(f) * f.price = Sign(Opens(f)) * (f.qty * f.price)
         /\ Sign(Opens(f)) \in {-1, 1} /\ Signed(f) \in Int /\ Signed(f) * f.price \in Int
<1>1. PICK q \in Nat : q = f.qty
  BY FillIs
<1>2. PICK p \in Nat : p = f.price
  BY FillIs
<1>3. Signed(f) = IF f.side = "buy" THEN q ELSE -q
  BY <1>1 DEF Signed
<1>4. q * p \in Int /\ (-q) * p = -(q * p) /\ (-1) * (q * p) = -(q * p) /\ 1 * (q * p) = q * p
  OBVIOUS
<1>5. CASE f.side = "buy"
  <2>1. Signed(f) = q /\ Sign(Opens(f)) = 1
    BY <1>3, <1>5 DEF Sign, Opens
  <2>2. QED
    BY <1>1, <1>2, <1>4, <2>1
<1>6. CASE f.side # "buy"
  <2>1. Signed(f) = -q /\ Sign(Opens(f)) = -1
    BY <1>3, <1>6 DEF Sign, Opens
  <2>2. QED
    BY <1>1, <1>2, <1>4, <2>1
<1>7. QED
  BY <1>5, <1>6

LEMMA HeldIs ==
  ASSUME NEW c \in OpenT
  PROVE  /\ Held(c) = Sign(c.side) * OpenQty(c) /\ Held(c) \in Int /\ Held(c) # 0
         /\ Money(c) = Sign(c.side) * (c.exitValue - c.entryValue) /\ Money(c) \in Int
         /\ Sign(c.side) \in {-1, 1}
<1>1. c # Flat /\ OpenQty(c) \in Int /\ OpenQty(c) > 0 /\ c.exitValue - c.entryValue \in Int
  BY TripIs
<1>2. Sign(c.side) \in {-1, 1}
  BY DEF Sign
<1>3. QED
  BY <1>1, <1>2 DEF Held, Money

LEMMA OpenCarries ==
  ASSUME NEW s \in WalkT, NEW f \in Fill, s.current = Flat
  PROVE  Carries(s, WalkFill(s, f), f)
<1> DEFINE c == OpenTrip(f, f.qty, s.legs[f.order])
<1>1. f.order \in Orders /\ f.qty \in Nat /\ f.qty > 0 /\ s.legs[f.order] \in Nat
  BY FillIs, WalkIs
<1>2. PICK v \in Int : v = f.qty * f.price
  BY FillIs
<1>3. /\ c \in OpenT /\ c.side = Opens(f) /\ c.entryQty = f.qty /\ c.exitQty = 0
      /\ c.entryValue = v /\ c.exitValue = 0
  BY <1>1, <1>2, OpenedIs
<1> HIDE DEF c
<1>4. PICK w : w = WalkFill(s, f)
  OBVIOUS
<1>5. w = [current |-> c, closed |-> s.closed, legs |-> [s.legs EXCEPT ![f.order] = @ + 1]]
  BY <1>4, WalkOpens DEF c
<1>6. w \in WalkT
  BY <1>1, <1>3, <1>5, WalkIs, LegOpened DEF WalkT
<1>7. Held(c) = Sign(Opens(f)) * f.qty /\ Money(c) = Sign(Opens(f)) * (0 - v)
  <2>1. OpenQty(c) = f.qty
    BY <1>1, <1>3 DEF OpenQty
  <2>2. QED
    BY <1>3, <2>1, HeldIs
<1>8. Held(s.current) = 0 /\ Money(s.current) = 0
  BY DEF Held, Money
<1>9. Held(c) = 0 + Signed(f) /\ Money(c) + 0 = 0 - Signed(f) * f.price
  <2>1. Signed(f) * f.price = Sign(Opens(f)) * v
    BY <1>2, SignedIs
  <2>2. QED
    BY <1>7, <2>1, SignedIs
<1>10. w.current = c /\ w.closed = s.closed
  BY <1>5
<1>11. QED
  BY <1>4, <1>6, <1>8, <1>9, <1>10 DEF Carries

LEMMA AddCarries ==
  ASSUME NEW s \in WalkT, NEW f \in Fill, s.current \in OpenT, Opens(f) = s.current.side
  PROVE  Carries(s, WalkFill(s, f), f)
<1> DEFINE t == s.current
           c == AddEntry(t, f)
<1>1. f.qty \in Nat /\ f.qty > 0
  BY FillIs
<1>2. PICK v \in Int : v = f.qty * f.price
  BY FillIs
<1>3. /\ c \in OpenT /\ c.side = t.side /\ c.entryQty = t.entryQty + f.qty /\ c.exitQty = t.exitQty
      /\ c.entryValue = t.entryValue + v /\ c.exitValue = t.exitValue
  BY <1>2, AddedIs
<1>t. /\ t \in OpenT /\ t.side = Opens(f) /\ t.entryQty \in Int /\ t.exitQty \in Int
      /\ t.entryValue \in Int /\ t.exitValue \in Int
  BY TripIs
<1> HIDE DEF c
<1>4. PICK w : w = WalkFill(s, f)
  OBVIOUS
<1>5. w = [current |-> c, closed |-> s.closed, legs |-> s.legs]
  BY <1>4, WalkAdds DEF c
<1>6. w \in WalkT
  BY <1>3, <1>5, WalkIs DEF WalkT
<1> HIDE DEF t
<1>7. /\ Held(c) = Sign(Opens(f)) * (t.entryQty + f.qty - t.exitQty)
      /\ Money(c) = Sign(Opens(f)) * (t.exitValue - (t.entryValue + v))
      /\ Held(t) = Sign(Opens(f)) * (t.entryQty - t.exitQty)
      /\ Money(t) = Sign(Opens(f)) * (t.exitValue - t.entryValue)
  <2>1. OpenQty(c) = t.entryQty + f.qty - t.exitQty /\ OpenQty(t) = t.entryQty - t.exitQty
    BY <1>1, <1>3, <1>t DEF OpenQty
  <2>2. c.exitValue - c.entryValue = t.exitValue - (t.entryValue + v)
    BY <1>3
  <2>3. /\ Held(c) = Sign(c.side) * OpenQty(c) /\ Held(t) = Sign(t.side) * OpenQty(t)
        /\ Money(c) = Sign(c.side) * (c.exitValue - c.entryValue)
        /\ Money(t) = Sign(t.side) * (t.exitValue - t.entryValue)
    BY <1>3, <1>t, HeldIs
  <2>4. c.side = Opens(f) /\ t.side = Opens(f)
    BY <1>3, <1>t
  <2>5. QED
    BY <2>1, <2>2, <2>3, <2>4
<1>9. Held(c) = Held(t) + Signed(f) /\ Money(c) + 0 = Money(t) - Signed(f) * f.price
  <2>1. Signed(f) * f.price = Sign(Opens(f)) * v
    BY <1>2, SignedIs
  <2>2. Sign(Opens(f)) \in {-1, 1} /\ Signed(f) = Sign(Opens(f)) * f.qty
    BY SignedIs
  <2>3. QED
    BY <1>1, <1>t, <1>7, <2>1, <2>2
<1>10. w.current = c /\ w.closed = s.closed
  BY <1>5
<1>11. QED
  BY <1>4, <1>6, <1>9, <1>10 DEF Carries, t

LEMMA TakeCarries ==
  ASSUME NEW s \in WalkT, NEW f \in Fill, s.current \in OpenT, Opens(f) # s.current.side
  PROVE  Carries(s, WalkFill(s, f), f)
<1> DEFINE t == s.current
           take == Least(f.qty, OpenQty(t))
           a == AddExit(t, f, take)
           x == Sign(t.side)
<1>1. /\ take \in Nat /\ take > 0 /\ take <= f.qty /\ take * f.price \in Int
      /\ a \in TripRow
      /\ a.side = t.side /\ a.entry = t.entry /\ a.leg = t.leg
      /\ a.entryQty = t.entryQty /\ a.exitQty = t.exitQty + take
      /\ a.entryValue = t.entryValue /\ a.exitValue = t.exitValue + take * f.price
      /\ OpenQty(a) = OpenQty(t) - take /\ OpenQty(a) >= 0
      /\ OpenQty(a) > 0 => take = f.qty /\ a \in OpenT
      /\ OpenQty(a) <= 0 => a.exitQty = a.entryQty /\ take = OpenQty(t)
  BY ExitedIs
<1>2. f.order \in Orders /\ f.qty \in Nat /\ f.qty > 0 /\ s.legs[f.order] \in Nat /\ f.price \in Nat
  BY FillIs, WalkIs
<1>3. PICK v \in Int : v = take * f.price
  BY <1>1
<1>4. PICK z \in Int : z = (f.qty - take) * f.price
  BY <1>1, <1>2
<1>5. v + z = f.qty * f.price
  BY <1>1, <1>2, <1>3, <1>4
<1>t. /\ t \in OpenT /\ t.entryQty \in Int /\ t.exitQty \in Int /\ OpenQty(t) \in Int
      /\ t.entryValue \in Int /\ t.exitValue \in Int /\ x \in {-1, 1}
  BY TripIs, HeldIs
<1>h. /\ Held(t) = x * OpenQty(t) /\ Money(t) = x * (t.exitValue - t.entryValue)
  BY <1>t, HeldIs
<1>6. Sign(Opens(f)) = -x
  <2>1. t.side \in {"long", "short"} /\ Opens(f) \in {"long", "short"} /\ Opens(f) # t.side
    BY TripIs, FillIs
  <2>2. QED
    BY <2>1 DEF Sign
<1>7. Signed(f) = -x * f.qty /\ Signed(f) * f.price = -x * (v + z)
  BY <1>2, <1>5, <1>6, <1>t, SignedIs
<1>8. PICK w : w = WalkFill(s, f)
  OBVIOUS
<1> DEFINE c == OpenTrip(f, f.qty - take, s.legs[f.order])
<1>9. /\ OpenQty(a) > 0 => w = [current |-> a, closed |-> s.closed, legs |-> s.legs]
      /\ OpenQty(a) <= 0 /\ f.qty - take <= 0 =>
           w = [current |-> Flat, closed |-> Append(s.closed, Finish(a)), legs |-> s.legs]
      /\ OpenQty(a) <= 0 /\ f.qty - take > 0 =>
           w = [current |-> c, closed |-> Append(s.closed, Finish(a)),
                legs |-> [s.legs EXCEPT ![f.order] = @ + 1]]
  BY <1>8, WalkTakes
<1> HIDE DEF take, a, c
<1>10. ASSUME OpenQty(a) <= 0
       PROVE  /\ Finish(a) \in ClosedT
              /\ Finish(a).pnl = [num |-> x * (t.exitValue + v - t.entryValue), den |-> 1]
              /\ x * (t.exitValue + v - t.entryValue) \in Int
              /\ Append(s.closed, Finish(a)) \in Seq(ClosedT)
  <2>1. a.exitQty = a.entryQty /\ a.exitQty > 0
    BY <1>1, <1>10, <1>t, TripIs
  <2>2. /\ Finish(a) \in ClosedT
        /\ Finish(a).pnl = [num |-> Sign(a.side) * (a.exitValue - a.entryValue), den |-> 1]
    BY <1>1, <2>1, FinishedIs
  <2>3. a.exitValue - a.entryValue = t.exitValue + v - t.entryValue /\ Sign(a.side) = x
    BY <1>1, <1>3, <1>t
  <2>4. s.closed \in Seq(ClosedT)
    BY WalkIs
  <2>5. QED
    BY <2>2, <2>3, <2>4, <1>t, AppendProperties
<1> HIDE DEF t, x
<1>11. CASE OpenQty(a) > 0
  <2>1. w = [current |-> a, closed |-> s.closed, legs |-> s.legs] /\ a \in OpenT /\ take = f.qty
    BY <1>1, <1>9, <1>11
  <2>2. w \in WalkT
    BY <2>1, WalkIs DEF WalkT
  <2>3. z = 0
    BY <1>2, <1>4, <2>1
  <2>4. Held(a) = x * OpenQty(a) /\ Money(a) = x * (a.exitValue - a.entryValue)
    BY <1>1, <2>1, HeldIs DEF x
  <2>5. Held(a) = Held(t) + Signed(f)
    BY <1>1, <1>2, <1>t, <1>h, <1>7, <2>1, <2>4
  <2>6. Money(a) + 0 = Money(t) - Signed(f) * f.price
    <3>1. a.exitValue - a.entryValue = t.exitValue + v - t.entryValue
      BY <1>1, <1>3, <1>t
    <3>2. QED
      BY <1>t, <1>h, <1>7, <2>3, <2>4, <3>1
  <2>7. w.current = a /\ w.closed = s.closed
    BY <2>1
  <2>8. QED
    BY <1>8, <2>2, <2>5, <2>6, <2>7 DEF Carries, t
<1>12. CASE OpenQty(a) <= 0 /\ f.qty - take <= 0
  <2>1. /\ w = [current |-> Flat, closed |-> Append(s.closed, Finish(a)), legs |-> s.legs]
        /\ take = f.qty /\ take = OpenQty(t)
    BY <1>1, <1>2, <1>9, <1>12
  <2>2. w \in WalkT
    BY <1>10, <1>12, <2>1, WalkIs DEF WalkT
  <2>3. z = 0
    BY <1>2, <1>4, <2>1
  <2>4. Held(Flat) = 0 /\ Money(Flat) = 0
    BY DEF Held, Money
  <2>5. Held(Flat) = Held(t) + Signed(f)
    BY <1>2, <1>t, <1>h, <1>7, <2>1, <2>4
  <2>6. PICK k \in Int : k = x * (t.exitValue + v - t.entryValue)
    BY <1>10, <1>12
  <2>7. Money(Flat) + k = Money(t) - Signed(f) * f.price
    BY <1>t, <1>h, <1>7, <2>3, <2>4, <2>6
  <2>8. w.current = Flat /\ w.closed = Append(s.closed, Finish(a))
    BY <2>1
  <2>9. Finish(a) \in ClosedT /\ Finish(a).pnl = [num |-> k, den |-> 1]
    BY <1>10, <1>12, <2>6
  <2>10. QED
    BY <1>8, <2>2, <2>5, <2>7, <2>8, <2>9 DEF Carries, t
<1>13. CASE OpenQty(a) <= 0 /\ f.qty - take > 0
  <2>1. /\ w = [current |-> c, closed |-> Append(s.closed, Finish(a)),
                legs |-> [s.legs EXCEPT ![f.order] = @ + 1]]
        /\ take = OpenQty(t)
    BY <1>1, <1>9, <1>13
  <2>2. PICK q \in Nat : q = f.qty - take /\ q > 0
    BY <1>1, <1>2, <1>13
  <2>3. /\ c \in OpenT /\ c.side = Opens(f) /\ c.entryQty = q /\ c.exitQty = 0
        /\ c.entryValue = q * f.price /\ c.exitValue = 0
    BY <1>2, <2>2, OpenedIs DEF c
  <2>4. w \in WalkT
    BY <1>2, <1>10, <1>13, <2>1, <2>3, WalkIs, LegOpened DEF WalkT
  <2>5. Held(c) = -x * q /\ Money(c) = -x * (0 - z)
    <3>1. OpenQty(c) = q
      BY <2>2, <2>3 DEF OpenQty
    <3>2. Held(c) = Sign(c.side) * OpenQty(c) /\ Money(c) = Sign(c.side) * (c.exitValue - c.entryValue)
      BY <2>3, HeldIs
    <3>3. c.entryValue = z
      BY <1>4, <2>2, <2>3
    <3>4. QED
      BY <1>6, <1>t, <2>3, <3>1, <3>2, <3>3
  <2>6. Held(c) = Held(t) + Signed(f)
    BY <1>1, <1>2, <1>t, <1>h, <1>7, <2>1, <2>2, <2>5
  <2>7. PICK k \in Int : k = x * (t.exitValue + v - t.entryValue)
    BY <1>10, <1>13
  <2>8. Money(c) + k = Money(t) - Signed(f) * f.price
    BY <1>t, <1>h, <1>7, <2>5, <2>7
  <2>9. w.current = c /\ w.closed = Append(s.closed, Finish(a))
    BY <2>1
  <2>10. Finish(a) \in ClosedT /\ Finish(a).pnl = [num |-> k, den |-> 1]
    BY <1>10, <1>13, <2>7
  <2>11. QED
    BY <1>8, <2>4, <2>6, <2>8, <2>9, <2>10 DEF Carries, t
<1>14. OpenQty(a) \in Int /\ f.qty - take \in Int
  BY <1>1, <1>2, <1>t
<1>15. QED
  BY <1>11, <1>12, <1>13, <1>14

LEMMA FillCarries ==
  ASSUME NEW s \in WalkT, NEW f \in Fill
  PROVE  Carries(s, WalkFill(s, f), f)
<1>1. s.current \in OpenT \/ s.current = Flat
  BY WalkIs
<1>2. QED
  BY <1>1, OpenCarries, AddCarries, TakeCarries

-----------------------------------------------------------------------------
(* The ids of the trips.                                                   *)

\* Each closed trip has an id of its own, of a leg its order has opened.
Ids(closed, legs) ==
  /\ \A i \in DOMAIN closed : closed[i].id[2] < legs[closed[i].id[1]]
  /\ \A i, j \in DOMAIN closed : closed[i].id = closed[j].id => i = j

\* c has opened, and no closed trip has its id.
New(c, closed, legs) ==
  c.leg < legs[c.entry] /\ \A i \in DOMAIN closed : closed[i].id # <<c.entry, c.leg>>

Apart(s) == Ids(s.closed, s.legs) /\ (s.current # Flat => New(s.current, s.closed, s.legs))

LEMMA IdsTyped ==
  ASSUME NEW closed \in Seq(ClosedT), NEW i \in DOMAIN closed
  PROVE  closed[i].id[1] \in Orders /\ closed[i].id[2] \in Nat
<1>1. closed[i] \in ClosedT
  BY Indices
<1>2. closed[i].id \in Orders \X Nat
  BY <1>1 DEF ClosedT
<1>3. QED
  BY <1>2

\* The trip an order opens next is new.
LEMMA NextIsNew ==
  ASSUME NEW closed \in Seq(ClosedT), NEW legs \in [Orders -> Nat], Ids(closed, legs), NEW o \in Orders,
         NEW c, c.entry = o, c.leg = legs[o]
  PROVE  LET opened == [legs EXCEPT ![o] = @ + 1]
         IN  Ids(closed, opened) /\ New(c, closed, opened)
<1> DEFINE opened == [legs EXCEPT ![o] = @ + 1]
<1>1. /\ opened[o] = legs[o] + 1 /\ legs[o] \in Nat
      /\ \A p \in Orders : opened[p] \in Nat /\ legs[p] \in Nat /\ opened[p] >= legs[p]
  BY LegOpened
<1> HIDE DEF opened
<1>2. \A i \in DOMAIN closed : closed[i].id[1] \in Orders /\ closed[i].id[2] \in Nat
  BY IdsTyped
<1>3. \A i \in DOMAIN closed : closed[i].id[2] < legs[closed[i].id[1]]
  BY DEF Ids
<1>4. ASSUME NEW i \in DOMAIN closed
      PROVE  closed[i].id[2] < opened[closed[i].id[1]] /\ closed[i].id # <<c.entry, c.leg>>
  <2>1. PICK p \in Orders, l \in Nat : p = closed[i].id[1] /\ l = closed[i].id[2] /\ l < legs[p]
    BY <1>2, <1>3
  <2>2. l < opened[p]
    BY <1>1, <2>1
  <2>3. closed[i].id # <<o, legs[o]>>
    <3>1. SUFFICES ASSUME closed[i].id = <<o, legs[o]>>
                   PROVE  FALSE
      OBVIOUS
    <3>2. p = o /\ l = legs[o]
      BY <2>1, <3>1
    <3>3. QED
      BY <1>1, <2>1, <3>2
  <2>4. QED
    BY <2>1, <2>2, <2>3
<1>5. Ids(closed, opened)
  BY <1>4 DEF Ids
<1>6. New(c, closed, opened)
  BY <1>1, <1>4 DEF New
<1>7. QED
  BY <1>5, <1>6 DEF opened

\* A closed trip that was new when it closed.
LEMMA CloseKeepsIds ==
  ASSUME NEW closed \in Seq(ClosedT), NEW legs \in [Orders -> Nat], Ids(closed, legs),
         NEW c, New(c, closed, legs), NEW t \in ClosedT, t.id = <<c.entry, c.leg>>
  PROVE  Ids(Append(closed, t), legs)
<1>1. PICK more : more = Append(closed, t)
  OBVIOUS
<1>2. PICK n \in Nat : n = Len(closed)
  BY Indices
<1>3. more \in Seq(ClosedT) /\ Len(more) = n + 1 /\ more[n + 1] = t /\ \A i \in 1..n : more[i] = closed[i]
  BY <1>1, <1>2, AppendProperties
<1>4. DOMAIN closed = 1..n /\ DOMAIN more = 1..(n + 1)
  BY <1>2, <1>3, Indices
<1>5. \A i \in 1..(n + 1) : i = n + 1 \/ i \in 1..n
  OBVIOUS
<1>6. /\ \A i \in 1..n : closed[i].id[2] < legs[closed[i].id[1]] /\ closed[i].id # t.id
      /\ \A i, j \in 1..n : closed[i].id = closed[j].id => i = j
      /\ t.id[2] < legs[t.id[1]]
  <2>1. DOMAIN closed = 1..n
    BY <1>4
  <2>2. \A i \in 1..n : closed[i].id[2] < legs[closed[i].id[1]]
    BY ONLY <2>1, Ids(closed, legs) DEF Ids
  <2>3. \A i, j \in 1..n : closed[i].id = closed[j].id => i = j
    BY ONLY <2>1, Ids(closed, legs) DEF Ids
  <2>4. \A i \in 1..n : closed[i].id # t.id
    BY ONLY <2>1, New(c, closed, legs), t.id = <<c.entry, c.leg>>, Zenon DEF New
  <2>5. t.id[1] = c.entry /\ t.id[2] = c.leg
    BY ONLY t.id = <<c.entry, c.leg>>
  <2>6. c.leg < legs[c.entry]
    BY ONLY New(c, closed, legs) DEF New
  <2>7. t.id[2] < legs[t.id[1]]
    BY ONLY <2>5, <2>6
  <2>8. QED
    BY ONLY <2>2, <2>3, <2>4, <2>7
<1>7. \A i \in 1..(n + 1) : more[i].id[2] < legs[more[i].id[1]]
  BY <1>3, <1>5, <1>6
<1>8. \A i, j \in 1..(n + 1) : more[i].id = more[j].id => i = j
  BY <1>3, <1>5, <1>6
<1>9. Ids(more, legs)
  BY <1>4, <1>7, <1>8 DEF Ids
<1>10. QED
  BY <1>1, <1>9

LEMMA FillKeepsApart ==
  ASSUME NEW s \in WalkT, NEW f \in Fill, Apart(s)
  PROVE  Apart(WalkFill(s, f))
<1> DEFINE o == f.order
           opened == [s.legs EXCEPT ![o] = @ + 1]
<1>1. /\ o \in Orders /\ s.legs[o] \in Nat /\ s.legs \in [Orders -> Nat] /\ s.closed \in Seq(ClosedT)
      /\ f.qty \in Nat /\ f.qty > 0 /\ Ids(s.closed, s.legs)
  BY FillIs, WalkIs DEF Apart
<1>2. PICK w : w = WalkFill(s, f)
  OBVIOUS
<1>3. CASE s.current = Flat
  <2>1. PICK c : c = OpenTrip(f, f.qty, s.legs[o])
    OBVIOUS
  <2>2. w = [current |-> c, closed |-> s.closed, legs |-> opened]
    BY <1>2, <1>3, <2>1, WalkOpens
  <2>3. c.entry = o /\ c.leg = s.legs[o]
    BY <1>1, <2>1, OpenedIs
  <2>4. Ids(s.closed, opened) /\ New(c, s.closed, opened)
    BY <1>1, <2>3, NextIsNew
  <2>5. QED
    BY <1>2, <2>2, <2>4 DEF Apart
<1>4. CASE s.current \in OpenT /\ Opens(f) = s.current.side
  <2>1. PICK c : c = AddEntry(s.current, f)
    OBVIOUS
  <2>2. w = [current |-> c, closed |-> s.closed, legs |-> s.legs]
    BY <1>2, <1>4, <2>1, WalkAdds
  <2>3. c.entry = s.current.entry /\ c.leg = s.current.leg
    BY <1>4, <2>1, AddedIs
  <2>4. New(s.current, s.closed, s.legs)
    BY <1>4, TripIs DEF Apart
  <2>5. New(c, s.closed, s.legs)
    BY <2>3, <2>4 DEF New
  <2>6. QED
    BY <1>1, <1>2, <2>2, <2>5 DEF Apart
<1>5. CASE s.current \in OpenT /\ Opens(f) # s.current.side
  <2> DEFINE t == s.current
             take == Least(f.qty, OpenQty(t))
  <2>1. PICK a : a = AddExit(t, f, take)
    OBVIOUS
  <2>2. PICK c : c = OpenTrip(f, f.qty - take, s.legs[o])
    OBVIOUS
  <2>3. /\ a \in TripRow /\ a.entry = t.entry /\ a.leg = t.leg /\ a.exitQty = t.exitQty + take
        /\ take \in Nat /\ take > 0
        /\ OpenQty(a) <= 0 => a.exitQty = a.entryQty
    BY <1>5, <2>1, ExitedIs
  <2>4. New(t, s.closed, s.legs)
    BY <1>5, TripIs DEF Apart
  <2>5. /\ OpenQty(a) > 0 => w = [current |-> a, closed |-> s.closed, legs |-> s.legs]
        /\ OpenQty(a) <= 0 /\ f.qty - take <= 0 =>
             w = [current |-> Flat, closed |-> Append(s.closed, Finish(a)), legs |-> s.legs]
        /\ OpenQty(a) <= 0 /\ f.qty - take > 0 =>
             w = [current |-> c, closed |-> Append(s.closed, Finish(a)), legs |-> opened]
    BY <1>2, <1>5, <2>1, <2>2, WalkTakes
  <2>6. OpenQty(a) \in Int /\ f.qty - take \in Int /\ t.exitQty \in Nat
    BY <1>1, <1>5, <2>3, RowIs, TripIs DEF OpenQty
  <2> HIDE DEF take
  <2>7. CASE OpenQty(a) > 0
    <3>1. New(a, s.closed, s.legs)
      BY <2>3, <2>4 DEF New
    <3>2. QED
      BY <1>1, <1>2, <2>5, <2>7, <3>1 DEF Apart
  <2>8. CASE OpenQty(a) <= 0
    <3>1. a.exitQty = a.entryQty /\ a.exitQty > 0
      BY <2>3, <2>6, <2>8
    <3>2. PICK x \in ClosedT : x = Finish(a) /\ x.id = <<t.entry, t.leg>>
      BY <2>3, <3>1, FinishedIs
    <3>3. PICK more : more = Append(s.closed, x)
      OBVIOUS
    <3>4. Ids(more, s.legs) /\ more \in Seq(ClosedT)
      BY <1>1, <2>4, <3>2, <3>3, CloseKeepsIds, AppendProperties
    <3>5. CASE f.qty - take <= 0
      <4>1. w = [current |-> Flat, closed |-> more, legs |-> s.legs]
        BY <2>5, <2>8, <3>2, <3>3, <3>5
      <4>2. QED
        BY <1>2, <3>4, <4>1 DEF Apart
    <3>6. CASE f.qty - take > 0
      <4>1. w = [current |-> c, closed |-> more, legs |-> opened]
        BY <2>5, <2>8, <3>2, <3>3, <3>6
      <4>2. PICK q \in Nat : q = f.qty - take /\ q > 0
        BY <2>6, <3>6
      <4>3. c.entry = o /\ c.leg = s.legs[o]
        BY <1>1, <2>2, <4>2, OpenedIs
      <4>4. Ids(more, opened) /\ New(c, more, opened)
        BY <1>1, <3>4, <4>3, NextIsNew
      <4>5. QED
        BY <1>2, <4>1, <4>4 DEF Apart
    <3>7. QED
      BY <2>6, <3>5, <3>6
  <2>9. QED
    BY <2>6, <2>7, <2>8
<1>6. s.current \in OpenT \/ s.current = Flat
  BY WalkIs
<1>7. QED
  BY <1>3, <1>4, <1>5, <1>6

-----------------------------------------------------------------------------
(* The walk, the net shares and cash of a log and the profits of its trips, *)
(* as folds of functions.                                                  *)

WalkBy == [p \in WalkT \X Fill |-> WalkFill(p[1], p[2])]
\* The integers, by a name that keeps the folds' facts from being arithmetic.
Amounts == Int
SharesBy == [p \in Amounts \X Fill |-> p[1] + Signed(p[2])]
CashBy == [p \in Amounts \X Fill |-> p[1] - Signed(p[2]) * p[2].price]
RatioSum(r, t) == Ratio(r.num * t.pnl.den + t.pnl.num * r.den, r.den * t.pnl.den)
ProfitBy == [p \in Whole \X ClosedT |-> RatioSum(p[1], p[2])]

LEMMA WalkStays == WalkStart \in WalkT /\ Stays(WalkBy, WalkT, Fill)
<1>1. WalkStart \in WalkT
  <2>1. <<>> \in Seq(ClosedT)
    BY EmptySeq
  <2>2. QED
    BY <2>1 DEF WalkStart, WalkT
<1>2. ASSUME NEW a \in WalkT, NEW x \in Fill
      PROVE  WalkBy[<<a, x>>] \in WalkT
  <2>1. WalkBy[<<a, x>>] = WalkFill(a, x)
    BY DEF WalkBy
  <2>2. WalkFill(a, x) \in WalkT
    BY FillCarries DEF Carries
  <2>3. QED
    BY <2>1, <2>2
<1>3. QED
  BY <1>1, <1>2 DEF Stays

LEMMA SharesStay == 0 \in Amounts /\ Stays(SharesBy, Amounts, Fill)
<1>1. ASSUME NEW a \in Amounts, NEW x \in Fill
      PROVE  SharesBy[<<a, x>>] \in Amounts
  <2>1. SharesBy[<<a, x>>] = a + Signed(x)
    BY DEF SharesBy
  <2>2. QED
    BY <2>1, SignedIs DEF Amounts
<1>2. QED
  BY <1>1 DEF Stays, Amounts

LEMMA CashStays == 0 \in Amounts /\ Stays(CashBy, Amounts, Fill)
<1>1. ASSUME NEW a \in Amounts, NEW x \in Fill
      PROVE  CashBy[<<a, x>>] \in Amounts
  <2>1. CashBy[<<a, x>>] = a - Signed(x) * x.price
    BY DEF CashBy
  <2>2. QED
    BY <2>1, SignedIs DEF Amounts
<1>2. QED
  BY <1>1 DEF Stays, Amounts

LEMMA WholeRatio ==
  ASSUME NEW k \in Int
  PROVE  Ratio(k, 1) = [num |-> k, den |-> 1]
<1>1. k * 1 = k
  OBVIOUS
<1>2. Ratio(k * 1, 1) = [num |-> k, den |-> 1]
  BY RatioOfMultiple
<1>3. QED
  BY <1>1, <1>2

LEMMA RatioSumIs ==
  ASSUME NEW n \in Int, NEW k \in Int, NEW r, r = [num |-> n, den |-> 1],
         NEW t \in ClosedT, t.pnl = [num |-> k, den |-> 1]
  PROVE  RatioSum(r, t) = [num |-> n + k, den |-> 1]
<1>1. r.num = n /\ r.den = 1 /\ t.pnl.num = k /\ t.pnl.den = 1
  OBVIOUS
<1>2. n * 1 + k * 1 = n + k /\ 1 * 1 = 1 /\ n + k \in Int
  OBVIOUS
<1>3. RatioSum(r, t) = Ratio(n + k, 1)
  BY <1>1, <1>2 DEF RatioSum
<1>4. QED
  BY <1>2, <1>3, WholeRatio

LEMMA ProfitStays == Ratio(0, 1) \in Whole /\ Stays(ProfitBy, Whole, ClosedT)
<1>1. Ratio(0, 1) \in Whole
  BY WholeRatio DEF Whole
<1>2. ASSUME NEW a \in Whole, NEW x \in ClosedT
      PROVE  ProfitBy[<<a, x>>] \in Whole
  <2>1. ProfitBy[<<a, x>>] = RatioSum(a, x)
    BY DEF ProfitBy
  <2>2. PICK n \in Int : a = [num |-> n, den |-> 1]
    BY DEF Whole
  <2>3. x.pnl \in Whole
    BY DEF ClosedT
  <2>4. PICK k \in Int : x.pnl = [num |-> k, den |-> 1]
    BY <2>3 DEF Whole
  <2>5. RatioSum(a, x) = [num |-> n + k, den |-> 1] /\ n + k \in Int
    BY <2>2, <2>4, RatioSumIs
  <2>6. QED
    BY <2>1, <2>5 DEF Whole
<1>3. QED
  BY <1>1, <1>2 DEF Stays

\* The model's folds are folds of these functions.
LEMMA WalkIsFold ==
  ASSUME NEW seq \in Seq(Fill)
  PROVE  Walked(seq) = FoldBy(WalkBy, WalkStart, seq)
<1> DEFINE D == DOMAIN seq
           Own(h) == h = [s \in SUBSET D |->
                            IF s = {} THEN WalkStart ELSE WalkFill(h[s \ {Max(s)}], seq[Max(s)])]
<1>1. /\ Numbers(D) /\ IsFiniteSet(D) /\ Typed(seq, D, Fill)
      /\ WalkStart \in WalkT /\ Stays(WalkBy, WalkT, Fill)
  BY Indices, WalkStays DEF Typed
<1>2. \A a \in WalkT, x \in Fill : WalkBy[<<a, x>>] = WalkFill(a, x)
  BY DEF WalkBy
<1>3. PICK g : Folded(g, WalkBy, WalkStart, seq, D)
  BY <1>1, FoldedExist
<1>4. \A s \in SUBSET D : g[s] \in WalkT
  BY <1>1, <1>3, FoldedIn
<1>5. \A s \in SUBSET D : s # {} => s \ {Max(s)} \in SUBSET D /\ Max(s) \in D
  BY <1>1, FS_Subset, MaxIsIn DEF Numbers
<1>6. Own(g)
  <2>1. ASSUME NEW s \in SUBSET D, s # {}
        PROVE  WalkBy[<<g[s \ {Max(s)}], seq[Max(s)]>>] = WalkFill(g[s \ {Max(s)}], seq[Max(s)])
    <3>1. g[s \ {Max(s)}] \in WalkT /\ seq[Max(s)] \in Fill
      BY <1>1, <1>4, <1>5, <2>1 DEF Typed
    <3>2. QED
      BY <1>2, <3>1, Zenon
  <2>2. g = [s \in SUBSET D |->
               IF s = {} THEN WalkStart ELSE WalkBy[<<g[s \ {Max(s)}], seq[Max(s)]>>]]
    BY <1>3, Zenon DEF Folded
  <2>3. \A s \in SUBSET D : (IF s = {} THEN WalkStart ELSE WalkBy[<<g[s \ {Max(s)}], seq[Max(s)]>>])
                            = (IF s = {} THEN WalkStart ELSE WalkFill(g[s \ {Max(s)}], seq[Max(s)]))
    BY <2>1, Zenon
  <2>4. [s \in SUBSET D |-> IF s = {} THEN WalkStart ELSE WalkBy[<<g[s \ {Max(s)}], seq[Max(s)]>>]]
        = [s \in SUBSET D |-> IF s = {} THEN WalkStart ELSE WalkFill(g[s \ {Max(s)}], seq[Max(s)])]
    BY <2>3, SignedIs
  <2>5. QED
    BY <2>2, <2>4, Zenon
<1> DEFINE h == CHOOSE h : Own(h)
<1>7. Own(h)
  BY <1>6, Zenon
<1>8. Walked(seq) = h[D]
  BY Zenon DEF Walked, WalkStart, Orders, FoldLeft, MapThenFoldSet
<1> HIDE DEF h
<1>9. TakesSteps(h, WalkBy, WalkT, WalkStart, seq, D)
  <2>1. ASSUME NEW s \in SUBSET D
        PROVE  h[s] = IF s = {} THEN WalkStart ELSE WalkFill(h[s \ {Max(s)}], seq[Max(s)])
    BY <1>7, Zenon
  <2>2. h[{}] = WalkStart
    <3>1. {} \in SUBSET D
      OBVIOUS
    <3>2. QED
      BY <2>1, <3>1, Zenon
  <2>3. ASSUME NEW s \in SUBSET D, s # {}, h[s \ {Max(s)}] \in WalkT
        PROVE  h[s] = WalkBy[<<h[s \ {Max(s)}], seq[Max(s)]>>]
    <3>1. seq[Max(s)] \in Fill
      BY <1>1, <1>5, <2>3 DEF Typed
    <3>2. h[s] = WalkFill(h[s \ {Max(s)}], seq[Max(s)])
      BY <2>1, <2>3, Zenon
    <3>3. QED
      BY <1>2, <2>3, <3>1, <3>2, Zenon
  <2>4. QED
    BY <2>2, <2>3 DEF TakesSteps
<1>10. FoldBy(WalkBy, WalkStart, seq) = h[D]
  <2>1. D = DOMAIN seq
    OBVIOUS
  <2> HIDE DEF D
  <2>2. PICK base : base = WalkStart
    OBVIOUS
  <2>3. base \in WalkT /\ TakesSteps(h, WalkBy, WalkT, base, seq, D)
    BY <1>1, <1>9, <2>2
  <2>4. FoldBy(WalkBy, base, seq) = h[D]
    BY <1>1, <2>1, <2>3, FoldBySteps
  <2>5. QED
    BY <2>2, <2>4
<1>11. QED
  BY <1>8, <1>10, Zenon

LEMMA SharesAreFold ==
  ASSUME NEW seq \in Seq(Fill)
  PROVE  FoldLeft(LAMBDA n, f : n + Signed(f), 0, seq) = FoldBy(SharesBy, 0, seq)
<1> DEFINE D == DOMAIN seq
           Own(h) == h = [s \in SUBSET D |->
                            IF s = {} THEN 0 ELSE h[s \ {Max(s)}] + Signed(seq[Max(s)])]
<1>1. /\ Numbers(D) /\ IsFiniteSet(D) /\ Typed(seq, D, Fill)
      /\ 0 \in Amounts /\ Stays(SharesBy, Amounts, Fill)
  BY Indices, SharesStay DEF Typed
<1>2. \A a \in Amounts, x \in Fill : SharesBy[<<a, x>>] = a + Signed(x)
  BY DEF SharesBy
<1>3. PICK g : Folded(g, SharesBy, 0, seq, D)
  BY <1>1, FoldedExist
<1>4. \A s \in SUBSET D : g[s] \in Amounts
  BY <1>1, <1>3, FoldedIn
<1>5. \A s \in SUBSET D : s # {} => s \ {Max(s)} \in SUBSET D /\ Max(s) \in D
  BY <1>1, FS_Subset, MaxIsIn DEF Numbers
<1>6. Own(g)
  <2>1. ASSUME NEW s \in SUBSET D, s # {}
        PROVE  SharesBy[<<g[s \ {Max(s)}], seq[Max(s)]>>] = g[s \ {Max(s)}] + Signed(seq[Max(s)])
    <3>1. g[s \ {Max(s)}] \in Amounts /\ seq[Max(s)] \in Fill
      BY <1>1, <1>4, <1>5, <2>1 DEF Typed
    <3>2. QED
      BY <1>2, <3>1, Zenon
  <2>2. g = [s \in SUBSET D |->
               IF s = {} THEN 0 ELSE SharesBy[<<g[s \ {Max(s)}], seq[Max(s)]>>]]
    BY <1>3, Zenon DEF Folded
  <2>3. \A s \in SUBSET D : (IF s = {} THEN 0 ELSE SharesBy[<<g[s \ {Max(s)}], seq[Max(s)]>>])
                            = (IF s = {} THEN 0 ELSE g[s \ {Max(s)}] + Signed(seq[Max(s)]))
    BY <2>1, Zenon
  <2>4. [s \in SUBSET D |-> IF s = {} THEN 0 ELSE SharesBy[<<g[s \ {Max(s)}], seq[Max(s)]>>]]
        = [s \in SUBSET D |-> IF s = {} THEN 0 ELSE g[s \ {Max(s)}] + Signed(seq[Max(s)])]
    BY <2>3, SignedIs
  <2>5. QED
    BY <2>2, <2>4, Zenon
<1> DEFINE h == CHOOSE h : Own(h)
<1>7. Own(h)
  BY <1>6, Zenon
<1>8. FoldLeft(LAMBDA n, f : n + Signed(f), 0, seq) = h[D]
  BY Zenon DEF FoldLeft, MapThenFoldSet
<1> HIDE DEF h
<1>9. TakesSteps(h, SharesBy, Amounts, 0, seq, D)
  <2>1. ASSUME NEW s \in SUBSET D
        PROVE  h[s] = IF s = {} THEN 0 ELSE h[s \ {Max(s)}] + Signed(seq[Max(s)])
    BY <1>7, Zenon
  <2>2. h[{}] = 0
    <3>1. {} \in SUBSET D
      OBVIOUS
    <3>2. QED
      BY <2>1, <3>1, Zenon
  <2>3. ASSUME NEW s \in SUBSET D, s # {}, h[s \ {Max(s)}] \in Amounts
        PROVE  h[s] = SharesBy[<<h[s \ {Max(s)}], seq[Max(s)]>>]
    <3>1. seq[Max(s)] \in Fill
      BY <1>1, <1>5, <2>3 DEF Typed
    <3>2. h[s] = h[s \ {Max(s)}] + Signed(seq[Max(s)])
      BY <2>1, <2>3, Zenon
    <3>3. QED
      BY <1>2, <2>3, <3>1, <3>2, Zenon
  <2>4. QED
    BY <2>2, <2>3 DEF TakesSteps
<1>10. FoldBy(SharesBy, 0, seq) = h[D]
  <2>1. D = DOMAIN seq
    OBVIOUS
  <2> HIDE DEF D
  <2>2. PICK base : base = 0
    OBVIOUS
  <2>3. base \in Amounts /\ TakesSteps(h, SharesBy, Amounts, base, seq, D)
    BY <1>1, <1>9, <2>2
  <2>4. FoldBy(SharesBy, base, seq) = h[D]
    BY <1>1, <2>1, <2>3, FoldBySteps
  <2>5. QED
    BY <2>2, <2>4
<1>11. QED
  BY <1>8, <1>10, Zenon

LEMMA CashIsFold ==
  ASSUME NEW seq \in Seq(Fill)
  PROVE  FoldLeft(LAMBDA n, f : n - Signed(f) * f.price, 0, seq) = FoldBy(CashBy, 0, seq)
<1> DEFINE D == DOMAIN seq
           Own(h) == h = [s \in SUBSET D |->
                            IF s = {} THEN 0 ELSE h[s \ {Max(s)}] - Signed(seq[Max(s)]) * seq[Max(s)].price]
<1>1. /\ Numbers(D) /\ IsFiniteSet(D) /\ Typed(seq, D, Fill)
      /\ 0 \in Amounts /\ Stays(CashBy, Amounts, Fill)
  BY Indices, CashStays DEF Typed
<1>2. \A a \in Amounts, x \in Fill : CashBy[<<a, x>>] = a - Signed(x) * x.price
  BY DEF CashBy
<1>3. PICK g : Folded(g, CashBy, 0, seq, D)
  BY <1>1, FoldedExist
<1>4. \A s \in SUBSET D : g[s] \in Amounts
  BY <1>1, <1>3, FoldedIn
<1>5. \A s \in SUBSET D : s # {} => s \ {Max(s)} \in SUBSET D /\ Max(s) \in D
  BY <1>1, FS_Subset, MaxIsIn DEF Numbers
<1>6. Own(g)
  <2>1. ASSUME NEW s \in SUBSET D, s # {}
        PROVE  CashBy[<<g[s \ {Max(s)}], seq[Max(s)]>>] = g[s \ {Max(s)}] - Signed(seq[Max(s)]) * seq[Max(s)].price
    <3>1. g[s \ {Max(s)}] \in Amounts /\ seq[Max(s)] \in Fill
      BY <1>1, <1>4, <1>5, <2>1 DEF Typed
    <3>2. QED
      BY <1>2, <3>1, Zenon
  <2>2. g = [s \in SUBSET D |->
               IF s = {} THEN 0 ELSE CashBy[<<g[s \ {Max(s)}], seq[Max(s)]>>]]
    BY <1>3, Zenon DEF Folded
  <2>3. \A s \in SUBSET D : (IF s = {} THEN 0 ELSE CashBy[<<g[s \ {Max(s)}], seq[Max(s)]>>])
                            = (IF s = {} THEN 0 ELSE g[s \ {Max(s)}] - Signed(seq[Max(s)]) * seq[Max(s)].price)
    BY <2>1, Zenon
  <2>4. [s \in SUBSET D |-> IF s = {} THEN 0 ELSE CashBy[<<g[s \ {Max(s)}], seq[Max(s)]>>]]
        = [s \in SUBSET D |-> IF s = {} THEN 0 ELSE g[s \ {Max(s)}] - Signed(seq[Max(s)]) * seq[Max(s)].price]
    BY <2>3, SignedIs
  <2>5. QED
    BY <2>2, <2>4, Zenon
<1> DEFINE h == CHOOSE h : Own(h)
<1>7. Own(h)
  BY <1>6, Zenon
<1>8. FoldLeft(LAMBDA n, f : n - Signed(f) * f.price, 0, seq) = h[D]
  BY Zenon DEF FoldLeft, MapThenFoldSet
<1> HIDE DEF h
<1>9. TakesSteps(h, CashBy, Amounts, 0, seq, D)
  <2>1. ASSUME NEW s \in SUBSET D
        PROVE  h[s] = IF s = {} THEN 0 ELSE h[s \ {Max(s)}] - Signed(seq[Max(s)]) * seq[Max(s)].price
    BY <1>7, Zenon
  <2>2. h[{}] = 0
    <3>1. {} \in SUBSET D
      OBVIOUS
    <3>2. QED
      BY <2>1, <3>1, Zenon
  <2>3. ASSUME NEW s \in SUBSET D, s # {}, h[s \ {Max(s)}] \in Amounts
        PROVE  h[s] = CashBy[<<h[s \ {Max(s)}], seq[Max(s)]>>]
    <3>1. seq[Max(s)] \in Fill
      BY <1>1, <1>5, <2>3 DEF Typed
    <3>2. h[s] = h[s \ {Max(s)}] - Signed(seq[Max(s)]) * seq[Max(s)].price
      BY <2>1, <2>3, Zenon
    <3>3. QED
      BY <1>2, <2>3, <3>1, <3>2, Zenon
  <2>4. QED
    BY <2>2, <2>3 DEF TakesSteps
<1>10. FoldBy(CashBy, 0, seq) = h[D]
  <2>1. D = DOMAIN seq
    OBVIOUS
  <2> HIDE DEF D
  <2>2. PICK base : base = 0
    OBVIOUS
  <2>3. base \in Amounts /\ TakesSteps(h, CashBy, Amounts, base, seq, D)
    BY <1>1, <1>9, <2>2
  <2>4. FoldBy(CashBy, base, seq) = h[D]
    BY <1>1, <2>1, <2>3, FoldBySteps
  <2>5. QED
    BY <2>2, <2>4
<1>11. QED
  BY <1>8, <1>10, Zenon

LEMMA ProfitIsFold ==
  ASSUME NEW seq \in Seq(ClosedT)
  PROVE  SumRatios(seq) = FoldBy(ProfitBy, Ratio(0, 1), seq)
<1> DEFINE D == DOMAIN seq
           Own(h) == h = [s \in SUBSET D |->
                            IF s = {} THEN Ratio(0, 1) ELSE RatioSum(h[s \ {Max(s)}], seq[Max(s)])]
<1>1. /\ Numbers(D) /\ IsFiniteSet(D) /\ Typed(seq, D, ClosedT)
      /\ Ratio(0, 1) \in Whole /\ Stays(ProfitBy, Whole, ClosedT)
  BY Indices, ProfitStays DEF Typed
<1>2. \A a \in Whole, x \in ClosedT : ProfitBy[<<a, x>>] = RatioSum(a, x)
  BY DEF ProfitBy
<1>3. PICK g : Folded(g, ProfitBy, Ratio(0, 1), seq, D)
  BY <1>1, FoldedExist
<1>4. \A s \in SUBSET D : g[s] \in Whole
  BY <1>1, <1>3, FoldedIn
<1>5. \A s \in SUBSET D : s # {} => s \ {Max(s)} \in SUBSET D /\ Max(s) \in D
  BY <1>1, FS_Subset, MaxIsIn DEF Numbers
<1>6. Own(g)
  <2>1. ASSUME NEW s \in SUBSET D, s # {}
        PROVE  ProfitBy[<<g[s \ {Max(s)}], seq[Max(s)]>>] = RatioSum(g[s \ {Max(s)}], seq[Max(s)])
    <3>1. g[s \ {Max(s)}] \in Whole /\ seq[Max(s)] \in ClosedT
      BY <1>1, <1>4, <1>5, <2>1 DEF Typed
    <3>2. QED
      BY <1>2, <3>1, Zenon
  <2>2. g = [s \in SUBSET D |->
               IF s = {} THEN Ratio(0, 1) ELSE ProfitBy[<<g[s \ {Max(s)}], seq[Max(s)]>>]]
    BY <1>3, Zenon DEF Folded
  <2>3. \A s \in SUBSET D : (IF s = {} THEN Ratio(0, 1) ELSE ProfitBy[<<g[s \ {Max(s)}], seq[Max(s)]>>])
                            = (IF s = {} THEN Ratio(0, 1) ELSE RatioSum(g[s \ {Max(s)}], seq[Max(s)]))
    BY <2>1, Zenon
  <2>4. [s \in SUBSET D |-> IF s = {} THEN Ratio(0, 1) ELSE ProfitBy[<<g[s \ {Max(s)}], seq[Max(s)]>>]]
        = [s \in SUBSET D |-> IF s = {} THEN Ratio(0, 1) ELSE RatioSum(g[s \ {Max(s)}], seq[Max(s)])]
    BY <2>3, SignedIs
  <2>5. QED
    BY <2>2, <2>4, Zenon
<1> DEFINE h == CHOOSE h : Own(h)
<1>7. Own(h)
  BY <1>6, Zenon
<1>8. SumRatios(seq) = h[D]
  BY Zenon DEF SumRatios, RatioSum, FoldLeft, MapThenFoldSet
<1> HIDE DEF h
<1>9. TakesSteps(h, ProfitBy, Whole, Ratio(0, 1), seq, D)
  <2>1. ASSUME NEW s \in SUBSET D
        PROVE  h[s] = IF s = {} THEN Ratio(0, 1) ELSE RatioSum(h[s \ {Max(s)}], seq[Max(s)])
    BY <1>7, Zenon
  <2>2. h[{}] = Ratio(0, 1)
    <3>1. {} \in SUBSET D
      OBVIOUS
    <3>2. QED
      BY <2>1, <3>1, Zenon
  <2>3. ASSUME NEW s \in SUBSET D, s # {}, h[s \ {Max(s)}] \in Whole
        PROVE  h[s] = ProfitBy[<<h[s \ {Max(s)}], seq[Max(s)]>>]
    <3>1. seq[Max(s)] \in ClosedT
      BY <1>1, <1>5, <2>3 DEF Typed
    <3>2. h[s] = RatioSum(h[s \ {Max(s)}], seq[Max(s)])
      BY <2>1, <2>3, Zenon
    <3>3. QED
      BY <1>2, <2>3, <3>1, <3>2, Zenon
  <2>4. QED
    BY <2>2, <2>3 DEF TakesSteps
<1>10. FoldBy(ProfitBy, Ratio(0, 1), seq) = h[D]
  <2>1. D = DOMAIN seq
    OBVIOUS
  <2> HIDE DEF D
  <2>2. PICK base : base = Ratio(0, 1)
    OBVIOUS
  <2>3. base \in Whole /\ TakesSteps(h, ProfitBy, Whole, base, seq, D)
    BY <1>1, <1>9, <2>2
  <2>4. FoldBy(ProfitBy, base, seq) = h[D]
    BY <1>1, <2>1, <2>3, FoldBySteps
  <2>5. QED
    BY <2>2, <2>4
<1>11. QED
  BY <1>8, <1>10, Zenon

-----------------------------------------------------------------------------
(* Nothing of the log is lost.                                             *)

\* What holds of the walk of a log of fills: the shares it has open are the net
\* of the fills; the profits of the trips it closed are a whole number, and with
\* the cash of the trip that is open they are the cash the fills moved.
TripsAccounted(fills) ==
  LET w == Walked(fills)
  IN  /\ fills \in Seq(Fill)
      /\ w \in WalkT /\ Apart(w)
      /\ FoldLeft(LAMBDA n, f : n + Signed(f), 0, fills) = Held(w.current)
      /\ \E k \in Int :
           /\ SumRatios(w.closed) = [num |-> k, den |-> 1]
           /\ FoldLeft(LAMBDA n, f : n - Signed(f) * f.price, 0, fills) = k + Money(w.current)

LEMMA WalkedMore ==
  ASSUME NEW fills \in Seq(Fill), NEW f \in Fill, NEW s \in WalkT, s = Walked(fills)
  PROVE  Walked(Append(fills, f)) = WalkFill(s, f)
<1>1. PICK more : more = Append(fills, f)
  OBVIOUS
<1>2. more \in Seq(Fill)
  BY <1>1, AppendProperties
<1>3. FoldBy(WalkBy, WalkStart, more) = WalkBy[<<FoldBy(WalkBy, WalkStart, fills), f>>]
  BY <1>1, FoldByAppend
<1>4. Walked(more) = FoldBy(WalkBy, WalkStart, more) /\ s = FoldBy(WalkBy, WalkStart, fills)
  BY <1>2, WalkIsFold
<1>5. WalkBy[<<s, f>>] = WalkFill(s, f)
  BY DEF WalkBy
<1>6. QED
  BY <1>1, <1>3, <1>4, <1>5

LEMMA AccountedAtFirst == TripsAccounted(<<>>)
<1>1. /\ <<>> \in Seq(Fill) /\ <<>> \in Seq(ClosedT)
  BY EmptySeq
<1>2. Walked(<<>>) = WalkStart
  BY <1>1, WalkIsFold, FoldByNothing
<1>3. FoldLeft(LAMBDA n, f : n + Signed(f), 0, <<>>) = 0
  BY <1>1, SharesAreFold, FoldByNothing
<1>4. FoldLeft(LAMBDA n, f : n - Signed(f) * f.price, 0, <<>>) = 0
  BY <1>1, CashIsFold, FoldByNothing
<1>5. SumRatios(<<>>) = [num |-> 0, den |-> 1]
  <2>1. SumRatios(<<>>) = Ratio(0, 1)
    BY <1>1, ProfitIsFold, FoldByNothing
  <2>2. Ratio(0, 1) = [num |-> 0, den |-> 1]
    BY WholeRatio
  <2>3. QED
    BY <2>1, <2>2
<1>6. WalkStart.current = Flat /\ WalkStart.closed = <<>>
  BY DEF WalkStart
<1>7. Held(Flat) = 0 /\ Money(Flat) = 0
  BY DEF Held, Money
<1>8. Apart(WalkStart)
  BY <1>6 DEF Apart, Ids
<1>9. 0 = 0 + Money(WalkStart.current)
  BY <1>6, <1>7
<1>10. PICK k \in Int : k = 0
  OBVIOUS
<1>11. /\ SumRatios(WalkStart.closed) = [num |-> k, den |-> 1]
       /\ FoldLeft(LAMBDA n, f : n - Signed(f) * f.price, 0, <<>>) = k + Money(WalkStart.current)
       /\ FoldLeft(LAMBDA n, f : n + Signed(f), 0, <<>>) = Held(WalkStart.current)
  <2>1. k = k + Money(WalkStart.current)
    BY <1>9, <1>10
  <2>2. QED
    BY <1>3, <1>4, <1>5, <1>6, <1>7, <1>10, <2>1, Zenon
<1>12. QED
  BY <1>1, <1>2, <1>8, <1>10, <1>11, WalkStays, Zenon DEF TripsAccounted

LEMMA ProfitOfMore ==
  ASSUME NEW closed \in Seq(ClosedT), NEW n \in Int, SumRatios(closed) = [num |-> n, den |-> 1],
         NEW t \in ClosedT, NEW k \in Int, t.pnl = [num |-> k, den |-> 1]
  PROVE  SumRatios(Append(closed, t)) = [num |-> n + k, den |-> 1]
<1>1. PICK more : more = Append(closed, t)
  OBVIOUS
<1>2. more \in Seq(ClosedT)
  BY <1>1, AppendProperties
<1>3. SumRatios(more) = FoldBy(ProfitBy, Ratio(0, 1), more)
  BY <1>2, ProfitIsFold
<1>4. SumRatios(closed) = FoldBy(ProfitBy, Ratio(0, 1), closed)
  BY ProfitIsFold
<1>5. FoldBy(ProfitBy, Ratio(0, 1), more) = ProfitBy[<<FoldBy(ProfitBy, Ratio(0, 1), closed), t>>]
  BY <1>1, FoldByAppend
<1>6. PICK r \in Whole : r = [num |-> n, den |-> 1]
  BY DEF Whole
<1>7. ProfitBy[<<r, t>>] = RatioSum(r, t)
  BY DEF ProfitBy
<1>8. RatioSum(r, t) = [num |-> n + k, den |-> 1]
  BY <1>6, RatioSumIs
<1>9. QED
  BY <1>1, <1>3, <1>4, <1>5, <1>6, <1>7, <1>8

LEMMA AccountedWithMore ==
  ASSUME NEW fills, TripsAccounted(fills), NEW f \in Fill
  PROVE  TripsAccounted(Append(fills, f))
<1>1. PICK more : more = Append(fills, f)
  OBVIOUS
<1>2. fills \in Seq(Fill)
  BY DEF TripsAccounted
<1>3. more \in Seq(Fill)
  BY <1>1, <1>2, AppendProperties
<1>4. PICK s : s = Walked(fills)
  OBVIOUS
<1>5. s \in WalkT /\ Apart(s)
  BY <1>4 DEF TripsAccounted
<1>6. Walked(more) = WalkFill(s, f)
  BY <1>1, <1>2, <1>4, <1>5, WalkedMore
<1>7. PICK n \in Int : n = FoldLeft(LAMBDA x, y : x + Signed(y), 0, fills) /\ n = Held(s.current)
  <2>1. s.current \in OpenT \/ s.current = Flat
    BY <1>5, WalkIs
  <2>2. Held(s.current) \in Int
    BY <2>1, HeldIs DEF Held
  <2>3. QED
    BY <1>4, <2>2 DEF TripsAccounted
<1>8. PICK k \in Int : /\ SumRatios(s.closed) = [num |-> k, den |-> 1]
                       /\ FoldLeft(LAMBDA x, y : x - Signed(y) * y.price, 0, fills) = k + Money(s.current)
  BY <1>4 DEF TripsAccounted
<1>9. PICK m \in Int : m = Money(s.current)
  <2>1. s.current \in OpenT \/ s.current = Flat
    BY <1>5, WalkIs
  <2>2. QED
    BY <2>1, HeldIs DEF Money
<1>10. FoldLeft(LAMBDA x, y : x + Signed(y), 0, more) = n + Signed(f)
  <2>1. FoldBy(SharesBy, 0, more) = SharesBy[<<FoldBy(SharesBy, 0, fills), f>>]
    BY <1>1, <1>2, FoldByAppend
  <2>2. FoldLeft(LAMBDA x, y : x + Signed(y), 0, more) = FoldBy(SharesBy, 0, more)
    BY <1>3, SharesAreFold
  <2>3. n = FoldBy(SharesBy, 0, fills)
    BY <1>2, <1>7, SharesAreFold
  <2>4. SharesBy[<<n, f>>] = n + Signed(f)
    BY DEF SharesBy, Amounts
  <2>5. QED
    BY <2>1, <2>2, <2>3, <2>4
<1>11. FoldLeft(LAMBDA x, y : x - Signed(y) * y.price, 0, more) = k + m - Signed(f) * f.price
  <2>1. FoldBy(CashBy, 0, more) = CashBy[<<FoldBy(CashBy, 0, fills), f>>]
    BY <1>1, <1>2, FoldByAppend
  <2>2. FoldLeft(LAMBDA x, y : x - Signed(y) * y.price, 0, more) = FoldBy(CashBy, 0, more)
    BY <1>3, CashIsFold
  <2>3. PICK c \in Int : c = k + m
    OBVIOUS
  <2>4. c = FoldBy(CashBy, 0, fills)
    BY <1>2, <1>8, <1>9, <2>3, CashIsFold
  <2>5. CashBy[<<c, f>>] = c - Signed(f) * f.price
    BY DEF CashBy, Amounts
  <2>6. FoldLeft(LAMBDA x, y : x - Signed(y) * y.price, 0, more) = c - Signed(f) * f.price
    BY <2>1, <2>2, <2>4, <2>5, Zenon
  <2>7. c - Signed(f) * f.price = k + m - Signed(f) * f.price
    BY <2>3, SignedIs
  <2>8. QED
    BY <2>6, <2>7, Zenon
<1>12. PICK w : w = Walked(more)
  OBVIOUS
<1>13. w \in WalkT /\ Apart(w)
  BY <1>5, <1>6, <1>12, FillCarries, FillKeepsApart DEF Carries
<1>14. Held(w.current) = n + Signed(f)
  BY <1>5, <1>6, <1>7, <1>12, FillCarries DEF Carries
<1>15. PICK j \in Int :
         /\ Money(w.current) + j = m - Signed(f) * f.price
         /\ \/ j = 0 /\ w.closed = s.closed
            \/ \E t \in ClosedT : t.pnl = [num |-> j, den |-> 1] /\ w.closed = Append(s.closed, t)
  BY <1>5, <1>6, <1>9, <1>12, FillCarries DEF Carries
<1>16. SumRatios(w.closed) = [num |-> k + j, den |-> 1]
  <2>1. CASE j = 0 /\ w.closed = s.closed
    <3>1. k + j = k
      BY <2>1
    <3>2. QED
      BY <1>8, <2>1, <3>1
  <2>2. CASE \E t \in ClosedT : t.pnl = [num |-> j, den |-> 1] /\ w.closed = Append(s.closed, t)
    <3>1. PICK t \in ClosedT : t.pnl = [num |-> j, den |-> 1] /\ w.closed = Append(s.closed, t)
      BY <2>2
    <3>2. PICK closed \in Seq(ClosedT) : closed = s.closed /\ SumRatios(closed) = [num |-> k, den |-> 1]
      BY <1>5, <1>8, WalkIs
    <3>3. SumRatios(Append(closed, t)) = [num |-> k + j, den |-> 1]
      BY <3>1, <3>2, ProfitOfMore
    <3>4. QED
      BY <3>1, <3>2, <3>3, Zenon
  <2>3. QED
    BY <1>15, <2>1, <2>2
<1>17. Money(w.current) \in Int /\ Signed(f) * f.price \in Int
  <2>1. w.current \in OpenT \/ w.current = Flat
    BY <1>13, WalkIs
  <2>2. QED
    BY <2>1, HeldIs, SignedIs DEF Money
<1>18. k + m - Signed(f) * f.price = (k + j) + Money(w.current) /\ k + j \in Int
  BY <1>15, <1>17
<1>19. TripsAccounted(more)
  BY <1>3, <1>10, <1>11, <1>12, <1>13, <1>14, <1>16, <1>18 DEF TripsAccounted
<1>20. QED
  BY <1>1, <1>19

LEMMA AccountedIsEnough ==
  ASSUME TripsAccounted(log)
  PROVE  TripsAccountForCash
<1>1. PICK w : w = Walked(log)
  OBVIOUS
<1>2. w \in WalkT /\ Apart(w) /\ NetShares = Held(w.current)
  BY <1>1 DEF TripsAccounted, NetShares
<1>3. PICK k \in Int : SumRatios(w.closed) = [num |-> k, den |-> 1] /\ NetCash = k + Money(w.current)
  BY <1>1 DEF TripsAccounted, NetCash
<1>4. StillOpen(log) = NetShares
  BY <1>1, <1>2 DEF StillOpen, Held
<1>5. ASSUME NetShares = 0
      PROVE  SumRatios(w.closed) = Ratio(NetCash, 1)
  <2>1. w.current = Flat
    BY <1>2, <1>5, HeldIs, WalkIs
  <2>2. Money(w.current) = 0
    BY <2>1 DEF Money
  <2>3. NetCash = k
    BY <1>3, <2>2
  <2>4. QED
    BY <1>3, <2>3, WholeRatio
<1>6. \A i, j \in DOMAIN w.closed : w.closed[i].id = w.closed[j].id => i = j
  BY <1>2 DEF Apart, Ids
<1>7. QED
  BY <1>1, <1>4, <1>5, <1>6 DEF TripsAccountForCash, TripsOf

\* For any number of fills of any sizes, at any prices and under any orders: the
\* walk that pairs fills into round trips neither drops nor doubles a share or a
\* cent of them, and gives no two trips the same id.
THEOREM RoundTripsAccountForCash == TripsSpec => []TripsAccountForCash
<1>1. TripsInit => TripsAccounted(log)
  BY AccountedAtFirst DEF TripsInit
<1>2. TripsAccounted(log) /\ [TripsNext]_tripVars => TripsAccounted(log)'
  <2>1. SUFFICES ASSUME TripsAccounted(log), [TripsNext]_tripVars
                 PROVE  TripsAccounted(log')
    OBVIOUS
  <2>2. CASE TripsNext
    BY <2>1, <2>2, AccountedWithMore DEF TripsNext, FillOrder
  <2>3. CASE UNCHANGED tripVars
    BY <2>1, <2>3 DEF tripVars
  <2>4. QED
    BY <2>1, <2>2, <2>3
<1>3. TripsAccounted(log) => TripsAccountForCash
  BY AccountedIsEnough
<1>4. QED
  BY <1>1, <1>2, <1>3, PTL DEF TripsSpec

-----------------------------------------------------------------------------
(* The simulator beside the walk.                                          *)

PosRow ==
  [side : {"long", "short"}, qty : Nat, avg : Fractions, entry : Orders,
   exitQty : Nat, exitValue : Int, exits : SUBSET Orders, fills : Int]

TradeT ==
  [id : Orders \X Nat, side : {"long", "short"}, qty : Nat, entryAvg : Fractions,
   exitAvg : Fractions, pnl : Fractions, exits : SUBSET Orders, fills : Int]

\* The position row is the trip the walk has open.
SameTrip(pos, c) ==
  \/ pos = Flat /\ c = Flat
  \/ /\ pos \in PosRow /\ c \in OpenT
     /\ pos.side = c.side /\ pos.qty = OpenQty(c) /\ pos.entry = c.entry /\ c.leg = 0
     /\ pos.exitQty = c.exitQty /\ pos.exitValue = c.exitValue /\ pos.exits = c.exits

\* Something was bought back after something was sold.
Reloaded(c, fills) ==
  \E first \in c.exits : \E i \in DOMAIN fills : i >= first /\ Opens(fills[i]) = c.side

\* The row's average is the trip's, until a reload.
Kept(pos, c, fills) ==
  /\ SameTrip(pos, c)
  /\ c # Flat => /\ c.exits \subseteq DOMAIN fills
                 /\ c.exits = {} => c.exitQty = 0
                 /\ Reloaded(c, fills) \/ pos.avg = Ratio(c.entryValue, c.entryQty)

ReloadedTrip(fills, t) ==
  \E first, last \in t.exits : \E i \in first..last : Opens(fills[i]) = t.side

Agree(fills, row, t) ==
  /\ Boundary(row) = Boundary(t)
  /\ row.exits \subseteq DOMAIN fills
  /\ ReloadedTrip(fills, row) \/ (row.pnl = t.pnl /\ row.entryAvg = t.entryAvg)

\* more is fills and f, the n-th and last.
Grows(more, fills, f, n) ==
  /\ n \in Nat /\ DOMAIN fills = 1..n /\ DOMAIN more = 1..(n + 1)
  /\ more[n + 1] = f /\ \A i \in 1..n : more[i] = fills[i]

LEMMA PosIs ==
  ASSUME NEW p \in PosRow
  PROVE  /\ p.side \in {"long", "short"} /\ p.qty \in Nat /\ p.avg \in Fractions /\ p.entry \in Orders
         /\ p.exitQty \in Nat /\ p.exitValue \in Int /\ p.exits \in SUBSET Orders /\ p.fills \in Int
BY DEF PosRow

LEMMA GrownIndices ==
  ASSUME NEW more, NEW fills, NEW f, NEW n, Grows(more, fills, f, n)
  PROVE  /\ DOMAIN fills \subseteq DOMAIN more /\ n + 1 \in DOMAIN more
         /\ \A i \in DOMAIN fills : i \in Int /\ i <= n /\ more[i] = fills[i]
         /\ \A i \in DOMAIN more : i = n + 1 \/ i \in DOMAIN fills
BY DEF Grows

LEMMA ReloadStays ==
  ASSUME NEW more, NEW fills, NEW f, NEW n, Grows(more, fills, f, n), NEW c, NEW d,
         c.exits \subseteq d.exits, c.side = d.side, Reloaded(c, fills)
  PROVE  Reloaded(d, more)
<1>1. PICK first \in c.exits : \E i \in DOMAIN fills : i >= first /\ Opens(fills[i]) = c.side
  BY DEF Reloaded
<1>2. PICK i \in DOMAIN fills : i >= first /\ Opens(fills[i]) = c.side
  BY <1>1
<1>3. i \in DOMAIN more /\ more[i] = fills[i]
  BY GrownIndices
<1>4. QED
  BY <1>2, <1>3 DEF Reloaded

LEMMA FreshKept ==
  ASSUME NEW f \in Fill, NEW qty \in Nat, qty > 0, NEW more
  PROVE  Kept(OpenFresh(f, qty), OpenTrip(f, qty, 0), more)
<1>1. /\ f.order \in Orders /\ f.price \in Nat /\ Opens(f) \in {"long", "short"}
  BY FillIs
<1>2. PICK c \in OpenT : /\ c = OpenTrip(f, qty, 0) /\ c.side = Opens(f) /\ c.entry = f.order /\ c.leg = 0
                         /\ c.entryQty = qty /\ c.exitQty = 0
                         /\ c.entryValue = qty * f.price /\ c.exitValue = 0
  BY OpenedIs
<1>3. c.exits = {}
  BY <1>2 DEF OpenTrip
<1>4. PICK p : p = OpenFresh(f, qty)
  OBVIOUS
<1>5. PICK r \in Fractions : r = Ratio(f.price, 1)
  BY <1>1, RatioIn
<1>6. p = [side |-> Opens(f), qty |-> qty, avg |-> r, entry |-> f.order,
           exitQty |-> 0, exitValue |-> 0, exits |-> {}, fills |-> 1]
  BY <1>4, <1>5 DEF OpenFresh
<1>7. p \in PosRow
  BY <1>1, <1>6 DEF PosRow
<1>8. r = Ratio(c.entryValue, c.entryQty)
  <2>1. PICK v \in Int : v = qty * f.price
    BY <1>1
  <2>2. f.price * qty = v * 1
    BY <1>1, <2>1
  <2>3. Ratio(f.price, 1) = Ratio(v, qty)
    BY <1>1, <2>2, SameRatio
  <2>4. QED
    BY <1>2, <1>5, <2>1, <2>3
<1>9. OpenQty(c) = qty
  BY <1>2 DEF OpenQty
<1>10. SameTrip(p, c)
  BY <1>2, <1>3, <1>6, <1>7, <1>9 DEF SameTrip
<1>11. QED
  BY <1>2, <1>3, <1>4, <1>6, <1>8, <1>10 DEF Kept

LEMMA KeptOpen ==
  ASSUME NEW pos, NEW c \in OpenT, NEW fills, Kept(pos, c, fills)
  PROVE  /\ pos \in PosRow /\ pos # Flat
         /\ pos.side = c.side /\ pos.qty = OpenQty(c) /\ pos.entry = c.entry /\ c.leg = 0
         /\ pos.exitQty = c.exitQty /\ pos.exitValue = c.exitValue /\ pos.exits = c.exits
         /\ c.exits \subseteq DOMAIN fills
         /\ c.exits = {} => c.exitQty = 0
         /\ Reloaded(c, fills) \/ pos.avg = Ratio(c.entryValue, c.entryQty)
<1>1. c # Flat
  BY TripIs
<1>2. SameTrip(pos, c)
  BY DEF Kept
<1>3. pos \in PosRow
  BY <1>1, <1>2 DEF SameTrip
<1>4. pos # Flat
  BY <1>3, PosIs DEF Flat
<1>5. QED
  BY <1>1, <1>2, <1>3, <1>4 DEF SameTrip, Kept

LEMMA AddKept ==
  ASSUME NEW pos, NEW c \in OpenT, NEW fills, Kept(pos, c, fills), NEW f \in Fill, Opens(f) = c.side,
         NEW more, NEW n, Grows(more, fills, f, n)
  PROVE  Kept(AddTo(pos, f), AddEntry(c, f), more)
<1>1. /\ pos \in PosRow
      /\ pos.side = c.side /\ pos.qty = OpenQty(c) /\ pos.entry = c.entry /\ c.leg = 0
      /\ pos.exitQty = c.exitQty /\ pos.exitValue = c.exitValue /\ pos.exits = c.exits
      /\ c.exits \subseteq DOMAIN fills
      /\ c.exits = {} => c.exitQty = 0
      /\ Reloaded(c, fills) \/ pos.avg = Ratio(c.entryValue, c.entryQty)
  BY KeptOpen
<1>2. f.qty \in Nat /\ f.qty > 0 /\ f.price \in Nat
  BY FillIs
<1>3. PICK v \in Int : v = f.qty * f.price
  BY FillIs
<1>4. PICK a \in OpenT : /\ a = AddEntry(c, f) /\ a.side = c.side /\ a.entry = c.entry /\ a.leg = c.leg
                         /\ a.entryQty = c.entryQty + f.qty /\ a.exitQty = c.exitQty
                         /\ a.entryValue = c.entryValue + v /\ a.exitValue = c.exitValue
  BY <1>3, AddedIs
<1>5. a.exits = c.exits
  BY <1>4, TripIs DEF AddEntry, TripRow
<1>6. pos.qty \in Nat /\ pos.avg \in Fractions
  BY <1>1, PosIs
<1>7. PICK x \in Int, d \in Nat : x = pos.avg.num /\ d = pos.avg.den /\ d > 0
  BY <1>6 DEF Fractions
<1>8. PICK num \in Int : num = x * pos.qty + f.price * f.qty * d
  BY <1>2, <1>6, <1>7
<1>9. PICK den \in Nat : den = d * (pos.qty + f.qty) /\ den > 0
  BY <1>2, <1>6, <1>7
<1>10. PICK avg \in Fractions : avg = Ratio(num, den)
  BY <1>9, RatioIn
<1>11. PICK q \in Nat : q = pos.qty + f.qty
  BY <1>2, <1>6
<1>12. PICK p : p = AddTo(pos, f)
  OBVIOUS
<1>13. p = [pos EXCEPT !.qty = q, !.avg = avg]
  BY <1>7, <1>8, <1>9, <1>10, <1>11, <1>12 DEF AddTo
<1>14. /\ p \in PosRow /\ p.qty = q /\ p.avg = avg /\ p.side = pos.side /\ p.entry = pos.entry
       /\ p.exitQty = pos.exitQty /\ p.exitValue = pos.exitValue /\ p.exits = pos.exits
  BY <1>1, <1>13 DEF PosRow
<1>15. q = OpenQty(a)
  BY <1>1, <1>2, <1>4, <1>11, TripIs DEF OpenQty
<1>16. SameTrip(p, a)
  BY <1>1, <1>4, <1>5, <1>14, <1>15 DEF SameTrip
<1>17. a.exits \subseteq DOMAIN more /\ (a.exits = {} => a.exitQty = 0)
  BY <1>1, <1>4, <1>5, GrownIndices
<1>18. Reloaded(a, more) \/ p.avg = Ratio(a.entryValue, a.entryQty)
  <2>1. CASE Reloaded(c, fills)
    BY <1>4, <1>5, <2>1, ReloadStays
  <2>2. CASE c.exits # {}
    <3>1. PICK first \in c.exits : first \in DOMAIN fills
      BY <1>1, <2>2
    <3>2. n + 1 \in DOMAIN more /\ n + 1 >= first /\ more[n + 1] = f
      BY <3>1, GrownIndices DEF Grows
    <3>3. QED
      BY <1>4, <1>5, <3>1, <3>2 DEF Reloaded
  <2>3. CASE c.exits = {} /\ pos.avg = Ratio(c.entryValue, c.entryQty)
    <3>1. pos.qty = c.entryQty /\ c.entryQty \in Nat /\ c.entryQty > 0 /\ c.entryValue \in Int
      BY <1>1, <1>6, <2>3, TripIs
    <3>2. x * c.entryQty = c.entryValue * d
      <4>1. PICK m \in Int : m = c.entryValue
        BY <3>1
      <4>2. PICK k \in Nat : k = c.entryQty /\ k > 0
        BY <3>1
      <4>3. PICK y \in Int, z \in Nat : Ratio(m, k) = [num |-> y, den |-> z] /\ z > 0 /\ y * k = m * z
        BY <4>2, RatioEquals
      <4>4. x = y /\ d = z
        BY <1>7, <2>3, <4>1, <4>2, <4>3
      <4>5. QED
        BY <4>1, <4>2, <4>3, <4>4
    <3>3. PICK w \in Int : w = c.entryValue + v
      BY <3>1
    <3>4. num = w * d
      <4>1. num = c.entryValue * d + v * d
        <5>1. f.price * f.qty = v
          BY <1>2, <1>3
        <5>2. QED
          BY <1>8, <3>1, <3>2, <5>1
      <4>2. QED
        BY <3>1, <3>3, <4>1, Regroup
    <3>5. den = d * q
      BY <1>9, <1>11
    <3>6. num * q = w * den
      BY <3>4, <3>5, Regroup
    <3>7. q > 0
      BY <1>2, <1>6, <1>11
    <3>8. Ratio(num, den) = Ratio(w, q)
      BY <1>9, <3>6, <3>7, SameRatio
    <3>9. QED
      BY <1>4, <1>10, <1>11, <1>14, <3>1, <3>3, <3>8
  <2>4. QED
    BY <1>1, <2>1, <2>2, <2>3
<1>19. QED
  BY <1>4, <1>12, <1>16, <1>17, <1>18 DEF Kept

\* What is taken of the row is what is taken of the trip.
LEMMA ReduceIs ==
  ASSUME NEW p \in PosRow, NEW f \in Fill, NEW take \in Nat, take <= p.qty
  PROVE  LET r == Reduce(p, f, take)
         IN  /\ r \in PosRow /\ r.side = p.side /\ r.qty = p.qty - take /\ r.avg = p.avg /\ r.entry = p.entry
             /\ r.exitQty = p.exitQty + take /\ r.exitValue = p.exitValue + take * f.price
             /\ r.exits = p.exits \cup {f.order}
<1>1. f.order \in Orders /\ f.price \in Nat /\ p.qty \in Nat /\ p.exitQty \in Nat /\ p.exitValue \in Int
      /\ p.exits \in SUBSET Orders /\ p.fills \in Int
  BY FillIs, PosIs
<1>2. PICK v \in Int : v = take * f.price
  BY <1>1
<1>3. PICK q \in Nat : q = p.qty - take
  BY <1>1
<1>4. PICK e \in Nat : e = p.exitQty + take
  BY <1>1
<1>5. PICK w \in Int : w = p.exitValue + v
  BY <1>1
<1>6. PICK x \in SUBSET Orders : x = p.exits \cup {f.order}
  BY <1>1
<1>7. PICK m \in Int : m = p.fills + 1
  BY <1>1
<1>8. PICK r : r = Reduce(p, f, take)
  OBVIOUS
<1>9. r = [p EXCEPT !.qty = q, !.exitQty = e, !.exitValue = w, !.exits = x, !.fills = m]
  BY <1>2, <1>3, <1>4, <1>5, <1>6, <1>7, <1>8 DEF Reduce
<1>10. /\ r \in PosRow /\ r.side = p.side /\ r.qty = q /\ r.avg = p.avg /\ r.entry = p.entry
       /\ r.exitQty = e /\ r.exitValue = w /\ r.exits = x
  BY <1>9 DEF PosRow
<1>11. QED
  BY <1>2, <1>3, <1>4, <1>5, <1>6, <1>8, <1>10

\* A fill of the other side, as far as the row and the trip have shares for it.
Takes(pos, c, fills, f, more, n, take, p, a) ==
  /\ pos \in PosRow /\ c \in OpenT /\ Kept(pos, c, fills) /\ Grows(more, fills, f, n)
  /\ f \in Fill /\ f.order = n + 1
  /\ take = Least(f.qty, OpenQty(c)) /\ p = Reduce(pos, f, take) /\ a = AddExit(c, f, take)

LEMMA TakesIs ==
  ASSUME NEW pos, NEW c, NEW fills, NEW f, NEW more, NEW n, NEW take, NEW p, NEW a,
         Takes(pos, c, fills, f, more, n, take, p, a)
  PROVE  /\ p \in PosRow /\ a \in TripRow /\ p.side = a.side /\ a.side = c.side
         /\ p.qty = OpenQty(a) /\ p.entry = a.entry /\ a.leg = 0 /\ a.entry = c.entry /\ a.leg = c.leg
         /\ p.exitQty = a.exitQty /\ a.exitQty > 0 /\ p.exitValue = a.exitValue
         /\ p.exits = a.exits /\ a.exits \subseteq DOMAIN more /\ n + 1 \in a.exits
         /\ c.exits \subseteq a.exits /\ c.exits \subseteq DOMAIN fills
         /\ a.entryQty = c.entryQty /\ a.entryValue = c.entryValue /\ p.avg = pos.avg
         /\ Reloaded(c, fills) \/ p.avg = Ratio(a.entryValue, a.entryQty)
<1>1. /\ pos \in PosRow /\ c \in OpenT /\ Kept(pos, c, fills) /\ Grows(more, fills, f, n)
      /\ f \in Fill /\ f.order = n + 1
      /\ take = Least(f.qty, OpenQty(c)) /\ p = Reduce(pos, f, take) /\ a = AddExit(c, f, take)
  BY DEF Takes
<1>2. /\ pos.side = c.side /\ pos.qty = OpenQty(c) /\ pos.entry = c.entry /\ c.leg = 0
      /\ pos.exitQty = c.exitQty /\ pos.exitValue = c.exitValue /\ pos.exits = c.exits
      /\ c.exits \subseteq DOMAIN fills
      /\ Reloaded(c, fills) \/ pos.avg = Ratio(c.entryValue, c.entryQty)
  BY <1>1, KeptOpen
<1>3. /\ take \in Nat /\ take > 0 /\ a \in TripRow
      /\ a.side = c.side /\ a.entry = c.entry /\ a.leg = c.leg
      /\ a.entryQty = c.entryQty /\ a.exitQty = c.exitQty + take
      /\ a.entryValue = c.entryValue /\ a.exitValue = c.exitValue + take * f.price
      /\ OpenQty(a) = OpenQty(c) - take /\ OpenQty(a) >= 0
  BY <1>1, ExitedIs
<1>4. take <= pos.qty
  BY <1>2, <1>3, <1>1, PosIs
<1>5. /\ p \in PosRow /\ p.side = pos.side /\ p.qty = pos.qty - take /\ p.avg = pos.avg /\ p.entry = pos.entry
      /\ p.exitQty = pos.exitQty + take /\ p.exitValue = pos.exitValue + take * f.price
      /\ p.exits = pos.exits \cup {f.order}
  BY <1>1, <1>3, <1>4, ReduceIs
<1>6. a.exits = c.exits \cup {f.order}
  BY <1>1, TripIs DEF AddExit, TripRow
<1>7. a.exitQty > 0
  BY <1>1, <1>3, TripIs
<1>8. a.exits \subseteq DOMAIN more /\ n + 1 \in a.exits /\ c.exits \subseteq a.exits
  BY <1>1, <1>2, <1>6, GrownIndices
<1>9. p.qty = OpenQty(a)
  BY <1>2, <1>3, <1>5
<1>10. QED
  BY <1>2, <1>3, <1>5, <1>6, <1>7, <1>8, <1>9

LEMMA ReduceKept ==
  ASSUME NEW pos, NEW c, NEW fills, NEW f, NEW more, NEW n, NEW take, NEW p, NEW a,
         Takes(pos, c, fills, f, more, n, take, p, a), a \in OpenT
  PROVE  Kept(p, a, more)
<1>1. SameTrip(p, a)
  BY TakesIs DEF SameTrip
<1>2. a.exits \subseteq DOMAIN more /\ a.exits # {}
  BY TakesIs
<1>3. Reloaded(a, more) \/ p.avg = Ratio(a.entryValue, a.entryQty)
  <2>1. Reloaded(c, fills) => Reloaded(a, more)
    BY TakesIs, ReloadStays DEF Takes
  <2>2. QED
    BY <2>1, TakesIs
<1>4. QED
  BY <1>1, <1>2, <1>3 DEF Kept

LEMMA CloseAgrees ==
  ASSUME NEW pos, NEW c, NEW fills, NEW f, NEW more, NEW n, NEW take, NEW p, NEW a,
         Takes(pos, c, fills, f, more, n, take, p, a), a.exitQty = a.entryQty
  PROVE  TradeRow(p) \in TradeT /\ Agree(more, TradeRow(p), Finish(a))
<1>1. /\ p \in PosRow /\ a \in TripRow /\ p.side = a.side /\ a.side = c.side /\ p.entry = a.entry /\ a.leg = 0
      /\ p.exitQty = a.exitQty /\ a.exitQty > 0 /\ p.exitValue = a.exitValue
      /\ p.exits = a.exits /\ a.exits \subseteq DOMAIN more /\ n + 1 \in a.exits
      /\ c.exits \subseteq a.exits /\ c.exits \subseteq DOMAIN fills
      /\ a.entryQty = c.entryQty /\ a.entryValue = c.entryValue /\ p.avg = pos.avg
      /\ Reloaded(c, fills) \/ p.avg = Ratio(a.entryValue, a.entryQty)
  BY TakesIs
<1>2. PICK q \in Nat : q = a.exitQty /\ q = a.entryQty /\ q > 0
  BY <1>1, RowIs
<1>3. PICK w \in Int : w = a.exitValue
  BY <1>1, RowIs
<1>4. PICK v \in Int : v = a.entryValue
  BY <1>1, RowIs
<1>5. PICK x \in Int, d \in Nat : x = p.avg.num /\ d = p.avg.den /\ d > 0
  BY <1>1, PosIs DEF Fractions
<1>6. PICK z \in Int : z = Sign(p.side) * (w * d - x * q) /\ z = Sign(a.side) * (w * d - x * q)
  BY <1>1, <1>2, <1>3, <1>5 DEF Sign
<1>7. TradeRow(p) = [id |-> <<p.entry, 0>>, side |-> p.side, qty |-> q,
                     entryAvg |-> p.avg, exitAvg |-> Ratio(w, q), pnl |-> Ratio(z, d),
                     exits |-> p.exits, fills |-> p.fills]
  BY <1>1, <1>2, <1>3, <1>5, <1>6 DEF TradeRow
<1>8. TradeRow(p) \in TradeT
  <2>1. Ratio(w, q) \in Fractions /\ Ratio(z, d) \in Fractions
    BY <1>2, <1>5, RatioIn
  <2>2. /\ p.side \in {"long", "short"} /\ p.avg \in Fractions /\ p.entry \in Orders
        /\ p.exits \in SUBSET Orders /\ p.fills \in Int
    BY <1>1, PosIs
  <2>3. QED
    BY <1>2, <1>7, <2>1, <2>2 DEF TradeT
<1>9. Boundary(TradeRow(p)) = Boundary(Finish(a))
  <2>1. /\ Finish(a).id = <<a.entry, a.leg>> /\ Finish(a).side = a.side /\ Finish(a).qty = q
        /\ Finish(a).exitAvg = Ratio(w, q) /\ Finish(a).exits = a.exits
    BY <1>2, <1>3 DEF Finish
  <2>2. QED
    BY <1>1, <1>7, <2>1 DEF Boundary
<1>10. TradeRow(p).exits = a.exits /\ TradeRow(p).side = a.side
  BY <1>1, <1>7
<1>11. CASE Reloaded(c, fills)
  <2>1. PICK first \in c.exits : \E i \in DOMAIN fills : i >= first /\ Opens(fills[i]) = c.side
    BY <1>11 DEF Reloaded
  <2>2. PICK i \in DOMAIN fills : i >= first /\ Opens(fills[i]) = c.side
    BY <2>1
  <2>3. Grows(more, fills, f, n)
    BY DEF Takes
  <2>4. PICK last \in a.exits : last = n + 1
    BY <1>1
  <2>5. i \in first..last /\ more[i] = fills[i] /\ first \in a.exits
    BY <1>1, <2>1, <2>2, <2>3, <2>4 DEF Grows
  <2>6. ReloadedTrip(more, TradeRow(p))
    BY <1>1, <1>10, <2>2, <2>4, <2>5 DEF ReloadedTrip
  <2>7. QED
    BY <1>1, <1>8, <1>9, <1>10, <2>6 DEF Agree
<1>12. CASE p.avg = Ratio(a.entryValue, a.entryQty)
  <2>1. x * q = v * d
    <3>1. PICK y \in Int, k \in Nat : Ratio(v, q) = [num |-> y, den |-> k] /\ k > 0 /\ y * q = v * k
      BY <1>2, RatioEquals
    <3>2. x = y /\ d = k
      BY <1>2, <1>4, <1>5, <1>12, <3>1
    <3>3. QED
      BY <3>1, <3>2
  <2>2. PICK s \in {-1, 1} : s = Sign(a.side)
    BY DEF Sign
  <2>3. z = (s * (w - v)) * d
    <3>1. w * d - v * d = (w - v) * d
      BY Regroup
    <3>2. s * ((w - v) * d) = (s * (w - v)) * d
      BY <2>2, Regroup
    <3>3. QED
      BY <1>6, <2>1, <2>2, <3>1, <3>2
  <2>4. PICK k \in Int : k = s * (w - v)
    BY <2>2
  <2>5. Ratio(z, d) = [num |-> k, den |-> 1]
    BY <1>5, <2>3, <2>4, RatioOfMultiple
  <2>6. Finish(a).pnl = [num |-> k, den |-> 1]
    BY <1>1, <1>2, <1>3, <1>4, <2>2, <2>4, FinishedIs
  <2>7. Finish(a).entryAvg = p.avg
    BY <1>12 DEF Finish
  <2>8. TradeRow(p).pnl = Finish(a).pnl /\ TradeRow(p).entryAvg = Finish(a).entryAvg
    BY <1>7, <2>5, <2>6, <2>7
  <2>9. QED
    BY <1>1, <1>8, <1>9, <1>10, <2>8 DEF Agree
<1>13. QED
  BY <1>1, <1>11, <1>12

\* A trade that agrees with its trip still does when the log grows.
LEMMA AgreeStays ==
  ASSUME NEW more, NEW fills, NEW f, NEW n, Grows(more, fills, f, n), NEW row, NEW t, Agree(fills, row, t)
  PROVE  Agree(more, row, t)
<1>1. row.exits \subseteq DOMAIN more
  BY GrownIndices DEF Agree
<1>2. ASSUME ReloadedTrip(fills, row)
      PROVE  ReloadedTrip(more, row)
  <2>1. PICK first \in row.exits, last \in row.exits : \E i \in first..last : Opens(fills[i]) = row.side
    BY <1>2 DEF ReloadedTrip
  <2>2. PICK i \in first..last : Opens(fills[i]) = row.side
    BY <2>1
  <2>3. first \in 1..n /\ last \in 1..n
    BY DEF Agree, Grows
  <2>4. i \in 1..n
    BY <2>2, <2>3 DEF Grows
  <2>5. more[i] = fills[i]
    BY <2>4 DEF Grows
  <2>6. QED
    BY <2>1, <2>2, <2>5 DEF ReloadedTrip
<1>3. QED
  BY <1>1, <1>2 DEF Agree

\* The rows written are the trips closed.
RowsAgree(fills, rows, closed) ==
  /\ rows \in Seq(TradeT) /\ closed \in Seq(ClosedT) /\ Len(rows) = Len(closed)
  /\ \A i \in 1..Len(rows) : Agree(fills, rows[i], closed[i])

\* No order that has not filled yet has opened a trip.
LegsUnused(fills, legs) == \A o \in Orders : o \notin DOMAIN fills => legs[o] = 0

LEMMA RowsStay ==
  ASSUME NEW more, NEW fills, NEW f, NEW n, Grows(more, fills, f, n), NEW rows, NEW closed,
         RowsAgree(fills, rows, closed)
  PROVE  RowsAgree(more, rows, closed)
BY AgreeStays DEF RowsAgree

LEMMA RowsAppend ==
  ASSUME NEW more, NEW rows, NEW closed, RowsAgree(more, rows, closed),
         NEW row \in TradeT, NEW t \in ClosedT, Agree(more, row, t)
  PROVE  RowsAgree(more, Append(rows, row), Append(closed, t))
<1>1. rows \in Seq(TradeT) /\ closed \in Seq(ClosedT)
  BY DEF RowsAgree
<1>2. PICK n \in Nat : n = Len(rows) /\ n = Len(closed)
  BY <1>1, Indices DEF RowsAgree
<1>3. PICK r : r = Append(rows, row)
  OBVIOUS
<1>4. PICK c : c = Append(closed, t)
  OBVIOUS
<1>5. /\ r \in Seq(TradeT) /\ Len(r) = n + 1 /\ r[n + 1] = row /\ \A i \in 1..n : r[i] = rows[i]
  <2>1. PICK rs \in Seq(TradeT) : rs = rows /\ n = Len(rs) /\ r = Append(rs, row)
    BY <1>1, <1>2, <1>3
  <2>2. r \in Seq(TradeT) /\ Len(r) = n + 1 /\ r[n + 1] = row /\ \A i \in 1..n : r[i] = rs[i]
    BY <2>1, AppendIs
  <2>3. QED
    BY <2>1, <2>2
<1>6. /\ c \in Seq(ClosedT) /\ Len(c) = n + 1 /\ c[n + 1] = t /\ \A i \in 1..n : c[i] = closed[i]
  BY <1>1, <1>2, <1>4, AppendIs
<1>7. \A i \in 1..n : Agree(more, rows[i], closed[i])
  BY <1>2 DEF RowsAgree
<1>8. \A i \in 1..(n + 1) : i = n + 1 \/ i \in 1..n
  OBVIOUS
<1>9. \A i \in 1..(n + 1) : Agree(more, r[i], c[i])
  BY <1>5, <1>6, <1>7, <1>8
<1>10. RowsAgree(more, r, c)
  BY <1>5, <1>6, <1>9 DEF RowsAgree
<1>11. QED
  BY <1>3, <1>4, <1>10

LEMMA LegsStayUnused ==
  ASSUME NEW more, NEW fills, NEW f \in Fill, NEW n, Grows(more, fills, f, n), f.order = n + 1,
         NEW legs \in [Orders -> Nat], LegsUnused(fills, legs)
  PROVE  /\ legs[f.order] = 0
         /\ LegsUnused(more, legs)
         /\ LegsUnused(more, [legs EXCEPT ![f.order] = @ + 1])
<1>1. f.order \in Orders /\ f.order \in DOMAIN more /\ f.order \notin DOMAIN fills
      /\ DOMAIN fills \subseteq DOMAIN more
  BY FillIs DEF Grows
<1>2. QED
  BY <1>1 DEF LegsUnused

\* What one fill does to the position row.
LEMMA SimOpens ==
  ASSUME NEW f
  PROVE  SimFill(Flat, f)[1] = OpenFresh(f, f.qty) /\ SimFill(Flat, f)[2] = <<>>
BY DEF SimFill

LEMMA SimAdds ==
  ASSUME NEW pos, pos # Flat, NEW f, Opens(f) = pos.side
  PROVE  SimFill(pos, f)[1] = AddTo(pos, f) /\ SimFill(pos, f)[2] = <<>>
BY DEF SimFill

LEMMA SimTakes ==
  ASSUME NEW pos \in PosRow, NEW f \in Fill, Opens(f) # pos.side,
         NEW take, take = Least(f.qty, pos.qty), NEW p, p = Reduce(pos, f, take)
  PROVE  /\ p.qty > 0 => SimFill(pos, f)[1] = p /\ SimFill(pos, f)[2] = <<>>
         /\ ~(p.qty > 0) => /\ SimFill(pos, f)[1] = IF f.qty - take > 0 THEN OpenFresh(f, f.qty - take) ELSE Flat
                            /\ SimFill(pos, f)[2] = <<TradeRow(p)>>
<1>1. pos # Flat
  BY PosIs DEF Flat
<1>2. SimFill(pos, f) = IF p.qty > 0 THEN <<p, <<>> >>
                        ELSE <<IF f.qty - take > 0 THEN OpenFresh(f, f.qty - take) ELSE Flat, <<TradeRow(p)>> >>
  BY <1>1 DEF SimFill
<1>3. QED
  BY <1>2

\* The position row and the trades written, beside the walk of the same fills.
CutAt(fills, s, pos, rows) ==
  /\ s \in WalkT
  /\ LegsUnused(fills, s.legs)
  /\ Kept(pos, s.current, fills)
  /\ RowsAgree(fills, rows, s.closed)

LEMMA FlatKept ==
  ASSUME NEW fills
  PROVE  Kept(Flat, Flat, fills)
BY DEF Kept, SameTrip

LEMMA FillCuts ==
  ASSUME NEW fills, NEW s, NEW pos, NEW rows, CutAt(fills, s, pos, rows),
         NEW f \in Fill, NEW more, NEW n, Grows(more, fills, f, n), f.order = n + 1
  PROVE  CutAt(more, WalkFill(s, f), SimFill(pos, f)[1], rows \o SimFill(pos, f)[2])
<1>1. /\ s \in WalkT /\ LegsUnused(fills, s.legs) /\ Kept(pos, s.current, fills)
      /\ RowsAgree(fills, rows, s.closed)
  BY DEF CutAt
<1>2. /\ s.current \in OpenT \/ s.current = Flat
      /\ s.closed \in Seq(ClosedT) /\ s.legs \in [Orders -> Nat]
  BY <1>1, WalkIs
<1>3. /\ s.legs[f.order] = 0 /\ LegsUnused(more, s.legs)
      /\ LegsUnused(more, [s.legs EXCEPT ![f.order] = @ + 1])
  <2>1. PICK legs \in [Orders -> Nat] : legs = s.legs /\ LegsUnused(fills, legs)
    BY <1>1, <1>2
  <2>2. /\ legs[f.order] = 0 /\ LegsUnused(more, legs)
        /\ LegsUnused(more, [legs EXCEPT ![f.order] = @ + 1])
    BY <2>1, LegsStayUnused
  <2>3. QED
    BY <2>1, <2>2
<1>4. RowsAgree(more, rows, s.closed) /\ rows \in Seq(TradeT)
  BY <1>1, RowsStay DEF RowsAgree
<1>5. rows \o <<>> = rows
  BY <1>4, ConcatEmptySeq
<1>6. PICK w : w = WalkFill(s, f)
  OBVIOUS
<1>7. w \in WalkT
  BY <1>1, <1>6, FillCarries DEF Carries
<1>8. /\ f.qty \in Nat /\ f.qty > 0
  BY FillIs
<1>9. CASE s.current = Flat
  <2>1. pos = Flat
    BY <1>1, <1>9, TripIs DEF Kept, SameTrip
  <2>2. w = [current |-> OpenTrip(f, f.qty, 0), closed |-> s.closed,
             legs |-> [s.legs EXCEPT ![f.order] = @ + 1]]
    BY <1>1, <1>3, <1>6, <1>9, WalkOpens
  <2>3. Kept(OpenFresh(f, f.qty), OpenTrip(f, f.qty, 0), more)
    BY <1>8, FreshKept
  <2>4. SimFill(pos, f)[1] = OpenFresh(f, f.qty) /\ rows \o SimFill(pos, f)[2] = rows
    BY <1>5, <2>1, SimOpens
  <2>5. w.current = OpenTrip(f, f.qty, 0) /\ w.closed = s.closed
        /\ w.legs = [s.legs EXCEPT ![f.order] = @ + 1]
    BY <2>2
  <2>6. QED
    BY <1>3, <1>4, <1>6, <1>7, <2>3, <2>4, <2>5 DEF CutAt
<1>10. CASE s.current \in OpenT
  <2> DEFINE c == s.current
  <2>1. /\ pos \in PosRow /\ pos # Flat /\ pos.side = c.side /\ pos.qty = OpenQty(c)
    BY <1>1, <1>10, KeptOpen
  <2>2. CASE Opens(f) = c.side
    <3>1. w = [current |-> AddEntry(c, f), closed |-> s.closed, legs |-> s.legs]
      BY <1>1, <1>6, <1>10, <2>2, WalkAdds
    <3>2. Kept(AddTo(pos, f), AddEntry(c, f), more)
      BY <1>1, <1>10, <2>2, AddKept
    <3>3. SimFill(pos, f)[1] = AddTo(pos, f) /\ rows \o SimFill(pos, f)[2] = rows
      BY <1>5, <2>1, <2>2, SimAdds
    <3>4. w.current = AddEntry(c, f) /\ w.closed = s.closed /\ w.legs = s.legs
      BY <3>1
    <3>5. QED
      BY <1>3, <1>4, <1>6, <1>7, <3>2, <3>3, <3>4 DEF CutAt
  <2>3. CASE Opens(f) # c.side
    <3>1. PICK take : take = Least(f.qty, OpenQty(c))
      OBVIOUS
    <3>2. PICK p : p = Reduce(pos, f, take)
      OBVIOUS
    <3>3. PICK a : a = AddExit(c, f, take)
      OBVIOUS
    <3>4. Takes(pos, c, fills, f, more, n, take, p, a)
      BY <1>1, <1>10, <2>1, <3>1, <3>2, <3>3 DEF Takes
    <3>5. a \in TripRow /\ p.qty = OpenQty(a) /\ OpenQty(a) \in Int /\ a.exitQty > 0
      BY <3>4, TakesIs, PosIs
    <3>6. /\ take \in Nat
          /\ OpenQty(a) > 0 => a \in OpenT
          /\ OpenQty(a) <= 0 => a.exitQty = a.entryQty
      BY <1>10, <3>1, <3>3, ExitedIs
    <3>7. /\ OpenQty(a) > 0 => w = [current |-> a, closed |-> s.closed, legs |-> s.legs]
          /\ OpenQty(a) <= 0 /\ f.qty - take <= 0 =>
               w = [current |-> Flat, closed |-> Append(s.closed, Finish(a)), legs |-> s.legs]
          /\ OpenQty(a) <= 0 /\ f.qty - take > 0 =>
               w = [current |-> OpenTrip(f, f.qty - take, 0), closed |-> Append(s.closed, Finish(a)),
                    legs |-> [s.legs EXCEPT ![f.order] = @ + 1]]
      BY <1>1, <1>3, <1>6, <1>10, <2>3, <3>1, <3>3, WalkTakes
    <3>8. /\ p.qty > 0 => SimFill(pos, f)[1] = p /\ SimFill(pos, f)[2] = <<>>
          /\ ~(p.qty > 0) => /\ SimFill(pos, f)[1] = IF f.qty - take > 0 THEN OpenFresh(f, f.qty - take) ELSE Flat
                             /\ SimFill(pos, f)[2] = <<TradeRow(p)>>
      BY <2>1, <2>3, <3>1, <3>2, SimTakes
    <3> HIDE DEF c
    <3>9. CASE OpenQty(a) > 0
      <4>1. w.current = a /\ w.closed = s.closed /\ w.legs = s.legs
        BY <3>7, <3>9
      <4>2. Kept(p, a, more)
        BY <3>4, <3>6, <3>9, ReduceKept
      <4>3. SimFill(pos, f)[1] = p /\ rows \o SimFill(pos, f)[2] = rows
        BY <1>5, <3>5, <3>8, <3>9
      <4>4. QED
        BY <1>3, <1>4, <1>6, <1>7, <4>1, <4>2, <4>3 DEF CutAt
    <3>10. CASE OpenQty(a) <= 0
      <4>1. PICK row \in TradeT : row = TradeRow(p) /\ Agree(more, row, Finish(a))
        BY <3>4, <3>6, <3>10, CloseAgrees
      <4>2. PICK t \in ClosedT : t = Finish(a)
        BY <3>5, <3>6, <3>10, FinishedIs
      <4>3. RowsAgree(more, Append(rows, row), Append(s.closed, t))
        BY <1>4, <4>1, <4>2, RowsAppend
      <4>4. rows \o SimFill(pos, f)[2] = Append(rows, row)
        <5>1. SimFill(pos, f)[2] = <<row>>
          BY <3>5, <3>8, <3>10, <4>1
        <5>2. Append(rows, row) = rows \o <<row>>
          BY <1>4, <4>1, AppendIsConcat
        <5>3. QED
          BY <5>1, <5>2
      <4>5. CASE f.qty - take > 0
        <5>1. w.current = OpenTrip(f, f.qty - take, 0) /\ w.closed = Append(s.closed, t)
              /\ w.legs = [s.legs EXCEPT ![f.order] = @ + 1]
          BY <3>7, <3>10, <4>2, <4>5
        <5>2. SimFill(pos, f)[1] = OpenFresh(f, f.qty - take)
          BY <3>5, <3>8, <3>10, <4>5
        <5>3. PICK q \in Nat : q = f.qty - take /\ q > 0
          BY <1>8, <3>6, <4>5
        <5>4. Kept(OpenFresh(f, q), OpenTrip(f, q, 0), more)
          BY <5>3, FreshKept
        <5>5. QED
          BY <1>3, <1>6, <1>7, <4>3, <4>4, <5>1, <5>2, <5>3, <5>4 DEF CutAt
      <4>6. CASE f.qty - take <= 0
        <5>1. w.current = Flat /\ w.closed = Append(s.closed, t) /\ w.legs = s.legs
          BY <3>7, <3>10, <4>2, <4>6
        <5>2. SimFill(pos, f)[1] = Flat
          BY <1>8, <3>5, <3>6, <3>8, <3>10, <4>6
        <5>3. QED
          BY <1>3, <1>6, <1>7, <4>3, <4>4, <5>1, <5>2, FlatKept DEF CutAt
      <4>7. QED
        BY <1>8, <3>6, <4>5, <4>6
    <3>11. QED
      BY <3>5, <3>9, <3>10
  <2>4. QED
    BY <2>2, <2>3
<1>11. QED
  BY <1>2, <1>9, <1>10

\* The fills of a log where every order fills once are its orders, in order.
InOrder(fills) == \A i \in DOMAIN fills : fills[i].order = i

SimCut ==
  /\ TripsAccounted(log)
  /\ FilledInFull => InOrder(log) /\ CutAt(log, Walked(log), position, trades)

LEMMA SimCutAtFirst == TripsInit => SimCut
<1>1. SUFFICES ASSUME TripsInit
               PROVE  SimCut
  OBVIOUS
<1>2. log = <<>> /\ position = Flat /\ trades = <<>>
  BY <1>1 DEF TripsInit
<1>3. <<>> \in Seq(Fill) /\ <<>> \in Seq(ClosedT) /\ <<>> \in Seq(TradeT)
  BY EmptySeq
<1>4. TripsAccounted(log)
  BY <1>2, AccountedAtFirst
<1>5. Walked(<<>>) = WalkStart
  BY <1>3, WalkIsFold, FoldByNothing
<1>6. DOMAIN <<>> = {} /\ Len(<<>>) = 0
  OBVIOUS
<1>7. InOrder(<<>>)
  BY <1>6 DEF InOrder
<1>8. RowsAgree(<<>>, <<>>, <<>>)
  BY <1>3, <1>6 DEF RowsAgree
<1>9. LegsUnused(<<>>, WalkStart.legs)
  BY DEF LegsUnused, WalkStart
<1>10. CutAt(<<>>, WalkStart, Flat, <<>>)
  BY <1>8, <1>9, WalkStays, FlatKept DEF CutAt, WalkStart
<1>11. QED
  BY <1>2, <1>4, <1>5, <1>7, <1>10 DEF SimCut

LEMMA SimCutKept == SimCut /\ [TripsNext]_tripVars => SimCut'
<1>1. SUFFICES ASSUME SimCut, [TripsNext]_tripVars
               PROVE  SimCut'
  OBVIOUS
<1>2. CASE UNCHANGED tripVars
  BY <1>1, <1>2 DEF tripVars, SimCut, FilledInFull
<1>3. CASE TripsNext
  <2>1. PICK f \in Fill : FillOrder(f)
    BY <1>3 DEF TripsNext
  <2>2. /\ f.order <= 1 + Cardinality({log[i].order : i \in DOMAIN log})
        /\ log' = Append(log, f)
        /\ position' = SimFill(position, f)[1]
        /\ trades' = trades \o SimFill(position, f)[2]
    BY <2>1 DEF FillOrder
  <2>3. TripsAccounted(log) /\ log \in Seq(Fill)
    BY <1>1 DEF SimCut, TripsAccounted
  <2>4. TripsAccounted(log')
    BY <2>2, <2>3, AccountedWithMore
  <2>5. PICK more : more = log'
    OBVIOUS
  <2>6. PICK n \in Nat : n = Len(log)
    BY <2>3, Indices
  <2>7. /\ more \in Seq(Fill) /\ Len(more) = n + 1 /\ more[n + 1] = f
        /\ \A i \in 1..n : more[i] = log[i]
    BY <2>2, <2>3, <2>5, <2>6, AppendProperties
  <2>8. DOMAIN log = 1..n /\ DOMAIN more = 1..(n + 1)
    BY <2>3, <2>6, <2>7, Indices
  <2>9. Grows(more, log, f, n)
    BY <2>7, <2>8 DEF Grows
  <2>10. ASSUME FilledInFull'
         PROVE  InOrder(log') /\ CutAt(log', Walked(log'), position', trades')
    <3>1. \A i, j \in DOMAIN more : more[i].order = more[j].order => i = j
      BY <2>5, <2>10 DEF FilledInFull
    <3>2. FilledInFull
      BY <2>7, <2>8, <3>1 DEF FilledInFull
    <3>3. InOrder(log) /\ CutAt(log, Walked(log), position, trades)
      BY <1>1, <3>2 DEF SimCut
    <3>4. {log[i].order : i \in DOMAIN log} = 1..n
      BY <2>8, <3>3 DEF InOrder
    <3>5. f.order <= n + 1 /\ f.order \in Nat /\ f.order >= 1
      <4>1. Cardinality(1..n) = n
        BY FS_Interval
      <4>2. f.order \in Orders
        BY FillIs
      <4>3. QED
        <5>1. Cardinality({log[i].order : i \in DOMAIN log}) = n
          BY <3>4, <4>1
        <5>2. f.order <= 1 + n
          BY <2>2, <5>1
        <5>3. QED
          BY <4>2, <5>2, PairingAssumption DEF Orders
    <3>6. f.order \notin 1..n
      <4>1. SUFFICES ASSUME f.order \in 1..n
                     PROVE  FALSE
        OBVIOUS
      <4>2. PICK i \in 1..n : i = f.order
        BY <4>1
      <4>3. more[i].order = i /\ more[n + 1].order = i
        BY <2>7, <2>8, <3>3, <4>2 DEF InOrder
      <4>4. i = n + 1
        BY <2>8, <3>1, <4>3
      <4>5. QED
        BY <4>4
    <3>7. f.order = n + 1
      BY <3>5, <3>6
    <3>8. InOrder(more)
      BY <2>7, <2>8, <3>3, <3>7 DEF InOrder
    <3>9. PICK s : s = Walked(log)
      OBVIOUS
    <3>10. CutAt(log, s, position, trades) /\ s \in WalkT
      BY <3>3, <3>9 DEF CutAt
    <3>11. Walked(Append(log, f)) = WalkFill(s, f)
      BY <2>3, <3>9, <3>10, WalkedMore
    <3>12. CutAt(more, WalkFill(s, f), SimFill(position, f)[1], trades \o SimFill(position, f)[2])
      BY <2>9, <3>7, <3>10, FillCuts
    <3>13. QED
      BY <2>2, <2>5, <3>8, <3>11, <3>12
  <2>11. QED
    BY <2>4, <2>10 DEF SimCut
<1>4. QED
  BY <1>1, <1>2, <1>3

LEMMA SimCutIsEnough == SimCut => SimCutsTheSameTrips
<1>1. SUFFICES ASSUME SimCut, FilledInFull
               PROVE  LET trips == TripsOf(log)
                      IN  /\ Boundaries(trades) = Boundaries(trips)
                          /\ NetShares = IF position = Flat THEN 0 ELSE Sign(position.side) * position.qty
                          /\ \A i \in DOMAIN trades :
                               ~Reloads(trades[i]) => /\ trades[i].pnl = trips[i].pnl
                                                      /\ trades[i].entryAvg = trips[i].entryAvg
  BY DEF SimCutsTheSameTrips
<1>2. PICK s : s = Walked(log)
  OBVIOUS
<1>3. /\ s \in WalkT /\ Kept(position, s.current, log) /\ RowsAgree(log, trades, s.closed)
  BY <1>1, <1>2 DEF SimCut, CutAt
<1>4. NetShares = Held(s.current)
  BY <1>1, <1>2 DEF SimCut, TripsAccounted, NetShares
<1>5. PICK ts : ts = TripsOf(log)
  OBVIOUS
<1>6. ts = s.closed
  BY <1>2, <1>5 DEF TripsOf
<1>7. PICK n \in Nat : /\ DOMAIN trades = 1..n /\ DOMAIN ts = 1..n
                       /\ \A i \in 1..n : Agree(log, trades[i], ts[i])
  BY <1>3, <1>6, Indices DEF RowsAgree
<1>8. Boundaries(trades) = Boundaries(ts)
  BY <1>7 DEF Boundaries, Agree
<1>9. \A i \in DOMAIN trades : Reloads(trades[i]) \/ (trades[i].pnl = ts[i].pnl /\ trades[i].entryAvg = ts[i].entryAvg)
  BY <1>7 DEF Agree, Reloads, ReloadedTrip
<1>10. NetShares = IF position = Flat THEN 0 ELSE Sign(position.side) * position.qty
  <2>1. CASE s.current = Flat
    <3>1. position = Flat
      BY <1>3, <2>1, TripIs DEF Kept, SameTrip
    <3>2. QED
      BY <1>4, <2>1, <3>1 DEF Held
  <2>2. CASE s.current \in OpenT
    <3>1. position # Flat /\ position.side = s.current.side /\ position.qty = OpenQty(s.current)
      BY <1>3, <2>2, KeptOpen
    <3>2. QED
      BY <1>4, <2>2, <3>1, HeldIs
  <2>3. QED
    BY <1>3, <2>1, <2>2, WalkIs
<1>11. QED
  BY <1>5, <1>8, <1>9, <1>10

\* For any fills whose orders each fill once, in full: the simulator, which takes
\* fills one by one, writes the trips the walk finds in them, with the same
\* openers, sides, sizes and exits, and with the same average and profit where a
\* trip was not reloaded.
THEOREM SimCutsRoundTrips == TripsSpec => []SimCutsTheSameTrips
<1>1. QED
  BY SimCutAtFirst, SimCutKept, SimCutIsEnough, PTL DEF TripsSpec

-----------------------------------------------------------------------------
(* The walk, for fills that need not be of orders.                         *)

\* A filled order, or what an activity stands for.
JFill == [order : Nat, side : {"buy", "sell"}, qty : Nat \ {0}, price : Nat, booked : BOOLEAN]

\* The orders the fills are of.
OrdersOf(fills) == {fills[i].order : i \in DOMAIN fills} \ {ActivityId}

\* f takes off what is open after the fills, or a part of it.
Flattens(fills, f) ==
  /\ NetOf(fills) # 0
  /\ f.side = Flattening(NetOf(fills)) /\ f.qty <= SizeOf(NetOf(fills))

\* f may follow the fills: only an order opens a trip.
Follows(fills, f) == f.order \in Orders \/ (f.order = ActivityId /\ Flattens(fills, f))

\* What is open is the net of the fills, and orders open the trips.
Opened(c, fills) ==
  /\ c.side \in {"long", "short"} /\ OpenQty(c) \in Nat \ {0}
  /\ NetOf(fills) = Sign(c.side) * OpenQty(c)
  /\ c.entry \in OrdersOf(fills)

\* The walk is told: the trip that is open is what is held, and every trip is of an
\* order of the fills.
Walks(fills) ==
  /\ fills \in Seq(JFill)
  /\ IF Walked(fills).current = Flat THEN NetOf(fills) = 0 ELSE Opened(Walked(fills).current, fills)
  /\ \A i \in DOMAIN TripsOf(fills) : TripsOf(fills)[i].id[1] \in OrdersOf(fills)

\* The first n of the fills.
FirstOf(fills, n) == SubSeq(fills, 1, n)

\* Types wide enough for the walk of any fills.
Legs == {legs[o] : legs \in [Orders -> Nat], o \in Nat}
Ratios == {Ratio(n, d) : n \in Int, d \in Int}
TripAny == [side : {"long", "short"}, entry : Nat, leg : Legs, entryQty : Int, entryValue : Int,
          exitQty : Int, exitValue : Int, exits : SUBSET Nat, fills : Int]
ClosedAny == [id : Nat \X Legs, side : {"long", "short"}, qty : Int, entryAvg : Ratios,
            exitAvg : Ratios, pnl : Ratios, exits : SUBSET Nat, fills : Int]
WalkAny == [current : TripAny \cup {Flat}, closed : Seq(ClosedAny), legs : [Orders -> Nat]]

AnyWalkBy == [p \in WalkAny \X JFill |-> WalkFill(p[1], p[2])]
SignOf(f) == IF f.side = "buy" THEN f.qty ELSE -f.qty
NetBy == [p \in Amounts \X JFill |-> p[1] + SignOf(p[2])]

LEMMA JFillIs ==
  ASSUME NEW f \in JFill
  PROVE  /\ f.order \in Nat /\ f.side \in {"buy", "sell"} /\ f.qty \in Nat /\ f.qty > 0 /\ f.price \in Nat
         /\ f.booked \in BOOLEAN /\ Opens(f) \in {"long", "short"} /\ f.qty * f.price \in Int
<1>1. f.order \in Nat /\ f.side \in {"buy", "sell"} /\ f.qty \in Nat /\ f.qty > 0 /\ f.price \in Nat
      /\ f.booked \in BOOLEAN
  BY DEF JFill
<1>2. f.qty * f.price \in Int
  BY <1>1
<1>3. QED
  BY <1>1, <1>2 DEF Opens

LEMMA TripAnyIs ==
  ASSUME NEW t \in TripAny
  PROVE  /\ t.side \in {"long", "short"} /\ t.entry \in Nat /\ t.leg \in Legs
         /\ t.entryQty \in Int /\ t.entryValue \in Int /\ t.exitQty \in Int /\ t.exitValue \in Int
         /\ t.exits \in SUBSET Nat /\ t.fills \in Int /\ OpenQty(t) \in Int /\ t # Flat
<1>1. /\ t.side \in {"long", "short"} /\ t.entry \in Nat /\ t.leg \in Legs
      /\ t.entryQty \in Int /\ t.entryValue \in Int /\ t.exitQty \in Int /\ t.exitValue \in Int
      /\ t.exits \in SUBSET Nat /\ t.fills \in Int
  BY DEF TripAny
<1>2. Flat.side = "flat"
  BY DEF Flat
<1>3. QED
  BY <1>1, <1>2 DEF OpenQty

LEMMA OpenTripIs ==
  ASSUME NEW f \in JFill, NEW qty \in Int, NEW leg \in Legs
  PROVE  LET t == OpenTrip(f, qty, leg)
         IN  /\ t \in TripAny /\ t.side = Opens(f) /\ t.entry = f.order /\ OpenQty(t) = qty
<1>1. PICK p \in Nat : p = f.price
  BY JFillIs
<1>2. PICK v \in Int : v = qty * p
  OBVIOUS
<1>3. OpenTrip(f, qty, leg) = [side |-> Opens(f), entry |-> f.order, leg |-> leg, entryQty |-> qty,
        entryValue |-> v, exitQty |-> 0, exitValue |-> 0, exits |-> {}, fills |-> 1]
  BY <1>1, <1>2 DEF OpenTrip
<1>4. QED
  BY <1>3, JFillIs DEF TripAny, OpenQty

LEMMA AddEntryIs ==
  ASSUME NEW f \in JFill, NEW t \in TripAny
  PROVE  LET a == AddEntry(t, f)
         IN  /\ a \in TripAny /\ a.side = t.side /\ a.entry = t.entry /\ OpenQty(a) = OpenQty(t) + f.qty
<1>1. PICK v \in Int : v = f.qty * f.price
  BY JFillIs
<1>2. PICK q \in Nat : q = f.qty
  BY JFillIs
<1>3. PICK m \in Int : m = t.entryQty + q
  BY TripAnyIs
<1>4. PICK w \in Int : w = t.entryValue + v
  BY TripAnyIs
<1>5. PICK n \in Int : n = t.fills + 1
  BY TripAnyIs
<1>6. PICK a : a = AddEntry(t, f)
  OBVIOUS
<1>7. a = [t EXCEPT !.entryQty = m, !.entryValue = w, !.fills = n]
  BY <1>1, <1>2, <1>3, <1>4, <1>5, <1>6 DEF AddEntry
<1>8. a \in TripAny /\ a.side = t.side /\ a.entry = t.entry /\ a.entryQty = m /\ a.exitQty = t.exitQty
  BY <1>7 DEF TripAny
<1>9. OpenQty(a) = OpenQty(t) + q
  BY <1>3, <1>8, TripAnyIs DEF OpenQty
<1>10. QED
  BY <1>2, <1>6, <1>8, <1>9

LEMMA AddExitIs ==
  ASSUME NEW f \in JFill, NEW t \in TripAny, NEW take \in Int
  PROVE  LET a == AddExit(t, f, take)
         IN  /\ a \in TripAny /\ a.side = t.side /\ a.entry = t.entry /\ OpenQty(a) = OpenQty(t) - take
<1>0. PICK p \in Nat : p = f.price
  BY JFillIs
<1>1. PICK v \in Int : v = take * p
  OBVIOUS
<1>3. PICK m \in Int : m = t.exitQty + take
  BY TripAnyIs
<1>4. PICK w \in Int : w = t.exitValue + v
  BY TripAnyIs
<1>5. PICK n \in Int : n = t.fills + 1
  BY TripAnyIs
<1>2. PICK x \in SUBSET Nat : x = t.exits \cup {f.order}
  BY TripAnyIs, JFillIs
<1>6. PICK a : a = AddExit(t, f, take)
  OBVIOUS
<1>7. a = [t EXCEPT !.exitQty = m, !.exitValue = w, !.exits = x, !.fills = n]
  BY <1>0, <1>1, <1>2, <1>3, <1>4, <1>5, <1>6 DEF AddExit
<1>8. a \in TripAny /\ a.side = t.side /\ a.entry = t.entry /\ a.entryQty = t.entryQty /\ a.exitQty = m
  BY <1>7 DEF TripAny
<1>9. OpenQty(a) = OpenQty(t) - take
  BY <1>3, <1>8, TripAnyIs DEF OpenQty
<1>10. QED
  BY <1>6, <1>8, <1>9

LEMMA FinishIs ==
  ASSUME NEW t \in TripAny
  PROVE  Finish(t) \in ClosedAny /\ Finish(t).id = <<t.entry, t.leg>>
<1>1. Ratio(t.entryValue, t.entryQty) \in Ratios /\ Ratio(t.exitValue, t.exitQty) \in Ratios
  BY TripAnyIs DEF Ratios
<1>2. PICK k : k = Sign(t.side) * (t.exitValue * t.entryQty - t.entryValue * t.exitQty)
  OBVIOUS
<1>3. k \in Int
  <2>1. Sign(t.side) \in {-1, 1}
    BY DEF Sign
  <2>2. PICK x \in Int : x = t.exitValue * t.entryQty
    BY TripAnyIs
  <2>3. PICK y \in Int : y = t.entryValue * t.exitQty
    BY TripAnyIs
  <2>4. k = Sign(t.side) * (x - y)
    BY <1>2, <2>2, <2>3
  <2>5. QED
    BY ONLY <2>1, <2>2, <2>3, <2>4
<1>4. Ratio(k, t.exitQty) \in Ratios
  BY <1>3, TripAnyIs DEF Ratios
<1>5. Finish(t) = [id |-> <<t.entry, t.leg>>, side |-> t.side, qty |-> t.entryQty,
        entryAvg |-> Ratio(t.entryValue, t.entryQty), exitAvg |-> Ratio(t.exitValue, t.exitQty),
        pnl |-> Ratio(k, t.exitQty), exits |-> t.exits, fills |-> t.fills]
  BY <1>2 DEF Finish
<1>6. PICK e \in Ratios : e = Ratio(t.entryValue, t.entryQty)
  BY <1>1
<1>7. PICK x \in Ratios : x = Ratio(t.exitValue, t.exitQty)
  BY <1>1
<1>8. PICK p \in Ratios : p = Ratio(k, t.exitQty)
  BY <1>4
<1>9. Finish(t) = [id |-> <<t.entry, t.leg>>, side |-> t.side, qty |-> t.entryQty,
        entryAvg |-> e, exitAvg |-> x, pnl |-> p, exits |-> t.exits, fills |-> t.fills]
  BY <1>5, <1>6, <1>7, <1>8
<1>10. QED
  BY <1>9, TripAnyIs DEF ClosedAny

-----------------------------------------------------------------------------
(* One fill of the walk.                                                   *)

LEMMA WalkAnyIs ==
  ASSUME NEW s \in WalkAny
  PROVE  /\ s.current \in TripAny \/ s.current = Flat
         /\ s.closed \in Seq(ClosedAny) /\ s.legs \in [Orders -> Nat]
         /\ s = [current |-> s.current, closed |-> s.closed, legs |-> s.legs]
BY DEF WalkAny

LEMMA LegsIn ==
  ASSUME NEW legs \in [Orders -> Nat], NEW o \in Nat
  PROVE  legs[o] \in Legs /\ [legs EXCEPT ![o] = @ + 1] \in [Orders -> Nat]
<1>1. legs[o] \in Legs
  BY DEF Legs
<1>2. CASE o \in Orders
  <2>1. PICK n \in Nat : n = legs[o]
    BY <1>2
  <2>2. [legs EXCEPT ![o] = @ + 1] = [legs EXCEPT ![o] = n + 1] /\ n + 1 \in Nat
    BY <2>1
  <2>3. QED
    BY <1>1, <1>2, <2>2
<1>3. CASE o \notin Orders
  <2>1. [legs EXCEPT ![o] = @ + 1] = legs
    BY <1>3
  <2>2. QED
    BY <1>1, <2>1
<1>4. QED
  BY <1>2, <1>3

\* What is open after a fill of the trip's side, w, and after one of the other.
Continues(c, w, qty) == w \in TripAny /\ w.side = c.side /\ w.entry = c.entry /\ OpenQty(w) = qty
Starts(f, w, qty) == w \in TripAny /\ w.side = Opens(f) /\ w.entry = f.order /\ OpenQty(w) = qty

\* The four ways a fill is walked: it opens a trip, adds to it, takes from it, or
\* closes it and opens the other way.
LEMMA AnyWalkFromFlat ==
  ASSUME NEW s \in WalkAny, NEW f \in JFill, s.current = Flat
  PROVE  LET w == WalkFill(s, f)
         IN  w \in WalkAny /\ w.closed = s.closed /\ Starts(f, w.current, f.qty)
<1>1. PICK legs \in [Orders -> Nat] : legs = [s.legs EXCEPT ![f.order] = @ + 1]
  BY WalkAnyIs, JFillIs, LegsIn
<1>2. s.legs[f.order] \in Legs
  BY WalkAnyIs, JFillIs, LegsIn
<1>3. PICK t : t = OpenTrip(f, f.qty, s.legs[f.order])
  OBVIOUS
<1>4. f.qty \in Int
  BY JFillIs
<1>5. Starts(f, t, f.qty)
  BY <1>2, <1>3, <1>4, OpenTripIs DEF Starts
<1>6. WalkFill(s, f) = [s EXCEPT !.current = t, !.legs = legs]
  BY <1>1, <1>3 DEF WalkFill
<1>7. WalkFill(s, f) = [current |-> t, closed |-> s.closed, legs |-> legs]
  BY <1>6, WalkAnyIs
<1>8. t \in TripAny
  BY <1>5 DEF Starts
<1>9. QED
  BY <1>5, <1>7, <1>8, WalkAnyIs DEF WalkAny

LEMMA AnyWalkAdds ==
  ASSUME NEW s \in WalkAny, NEW f \in JFill, s.current # Flat, Opens(f) = s.current.side
  PROVE  LET w == WalkFill(s, f)
         IN  /\ w \in WalkAny /\ w.closed = s.closed
             /\ Continues(s.current, w.current, OpenQty(s.current) + f.qty)
<1>1. PICK t : t = AddEntry(s.current, f)
  OBVIOUS
<1>2. s.current \in TripAny
  BY WalkAnyIs
<1>3. Continues(s.current, t, OpenQty(s.current) + f.qty)
  BY <1>1, <1>2, AddEntryIs DEF Continues
<1>4. WalkFill(s, f) = [s EXCEPT !.current = t]
  BY <1>1 DEF WalkFill
<1>5. WalkFill(s, f) = [current |-> t, closed |-> s.closed, legs |-> s.legs]
  BY <1>4, WalkAnyIs
<1>6. t \in TripAny
  BY <1>3 DEF Continues
<1>7. QED
  BY <1>3, <1>5, <1>6, WalkAnyIs DEF WalkAny

LEMMA AnyWalkTakes ==
  ASSUME NEW s \in WalkAny, NEW f \in JFill, s.current # Flat, Opens(f) # s.current.side,
         NEW take, take = Least(f.qty, OpenQty(s.current))
  PROVE  LET w == WalkFill(s, f)
             rest == OpenQty(s.current) - take
         IN  /\ w \in WalkAny
             /\ rest > 0 => w.closed = s.closed /\ Continues(s.current, w.current, rest)
             /\ ~(rest > 0) => /\ \E t \in ClosedAny : t.id[1] = s.current.entry /\ w.closed = Append(s.closed, t)
                               /\ IF f.qty - take > 0 THEN Starts(f, w.current, f.qty - take)
                                  ELSE w.current = Flat
<1>1. PICK a : a = AddExit(s.current, f, take)
  OBVIOUS
<1>2. s.current \in TripAny /\ take \in Int /\ f.qty - take \in Int
  BY WalkAnyIs, TripAnyIs, JFillIs DEF Least
<1>3. a \in TripAny /\ a.side = s.current.side /\ a.entry = s.current.entry /\ OpenQty(a) = OpenQty(s.current) - take
  BY <1>1, <1>2, AddExitIs
<1>4. PICK legs \in [Orders -> Nat] : legs = [s.legs EXCEPT ![f.order] = @ + 1]
  BY WalkAnyIs, JFillIs, LegsIn
<1>5. s.legs[f.order] \in Legs
  BY WalkAnyIs, JFillIs, LegsIn
<1>6. PICK o : o = OpenTrip(f, f.qty - take, s.legs[f.order])
  OBVIOUS
<1>7. o \in TripAny /\ Starts(f, o, f.qty - take)
  BY <1>2, <1>5, <1>6, OpenTripIs DEF Starts
<1>8. PICK t \in ClosedAny : t = Finish(a) /\ t.id[1] = s.current.entry
  BY <1>3, FinishIs
<1>9. WalkFill(s, f) = IF OpenQty(a) > 0 THEN [s EXCEPT !.current = a]
        ELSE [current |-> IF f.qty - take > 0 THEN o ELSE Flat, closed |-> Append(s.closed, t),
              legs |-> IF f.qty - take > 0 THEN legs ELSE s.legs]
  BY <1>1, <1>4, <1>6, <1>8 DEF WalkFill
<1>10. PICK w : w = WalkFill(s, f)
  OBVIOUS
<1>11. PICK more : more = Append(s.closed, t)
  OBVIOUS
<1>12. more \in Seq(ClosedAny)
  BY <1>11, WalkAnyIs, AppendProperties
<1>13. [s EXCEPT !.current = a] = [current |-> a, closed |-> s.closed, legs |-> s.legs]
  BY WalkAnyIs
<1>14. CASE OpenQty(a) > 0
  <2>1. w = [current |-> a, closed |-> s.closed, legs |-> s.legs]
    BY <1>9, <1>10, <1>13, <1>14
  <2>2. w \in WalkAny
    BY <1>3, <2>1, WalkAnyIs DEF WalkAny
  <2>3. Continues(s.current, w.current, OpenQty(s.current) - take)
    BY <1>3, <2>1 DEF Continues
  <2>4. QED
    BY <1>3, <1>10, <1>14, <2>1, <2>2, <2>3
<1>15. CASE ~(OpenQty(a) > 0) /\ f.qty - take > 0
  <2>1. w = [current |-> o, closed |-> more, legs |-> legs]
    BY <1>9, <1>10, <1>11, <1>15
  <2>2. w \in WalkAny
    BY <1>4, <1>7, <1>12, <2>1 DEF WalkAny
  <2>3. w.closed = Append(s.closed, t) /\ Starts(f, w.current, f.qty - take)
    BY <1>7, <1>11, <2>1
  <2>4. QED
    BY <1>3, <1>8, <1>10, <1>15, <2>2, <2>3
<1>16. CASE ~(OpenQty(a) > 0) /\ ~(f.qty - take > 0)
  <2>1. w = [current |-> Flat, closed |-> more, legs |-> s.legs]
    BY <1>9, <1>10, <1>11, <1>16
  <2>2. w \in WalkAny
    BY <1>12, <2>1, WalkAnyIs DEF WalkAny
  <2>3. w.closed = Append(s.closed, t) /\ w.current = Flat
    BY <1>11, <2>1
  <2>4. QED
    BY <1>3, <1>8, <1>10, <1>16, <2>2, <2>3
<1>17. QED
  BY <1>14, <1>15, <1>16

LEMMA AnyWalkStays == WalkStart \in WalkAny /\ Stays(AnyWalkBy, WalkAny, JFill)
<1>1. WalkStart \in WalkAny
  <2>1. <<>> \in Seq(ClosedAny)
    BY EmptySeq
  <2>2. QED
    BY <2>1 DEF WalkStart, WalkAny
<1>2. ASSUME NEW a \in WalkAny, NEW x \in JFill
      PROVE  AnyWalkBy[<<a, x>>] \in WalkAny
  <2>1. AnyWalkBy[<<a, x>>] = WalkFill(a, x)
    BY DEF AnyWalkBy
  <2>2. WalkFill(a, x) \in WalkAny
    BY AnyWalkFromFlat, AnyWalkAdds, AnyWalkTakes
  <2>3. QED
    BY <2>1, <2>2
<1>3. QED
  BY <1>1, <1>2 DEF Stays

LEMMA SignOfIs ==
  ASSUME NEW f \in JFill
  PROVE  SignOf(f) \in Int /\ SignOf(f) = Sign(Opens(f)) * f.qty /\ Sign(Opens(f)) \in {-1, 1}
<1>1. PICK q \in Nat : q = f.qty
  BY JFillIs
<1>2. QED
  BY <1>1 DEF SignOf, Sign, Opens

LEMMA NetStays == 0 \in Amounts /\ Stays(NetBy, Amounts, JFill)
<1>1. ASSUME NEW a \in Amounts, NEW x \in JFill
      PROVE  NetBy[<<a, x>>] \in Amounts
  <2>1. NetBy[<<a, x>>] = a + SignOf(x)
    BY DEF NetBy
  <2>2. QED
    BY <2>1, SignOfIs DEF Amounts
<1>2. QED
  BY <1>1 DEF Stays, Amounts

\* The walk, and the net, are folds over the fills.
LEMMA AnyWalkIsFold ==
  ASSUME NEW seq \in Seq(JFill)
  PROVE  Walked(seq) = FoldBy(AnyWalkBy, WalkStart, seq)
<1> DEFINE D == DOMAIN seq
           Own(h) == h = [s \in SUBSET D |->
                            IF s = {} THEN WalkStart ELSE WalkFill(h[s \ {Max(s)}], seq[Max(s)])]
<1>1. /\ Numbers(D) /\ IsFiniteSet(D) /\ Typed(seq, D, JFill)
      /\ WalkStart \in WalkAny /\ Stays(AnyWalkBy, WalkAny, JFill)
  BY Indices, AnyWalkStays DEF Typed
<1>2. \A a \in WalkAny, x \in JFill : AnyWalkBy[<<a, x>>] = WalkFill(a, x)
  BY DEF AnyWalkBy
<1>3. PICK g : Folded(g, AnyWalkBy, WalkStart, seq, D)
  BY <1>1, FoldedExist
<1>4. \A s \in SUBSET D : g[s] \in WalkAny
  BY <1>1, <1>3, FoldedIn
<1>5. \A s \in SUBSET D : s # {} => s \ {Max(s)} \in SUBSET D /\ Max(s) \in D
  BY <1>1, FS_Subset, MaxIsIn DEF Numbers
<1>6. Own(g)
  <2>1. ASSUME NEW s \in SUBSET D, s # {}
        PROVE  AnyWalkBy[<<g[s \ {Max(s)}], seq[Max(s)]>>] = WalkFill(g[s \ {Max(s)}], seq[Max(s)])
    <3>1. g[s \ {Max(s)}] \in WalkAny /\ seq[Max(s)] \in JFill
      BY <1>1, <1>4, <1>5, <2>1 DEF Typed
    <3>2. QED
      BY <1>2, <3>1, Zenon
  <2>2. g = [s \in SUBSET D |->
               IF s = {} THEN WalkStart ELSE AnyWalkBy[<<g[s \ {Max(s)}], seq[Max(s)]>>]]
    BY <1>3, Zenon DEF Folded
  <2>3. \A s \in SUBSET D : (IF s = {} THEN WalkStart ELSE AnyWalkBy[<<g[s \ {Max(s)}], seq[Max(s)]>>])
                            = (IF s = {} THEN WalkStart ELSE WalkFill(g[s \ {Max(s)}], seq[Max(s)]))
    BY <2>1, Zenon
  <2>4. [s \in SUBSET D |-> IF s = {} THEN WalkStart ELSE AnyWalkBy[<<g[s \ {Max(s)}], seq[Max(s)]>>]]
        = [s \in SUBSET D |-> IF s = {} THEN WalkStart ELSE WalkFill(g[s \ {Max(s)}], seq[Max(s)])]
    BY <2>3, Zenon
  <2>5. QED
    BY <2>2, <2>4, Zenon
<1> DEFINE h == CHOOSE h : Own(h)
<1>7. Own(h)
  BY <1>6, Zenon
<1>8. Walked(seq) = h[D]
  BY Zenon DEF Walked, WalkStart, Orders, FoldLeft, MapThenFoldSet
<1> HIDE DEF h
<1>9. TakesSteps(h, AnyWalkBy, WalkAny, WalkStart, seq, D)
  <2>1. ASSUME NEW s \in SUBSET D
        PROVE  h[s] = IF s = {} THEN WalkStart ELSE WalkFill(h[s \ {Max(s)}], seq[Max(s)])
    BY <1>7, Zenon
  <2>2. h[{}] = WalkStart
    <3>1. {} \in SUBSET D
      OBVIOUS
    <3>2. QED
      BY <2>1, <3>1, Zenon
  <2>3. ASSUME NEW s \in SUBSET D, s # {}, h[s \ {Max(s)}] \in WalkAny
        PROVE  h[s] = AnyWalkBy[<<h[s \ {Max(s)}], seq[Max(s)]>>]
    <3>1. seq[Max(s)] \in JFill
      BY <1>1, <1>5, <2>3 DEF Typed
    <3>2. h[s] = WalkFill(h[s \ {Max(s)}], seq[Max(s)])
      BY <2>1, <2>3, Zenon
    <3>3. QED
      BY <1>2, <2>3, <3>1, <3>2, Zenon
  <2>4. QED
    BY <2>2, <2>3 DEF TakesSteps
<1>10. FoldBy(AnyWalkBy, WalkStart, seq) = h[D]
  <2>1. D = DOMAIN seq
    OBVIOUS
  <2> HIDE DEF D
  <2>2. PICK base : base = WalkStart
    OBVIOUS
  <2>3. base \in WalkAny /\ TakesSteps(h, AnyWalkBy, WalkAny, base, seq, D)
    BY <1>1, <1>9, <2>2
  <2>4. FoldBy(AnyWalkBy, base, seq) = h[D]
    BY <1>1, <2>1, <2>3, FoldBySteps
  <2>5. QED
    BY <2>2, <2>4
<1>11. QED
  BY <1>8, <1>10, Zenon

LEMMA NetIsFold ==
  ASSUME NEW seq \in Seq(JFill)
  PROVE  NetOf(seq) = FoldBy(NetBy, 0, seq)
<1> DEFINE D == DOMAIN seq
           Own(h) == h = [s \in SUBSET D |->
                            IF s = {} THEN 0 ELSE h[s \ {Max(s)}] + SignOf(seq[Max(s)])]
<1>1. /\ Numbers(D) /\ IsFiniteSet(D) /\ Typed(seq, D, JFill)
      /\ 0 \in Amounts /\ Stays(NetBy, Amounts, JFill)
  BY Indices, NetStays DEF Typed
<1>2. \A a \in Amounts, x \in JFill : NetBy[<<a, x>>] = a + SignOf(x)
  BY DEF NetBy
<1>3. PICK g : Folded(g, NetBy, 0, seq, D)
  BY <1>1, FoldedExist
<1>4. \A s \in SUBSET D : g[s] \in Amounts
  BY <1>1, <1>3, FoldedIn
<1>5. \A s \in SUBSET D : s # {} => s \ {Max(s)} \in SUBSET D /\ Max(s) \in D
  BY <1>1, FS_Subset, MaxIsIn DEF Numbers
<1>6. Own(g)
  <2>1. ASSUME NEW s \in SUBSET D, s # {}
        PROVE  NetBy[<<g[s \ {Max(s)}], seq[Max(s)]>>] = g[s \ {Max(s)}] + SignOf(seq[Max(s)])
    <3>1. g[s \ {Max(s)}] \in Amounts /\ seq[Max(s)] \in JFill
      BY <1>1, <1>4, <1>5, <2>1 DEF Typed
    <3>2. QED
      BY <1>2, <3>1, Zenon
  <2>2. g = [s \in SUBSET D |->
               IF s = {} THEN 0 ELSE NetBy[<<g[s \ {Max(s)}], seq[Max(s)]>>]]
    BY <1>3, Zenon DEF Folded
  <2>3. \A s \in SUBSET D : (IF s = {} THEN 0 ELSE NetBy[<<g[s \ {Max(s)}], seq[Max(s)]>>])
                            = (IF s = {} THEN 0 ELSE g[s \ {Max(s)}] + SignOf(seq[Max(s)]))
    BY <2>1, Zenon
  <2>4. [s \in SUBSET D |-> IF s = {} THEN 0 ELSE NetBy[<<g[s \ {Max(s)}], seq[Max(s)]>>]]
        = [s \in SUBSET D |-> IF s = {} THEN 0 ELSE g[s \ {Max(s)}] + SignOf(seq[Max(s)])]
    BY <2>3, Zenon
  <2>5. QED
    BY <2>2, <2>4, Zenon
<1> DEFINE h == CHOOSE h : Own(h)
<1>7. Own(h)
  BY <1>6, Zenon
<1>8. NetOf(seq) = h[D]
  BY Zenon DEF NetOf, SignOf, FoldLeft, MapThenFoldSet
<1> HIDE DEF h
<1>9. TakesSteps(h, NetBy, Amounts, 0, seq, D)
  <2>1. ASSUME NEW s \in SUBSET D
        PROVE  h[s] = IF s = {} THEN 0 ELSE h[s \ {Max(s)}] + SignOf(seq[Max(s)])
    BY <1>7, Zenon
  <2>2. h[{}] = 0
    <3>1. {} \in SUBSET D
      OBVIOUS
    <3>2. QED
      BY <2>1, <3>1, Zenon
  <2>3. ASSUME NEW s \in SUBSET D, s # {}, h[s \ {Max(s)}] \in Amounts
        PROVE  h[s] = NetBy[<<h[s \ {Max(s)}], seq[Max(s)]>>]
    <3>1. seq[Max(s)] \in JFill
      BY <1>1, <1>5, <2>3 DEF Typed
    <3>2. h[s] = h[s \ {Max(s)}] + SignOf(seq[Max(s)])
      BY <2>1, <2>3, Zenon
    <3>3. QED
      BY <1>2, <2>3, <3>1, <3>2, Zenon
  <2>4. QED
    BY <2>2, <2>3 DEF TakesSteps
<1>10. FoldBy(NetBy, 0, seq) = h[D]
  <2>1. D = DOMAIN seq
    OBVIOUS
  <2> HIDE DEF D
  <2>2. PICK base : base = 0
    OBVIOUS
  <2>3. base \in Amounts /\ TakesSteps(h, NetBy, Amounts, base, seq, D)
    BY <1>1, <1>9, <2>2
  <2>4. FoldBy(NetBy, base, seq) = h[D]
    BY <1>1, <2>1, <2>3, FoldBySteps
  <2>5. QED
    BY <2>2, <2>4
<1>11. QED
  BY <1>8, <1>10, Zenon

-----------------------------------------------------------------------------
(* The walk of fills and one more.                                         *)

LEMMA WalkedIn ==
  ASSUME NEW fills \in Seq(JFill)
  PROVE  Walked(fills) \in WalkAny /\ NetOf(fills) \in Int
<1>1. PICK n : n = Len(fills)
  OBVIOUS
<1>2. Counts(fills, n) /\ \A i \in 1..n : fills[i] \in JFill
  BY <1>1, Indices DEF Counts
<1>3. FoldBy(AnyWalkBy, WalkStart, fills) \in WalkAny
  <2>1. PICK base : base = WalkStart
    OBVIOUS
  <2>2. base \in WalkAny /\ \A a \in WalkAny, x \in JFill : AnyWalkBy[<<a, x>>] \in WalkAny
    BY <2>1, AnyWalkStays DEF Stays
  <2>3. FoldBy(AnyWalkBy, base, fills) \in WalkAny
    BY ONLY <1>2, <2>2, FoldByIn
  <2>4. QED
    BY <2>1, <2>3
<1>4. FoldBy(NetBy, 0, fills) \in Amounts
  <2>1. PICK base : base = 0
    OBVIOUS
  <2>2. base \in Amounts /\ \A a \in Amounts, x \in JFill : NetBy[<<a, x>>] \in Amounts
    BY <2>1, NetStays DEF Stays
  <2>3. FoldBy(NetBy, base, fills) \in Amounts
    BY ONLY <1>2, <2>2, FoldByIn
  <2>4. QED
    BY <2>1, <2>3
<1>5. QED
  BY <1>3, <1>4, AnyWalkIsFold, NetIsFold DEF Amounts

\* One fill more is one step more.
LEMMA AnyWalkedMore ==
  ASSUME NEW fills \in Seq(JFill), NEW f \in JFill
  PROVE  /\ Walked(Append(fills, f)) = WalkFill(Walked(fills), f)
         /\ NetOf(Append(fills, f)) = NetOf(fills) + SignOf(f)
<1>1. PICK more : more = Append(fills, f)
  OBVIOUS
<1>2. more \in Seq(JFill)
  BY <1>1, AppendProperties
<1>3. /\ FoldBy(AnyWalkBy, WalkStart, more) = AnyWalkBy[<<FoldBy(AnyWalkBy, WalkStart, fills), f>>]
      /\ FoldBy(NetBy, 0, more) = NetBy[<<FoldBy(NetBy, 0, fills), f>>]
  BY <1>1, FoldByAppend
<1>4. /\ Walked(more) = FoldBy(AnyWalkBy, WalkStart, more) /\ Walked(fills) = FoldBy(AnyWalkBy, WalkStart, fills)
      /\ NetOf(more) = FoldBy(NetBy, 0, more) /\ NetOf(fills) = FoldBy(NetBy, 0, fills)
  BY <1>2, AnyWalkIsFold, NetIsFold
<1>5. Walked(fills) \in WalkAny /\ NetOf(fills) \in Amounts
  BY WalkedIn DEF Amounts
<1>6. PICK s \in WalkAny : s = Walked(fills)
  BY <1>5
<1>7. PICK n \in Amounts : n = NetOf(fills)
  BY <1>5
<1>8. AnyWalkBy[<<s, f>>] = WalkFill(s, f) /\ NetBy[<<n, f>>] = n + SignOf(f)
  BY DEF AnyWalkBy, NetBy
<1>9. QED
  BY <1>1, <1>3, <1>4, <1>6, <1>7, <1>8

LEMMA WalksNothing == Walks(<<>>) /\ NetOf(<<>>) = 0 /\ RowsOf(<<>>) = {}
<1>1. <<>> \in Seq(JFill) /\ <<>> \in Seq(ClosedAny)
  BY EmptySeq
<1>2. Walked(<<>>) = WalkStart /\ NetOf(<<>>) = 0
  BY <1>1, AnyWalkIsFold, NetIsFold, FoldByNothing
<1>3. Walked(<<>>).current = Flat /\ TripsOf(<<>>) = <<>>
  BY <1>2 DEF WalkStart, TripsOf
<1>4. DOMAIN TripsOf(<<>>) = {}
  BY <1>3
<1>5. RowsOf(<<>>) = {}
  BY <1>4 DEF RowsOf, ToSet
<1>6. QED
  BY <1>1, <1>2, <1>3, <1>4, <1>5 DEF Walks

LEMMA OrdersOfMore ==
  ASSUME NEW fills \in Seq(JFill), NEW f \in JFill
  PROVE  OrdersOf(Append(fills, f)) = OrdersOf(fills) \cup ({f.order} \ {ActivityId})
<1>1. PICK more : more = Append(fills, f)
  OBVIOUS
<1>2. PICK n : n = Len(fills)
  OBVIOUS
<1>3. /\ n \in Nat /\ more[n + 1] = f /\ \A i \in 1..n : more[i] = fills[i]
      /\ DOMAIN fills = 1..n /\ DOMAIN more = 1..(n + 1)
  BY <1>1, <1>2, AppendIs
<1>4. {more[i].order : i \in 1..(n + 1)} = {fills[i].order : i \in 1..n} \cup {f.order}
  <2>1. \A i \in 1..(n + 1) : i = n + 1 \/ i \in 1..n
    BY <1>3
  <2>2. n + 1 \in 1..(n + 1) /\ \A i \in 1..n : i \in 1..(n + 1)
    BY <1>3
  <2>3. QED
    BY ONLY <1>3, <2>1, <2>2
<1>5. QED
  BY <1>1, <1>3, <1>4 DEF OrdersOf

\* The trips closed are the same, or one more.
Closes(closed, more, entry) ==
  \E t \in ClosedAny : t.id[1] = entry /\ more = Append(closed, t)

\* A trip more leaves the rows of the others.
LEMMA RowsOfMore ==
  ASSUME NEW fills, NEW more, Walked(fills).closed \in Seq(ClosedAny),
         NEW entry, Closes(Walked(fills).closed, Walked(more).closed, entry),
         NEW A, \A i \in DOMAIN TripsOf(fills) : TripsOf(fills)[i].id[1] \in A, entry \in A
  PROVE  /\ RowsOf(fills) \subseteq RowsOf(more)
         /\ \A i \in DOMAIN TripsOf(more) : TripsOf(more)[i].id[1] \in A
<1>1. PICK old \in Seq(ClosedAny) : old = Walked(fills).closed
  OBVIOUS
<1>2. PICK new : new = Walked(more).closed
  OBVIOUS
<1>3. PICK t \in ClosedAny : t.id[1] = entry /\ new = Append(old, t)
  BY <1>1, <1>2 DEF Closes
<1>4. PICK n : n = Len(old)
  OBVIOUS
<1>5. /\ n \in Nat /\ new[n + 1] = t /\ \A i \in 1..n : new[i] = old[i]
      /\ DOMAIN old = 1..n /\ DOMAIN new = 1..(n + 1)
  BY <1>3, <1>4, AppendIs
<1>6. \A i \in 1..(n + 1) : i = n + 1 \/ i \in 1..n
  BY <1>5
<1>7. \A i \in 1..n : i \in 1..(n + 1)
  BY <1>5
<1>8. \A i \in 1..n : old[i].id[1] \in A
  BY <1>1, <1>5 DEF TripsOf
<1>9. \A i \in 1..(n + 1) : new[i].id[1] \in A
  BY <1>3, <1>5, <1>6, <1>8
<1>10. {Row(trip) : trip \in {old[i] : i \in 1..n}} \subseteq {Row(trip) : trip \in {new[i] : i \in 1..(n + 1)}}
  BY ONLY <1>5, <1>7
<1>11. QED
  BY <1>1, <1>2, <1>5, <1>9, <1>10 DEF RowsOf, ToSet, TripsOf

LEMMA RowsOfSame ==
  ASSUME NEW fills, NEW more, Walked(more).closed = Walked(fills).closed
  PROVE  RowsOf(more) = RowsOf(fills) /\ TripsOf(more) = TripsOf(fills)
BY DEF RowsOf, TripsOf

\* What is told of the walk of fills and f, more, when the walk of fills is told.
WalksOn(fills, f, more) ==
  /\ Walks(more)
  /\ RowsOf(fills) \subseteq RowsOf(more)
  /\ f.order \notin Orders /\ NetOf(more) # 0 => RowsOf(more) = RowsOf(fills)

LEMMA Sides ==
  ASSUME NEW side \in {"long", "short"}, NEW other \in {"long", "short"}
  PROVE  /\ Sign(side) \in {-1, 1}
         /\ other # side => Sign(other) = -Sign(side)
BY DEF Sign

\* A fill that flattens is of the other side, and no larger than the trip.
LEMMA FlattensIs ==
  ASSUME NEW fills, NEW f \in JFill, Flattens(fills, f), NEW c, Opened(c, fills)
  PROVE  Opens(f) # c.side /\ f.qty <= OpenQty(c)
<1>1. PICK q \in Nat \ {0} : q = OpenQty(c)
  BY DEF Opened
<1>2. PICK n : n = NetOf(fills)
  OBVIOUS
<1>3. c.side \in {"long", "short"} /\ n = Sign(c.side) * q /\ f.side = Flattening(n) /\ f.qty <= SizeOf(n)
  BY <1>1, <1>2 DEF Opened, Flattens
<1>4. CASE c.side = "long"
  <2>1. n = q
    BY <1>1, <1>3, <1>4 DEF Sign
  <2>2. f.side = "sell" /\ f.qty <= q
    BY <1>1, <1>3, <2>1 DEF Flattening, SizeOf
  <2>3. QED
    BY <1>1, <1>4, <2>2 DEF Opens
<1>5. CASE c.side = "short"
  <2>1. n = -q
    BY <1>1, <1>3, <1>5 DEF Sign
  <2>2. f.side = "buy" /\ f.qty <= q
    BY <1>1, <1>3, <2>1 DEF Flattening, SizeOf
  <2>3. QED
    BY <1>1, <1>5, <2>2 DEF Opens
<1>6. QED
  BY <1>3, <1>4, <1>5

LEMMA WalksIs ==
  ASSUME NEW fills, Walks(fills)
  PROVE  /\ fills \in Seq(JFill) /\ Walked(fills) \in WalkAny /\ NetOf(fills) \in Int
         /\ Walked(fills).closed \in Seq(ClosedAny)
         /\ Walked(fills).current = Flat => NetOf(fills) = 0
         /\ Walked(fills).current # Flat => Opened(Walked(fills).current, fills)
         /\ \A i \in DOMAIN TripsOf(fills) : TripsOf(fills)[i].id[1] \in OrdersOf(fills)
<1>1. fills \in Seq(JFill)
  BY DEF Walks
<1>2. Walked(fills) \in WalkAny /\ NetOf(fills) \in Int
  BY <1>1, WalkedIn
<1>3. Walked(fills).closed \in Seq(ClosedAny)
  BY <1>2, WalkAnyIs
<1>4. QED
  BY <1>1, <1>2, <1>3 DEF Walks

\* The parts of WalksOn, of fills and more by name.
LEMMA WalksOnWhen ==
  ASSUME NEW fills, Walks(fills), NEW f \in JFill, NEW more, more \in Seq(JFill),
         OrdersOf(more) = OrdersOf(fills) \cup ({f.order} \ {ActivityId}),
         \/ Walked(more).closed = Walked(fills).closed
         \/ /\ \E entry \in OrdersOf(fills) : Closes(Walked(fills).closed, Walked(more).closed, entry)
            /\ f.order \in Orders \/ NetOf(more) = 0,
         \/ Walked(more).current = Flat /\ NetOf(more) = 0
         \/ Walked(more).current # Flat /\ Opened(Walked(more).current, more)
  PROVE  WalksOn(fills, f, more)
<1>1. CASE Walked(more).closed = Walked(fills).closed
  <2>1. RowsOf(more) = RowsOf(fills) /\ TripsOf(more) = TripsOf(fills)
    BY <1>1, RowsOfSame
  <2>2. \A i \in DOMAIN TripsOf(more) : TripsOf(more)[i].id[1] \in OrdersOf(more)
    BY <2>1, WalksIs
  <2>3. QED
    BY <2>1, <2>2 DEF WalksOn, Walks
<1>2. CASE /\ \E entry \in OrdersOf(fills) : Closes(Walked(fills).closed, Walked(more).closed, entry)
           /\ f.order \in Orders \/ NetOf(more) = 0
  <2>1. PICK entry \in OrdersOf(fills) : Closes(Walked(fills).closed, Walked(more).closed, entry)
    BY <1>2
  <2>2. /\ RowsOf(fills) \subseteq RowsOf(more)
        /\ \A i \in DOMAIN TripsOf(more) : TripsOf(more)[i].id[1] \in OrdersOf(fills)
    BY <2>1, WalksIs, RowsOfMore
  <2>3. \A i \in DOMAIN TripsOf(more) : TripsOf(more)[i].id[1] \in OrdersOf(more)
    BY <2>2
  <2>4. QED
    BY <1>2, <2>2, <2>3 DEF WalksOn, Walks
<1>3. QED
  BY <1>1, <1>2

\* A fill that may follow keeps the walk told: the trip open is the net, and what
\* was closed stays closed.
LEMMA WalksMore ==
  ASSUME NEW fills, Walks(fills), NEW f \in JFill, Follows(fills, f)
  PROVE  WalksOn(fills, f, Append(fills, f))
<1>1. PICK more : more = Append(fills, f)
  OBVIOUS
<1>2. fills \in Seq(JFill)
  BY WalksIs
<1>3. more \in Seq(JFill)
  BY <1>1, <1>2, AppendProperties
<1>4. OrdersOf(more) = OrdersOf(fills) \cup ({f.order} \ {ActivityId})
  BY <1>1, <1>2, OrdersOfMore
<1>5. PICK s \in WalkAny : s = Walked(fills)
  BY WalksIs
<1>6. PICK w : w = Walked(more) /\ w = WalkFill(s, f)
  BY <1>1, <1>2, <1>5, AnyWalkedMore
<1>7. PICK n \in Int : n = NetOf(fills)
  BY WalksIs
<1>8. PICK q \in Nat : q = f.qty /\ q > 0
  BY JFillIs
<1>9. PICK g \in {-1, 1} : g = Sign(Opens(f))
  BY SignOfIs
<1>10. PICK m : m = NetOf(more)
  OBVIOUS
<1>11. m = n + g * q
  <2>1. NetOf(more) = NetOf(fills) + SignOf(f)
    BY <1>1, <1>2, AnyWalkedMore
  <2>2. SignOf(f) = g * q
    BY <1>8, <1>9, SignOfIs
  <2>3. QED
    BY <1>7, <1>10, <2>1, <2>2
<1>12. f.order \in Orders => f.order \in OrdersOf(more)
  BY <1>4 DEF Orders, ActivityId
<1>13. Opens(f) \in {"long", "short"}
  BY JFillIs
<1>14. SUFFICES /\ w.closed = s.closed \/ (/\ \E entry \in OrdersOf(fills) : Closes(s.closed, w.closed, entry)
                                           /\ f.order \in Orders \/ m = 0)
                /\ (w.current = Flat /\ m = 0) \/ (w.current # Flat /\ Opened(w.current, more))
  BY <1>1, <1>3, <1>4, <1>5, <1>6, <1>10, WalksOnWhen
<1>15. CASE s.current = Flat
  <2>1. n = 0
    BY <1>5, <1>7, <1>15, WalksIs
  <2>2. f.order \in Orders
    BY <1>7, <2>1 DEF Follows, Flattens
  <2>3. w.closed = s.closed /\ Starts(f, w.current, q)
    BY <1>6, <1>8, <1>15, AnyWalkFromFlat
  <2>4. m = g * q
    BY <1>8, <1>9, <1>11, <2>1
  <2>5. w.current # Flat /\ Opened(w.current, more)
    BY <1>8, <1>9, <1>10, <1>12, <1>13, <2>2, <2>3, <2>4, TripAnyIs DEF Starts, Opened
  <2>6. QED
    BY <2>3, <2>5
<1>16. CASE s.current # Flat
  <2>1. PICK c : c = s.current /\ Opened(c, fills) /\ c # Flat
    BY <1>5, <1>16, WalksIs
  <2>2. PICK z \in Nat \ {0} : z = OpenQty(c)
    BY <2>1 DEF Opened
  <2>3. PICK h \in {-1, 1} : h = Sign(c.side)
    BY <2>1, Sides DEF Opened
  <2>4. n = h * z /\ c.side \in {"long", "short"} /\ c.entry \in OrdersOf(fills) /\ c.entry \in OrdersOf(more)
    BY <1>4, <1>7, <2>1, <2>2, <2>3 DEF Opened
  <2>5. CASE Opens(f) = c.side
    <3>1. w.closed = s.closed /\ Continues(c, w.current, z + q)
      BY <1>6, <1>8, <1>16, <2>1, <2>2, <2>5, AnyWalkAdds
    <3>2. h = g
      BY <1>9, <2>3, <2>5
    <3>3. m = h * (z + q) /\ z + q \in Nat \ {0}
      BY <1>8, <1>9, <1>11, <2>2, <2>3, <2>4, <3>2
    <3>4. w.current # Flat /\ Opened(w.current, more)
      BY <1>10, <2>3, <2>4, <3>1, <3>3, TripAnyIs DEF Continues, Opened
    <3>5. QED
      BY <3>1, <3>4
  <2>6. CASE Opens(f) # c.side
    <3>1. PICK take : take = Least(q, z)
      OBVIOUS
    <3>2. /\ take \in Nat
          /\ \/ take = q /\ q <= z
             \/ take = z /\ z <= q
      BY <1>8, <2>2, <3>1 DEF Least
    <3>3. g = -h
      BY <1>9, <1>13, <2>3, <2>4, <2>6, Sides
    <3>4. /\ z - take > 0 => w.closed = s.closed /\ Continues(c, w.current, z - take)
          /\ ~(z - take > 0) => /\ \E t \in ClosedAny : t.id[1] = c.entry /\ w.closed = Append(s.closed, t)
                                /\ IF q - take > 0 THEN Starts(f, w.current, q - take)
                                   ELSE w.current = Flat
      BY <1>6, <1>8, <1>16, <2>1, <2>2, <2>6, <3>1, AnyWalkTakes
    <3>5. f.order \in Orders \/ (Flattens(fills, f) /\ q <= z)
      BY <1>8, <2>1, <2>2, FlattensIs DEF Follows
    <3>6. CASE q < z
      <4>1. take = q /\ z - take > 0 /\ z - q \in Nat \ {0} /\ m = h * (z - q)
        BY <1>8, <1>9, <1>11, <2>2, <2>3, <2>4, <3>2, <3>3, <3>6
      <4>2. w.closed = s.closed /\ Continues(c, w.current, z - q)
        BY <3>4, <4>1
      <4>3. w.current # Flat /\ Opened(w.current, more)
        BY <1>10, <2>3, <2>4, <4>1, <4>2, TripAnyIs DEF Continues, Opened
      <4>4. QED
        BY <4>2, <4>3
    <3>7. CASE q = z
      <4>1. take = q /\ ~(z - take > 0) /\ ~(q - take > 0) /\ m = 0
        BY <1>8, <1>9, <1>11, <2>2, <2>3, <2>4, <3>2, <3>3, <3>7
      <4>2. Closes(s.closed, w.closed, c.entry) /\ w.current = Flat
        BY <3>4, <4>1 DEF Closes
      <4>3. QED
        BY <2>4, <4>1, <4>2
    <3>8. CASE q > z
      <4>1. take = z /\ ~(z - take > 0) /\ q - take > 0 /\ q - z \in Nat \ {0} /\ m = g * (q - z)
        BY <1>8, <1>9, <1>11, <2>2, <2>3, <2>4, <3>2, <3>3, <3>8
      <4>2. Closes(s.closed, w.closed, c.entry) /\ Starts(f, w.current, q - z)
        BY <3>4, <4>1 DEF Closes
      <4>3. f.order \in Orders
        BY <1>8, <2>2, <3>5, <3>8
      <4>4. w.current # Flat /\ Opened(w.current, more)
        BY <1>9, <1>10, <1>12, <1>13, <4>1, <4>2, <4>3, TripAnyIs DEF Starts, Opened
      <4>5. QED
        BY <2>4, <4>2, <4>3, <4>4
    <3>9. QED
      BY <1>8, <2>2, <3>6, <3>7, <3>8
  <2>7. QED
    BY <2>5, <2>6
<1>17. QED
  BY <1>15, <1>16

-----------------------------------------------------------------------------
(* The fills of what a sync has fetched.                                   *)

Books == Seq(JFill)
Places(fetched) == DOMAIN fetched

AddFill(fetched, orders, activities, fills, n) ==
  IF n \in orders THEN Append(fills, fetched[n])
  ELSE IF n \in activities THEN WithActivity(fills, fetched[n])
  ELSE fills

FillsBy(fetched, orders, activities) ==
  [p \in Books \X Places(fetched) |-> AddFill(fetched, orders, activities, p[1], p[2])]

\* What an activity adds flattens, and so do the contracts that lapsed.
LEMMA TakenOffIs ==
  ASSUME NEW fills \in Seq(JFill), NetOf(fills) # 0,
         NEW e \in JFill, NEW x, x = [e EXCEPT !.side = Flattening(NetOf(fills)),
                                               !.qty = Least(@, SizeOf(NetOf(fills)))]
  PROVE  x \in JFill /\ Flattens(fills, x) /\ x.order = e.order
<1>1. PICK n \in Int : n = NetOf(fills)
  BY WalkedIn
<1>2. SizeOf(n) \in Nat \ {0}
  BY <1>1 DEF SizeOf
<1>3. PICK side \in {"buy", "sell"} : side = Flattening(n)
  BY DEF Flattening
<1>4. PICK q : q = Least(e.qty, SizeOf(n))
  OBVIOUS
<1>5. q \in Nat \ {0} /\ q <= SizeOf(n)
  BY <1>2, <1>4, JFillIs DEF Least
<1>6. x = [e EXCEPT !.side = side, !.qty = q]
  BY <1>1, <1>3, <1>4
<1>7. x \in JFill /\ x.side = side /\ x.qty = q /\ x.order = e.order
  BY <1>5, <1>6 DEF JFill
<1>8. QED
  BY <1>1, <1>3, <1>5, <1>7 DEF Flattens

LEMMA AddFillIn ==
  ASSUME NEW fetched \in Seq(JFill), NEW orders, NEW activities, NEW fills \in Seq(JFill),
         NEW n \in DOMAIN fetched
  PROVE  AddFill(fetched, orders, activities, fills, n) \in Seq(JFill)
<1>1. PICK e \in JFill : e = fetched[n]
  BY Indices
<1>2. Append(fills, e) \in Seq(JFill)
  BY AppendProperties
<1>3. WithActivity(fills, e) \in Seq(JFill)
  <2>1. CASE NetOf(fills) = 0
    BY <2>1 DEF WithActivity
  <2>2. CASE NetOf(fills) # 0
    <3>1. PICK x : x = [e EXCEPT !.side = Flattening(NetOf(fills)), !.qty = Least(@, SizeOf(NetOf(fills)))]
      OBVIOUS
    <3>2. x \in JFill
      BY <2>2, <3>1, TakenOffIs
    <3>3. WithActivity(fills, e) = Append(fills, x)
      BY <2>2, <3>1 DEF WithActivity
    <3>4. Append(fills, x) \in Seq(JFill)
      BY <3>2, AppendProperties
    <3>5. QED
      BY <3>3, <3>4
  <2>3. QED
    BY <2>1, <2>2
<1>4. PICK a : a = Append(fills, e)
  OBVIOUS
<1>5. PICK b : b = WithActivity(fills, e)
  OBVIOUS
<1>6. AddFill(fetched, orders, activities, fills, n) = IF n \in orders THEN a ELSE IF n \in activities THEN b ELSE fills
  BY <1>1, <1>4, <1>5 DEF AddFill
<1>7. QED
  BY <1>2, <1>3, <1>4, <1>5, <1>6

LEMMA FillsStay ==
  ASSUME NEW fetched \in Seq(JFill), NEW orders, NEW activities
  PROVE  <<>> \in Books /\ Stays(FillsBy(fetched, orders, activities), Books, Places(fetched))
<1>1. ASSUME NEW a \in Books, NEW x \in Places(fetched)
      PROVE  FillsBy(fetched, orders, activities)[<<a, x>>] \in Books
  <2>1. FillsBy(fetched, orders, activities)[<<a, x>>] = AddFill(fetched, orders, activities, a, x)
    BY DEF FillsBy
  <2>2. AddFill(fetched, orders, activities, a, x) \in Books
    BY AddFillIn DEF Books, Places
  <2>3. QED
    BY <2>1, <2>2
<1>2. <<>> \in Books
  BY EmptySeq DEF Books
<1>3. QED
  BY <1>1, <1>2 DEF Stays

LEMMA FillsAreFold ==
  ASSUME NEW fetched \in Seq(JFill), NEW orders, NEW activities,
         NEW seq, seq = [n \in DOMAIN fetched |-> n], seq \in Seq(Places(fetched))
  PROVE  FoldLeft(LAMBDA a, x : AddFill(fetched, orders, activities, a, x), <<>>, seq) = FoldBy(FillsBy(fetched, orders, activities), <<>>, seq)
<1> DEFINE D == DOMAIN seq
           Own(h) == h = [s \in SUBSET D |->
                            IF s = {} THEN <<>> ELSE AddFill(fetched, orders, activities, h[s \ {Max(s)}], seq[Max(s)])]
<1>1. /\ Numbers(D) /\ IsFiniteSet(D) /\ Typed(seq, D, Places(fetched))
      /\ <<>> \in Books /\ Stays(FillsBy(fetched, orders, activities), Books, Places(fetched))
  BY Indices, FillsStay DEF Typed
<1>2. \A a \in Books, x \in Places(fetched) : FillsBy(fetched, orders, activities)[<<a, x>>] = AddFill(fetched, orders, activities, a, x)
  BY DEF FillsBy
<1>3. PICK g : Folded(g, FillsBy(fetched, orders, activities), <<>>, seq, D)
  BY <1>1, FoldedExist
<1>4. \A s \in SUBSET D : g[s] \in Books
  BY <1>1, <1>3, FoldedIn
<1>5. \A s \in SUBSET D : s # {} => s \ {Max(s)} \in SUBSET D /\ Max(s) \in D
  BY <1>1, FS_Subset, MaxIsIn DEF Numbers
<1>6. Own(g)
  <2>1. ASSUME NEW s \in SUBSET D, s # {}
        PROVE  FillsBy(fetched, orders, activities)[<<g[s \ {Max(s)}], seq[Max(s)]>>] = AddFill(fetched, orders, activities, g[s \ {Max(s)}], seq[Max(s)])
    <3>1. g[s \ {Max(s)}] \in Books /\ seq[Max(s)] \in Places(fetched)
      BY <1>1, <1>4, <1>5, <2>1 DEF Typed
    <3>2. QED
      BY <1>2, <3>1, Zenon
  <2>2. g = [s \in SUBSET D |->
               IF s = {} THEN <<>> ELSE FillsBy(fetched, orders, activities)[<<g[s \ {Max(s)}], seq[Max(s)]>>]]
    BY <1>3, Zenon DEF Folded
  <2>3. \A s \in SUBSET D : (IF s = {} THEN <<>> ELSE FillsBy(fetched, orders, activities)[<<g[s \ {Max(s)}], seq[Max(s)]>>])
                            = (IF s = {} THEN <<>> ELSE AddFill(fetched, orders, activities, g[s \ {Max(s)}], seq[Max(s)]))
    BY <2>1, Zenon
  <2>4. [s \in SUBSET D |-> IF s = {} THEN <<>> ELSE FillsBy(fetched, orders, activities)[<<g[s \ {Max(s)}], seq[Max(s)]>>]]
        = [s \in SUBSET D |-> IF s = {} THEN <<>> ELSE AddFill(fetched, orders, activities, g[s \ {Max(s)}], seq[Max(s)])]
    <3> DEFINE u(s) == IF s = {} THEN <<>> ELSE FillsBy(fetched, orders, activities)[<<g[s \ {Max(s)}], seq[Max(s)]>>]
               v(s) == IF s = {} THEN <<>> ELSE AddFill(fetched, orders, activities, g[s \ {Max(s)}], seq[Max(s)])
    <3>1. \A s \in SUBSET D : u(s) = v(s)
      BY <2>3, Zenon
    <3> HIDE DEF u, v
    <3>2. [s \in SUBSET D |-> u(s)] = [s \in SUBSET D |-> v(s)]
      BY ONLY <3>1
    <3>3. QED
      BY <3>2, Zenon DEF u, v
  <2>5. QED
    BY <2>2, <2>4, Zenon
<1> DEFINE h == CHOOSE h : Own(h)
<1>7. Own(h)
  BY <1>6, Zenon
<1>8. FoldLeft(LAMBDA a, x : AddFill(fetched, orders, activities, a, x), <<>>, seq) = h[D]
  BY Zenon DEF FoldLeft, MapThenFoldSet
<1> HIDE DEF h
<1>9. TakesSteps(h, FillsBy(fetched, orders, activities), Books, <<>>, seq, D)
  <2>1. ASSUME NEW s \in SUBSET D
        PROVE  h[s] = IF s = {} THEN <<>> ELSE AddFill(fetched, orders, activities, h[s \ {Max(s)}], seq[Max(s)])
    BY <1>7, Zenon
  <2>2. h[{}] = <<>>
    <3>1. {} \in SUBSET D
      OBVIOUS
    <3>2. QED
      BY <2>1, <3>1, Zenon
  <2>3. ASSUME NEW s \in SUBSET D, s # {}, h[s \ {Max(s)}] \in Books
        PROVE  h[s] = FillsBy(fetched, orders, activities)[<<h[s \ {Max(s)}], seq[Max(s)]>>]
    <3>1. seq[Max(s)] \in Places(fetched)
      BY <1>1, <1>5, <2>3 DEF Typed
    <3>2. h[s] = AddFill(fetched, orders, activities, h[s \ {Max(s)}], seq[Max(s)])
      BY <2>1, <2>3, Zenon
    <3>3. QED
      BY <1>2, <2>3, <3>1, <3>2, Zenon
  <2>4. QED
    BY <2>2, <2>3 DEF TakesSteps
<1>10. FoldBy(FillsBy(fetched, orders, activities), <<>>, seq) = h[D]
  <2>1. D = DOMAIN seq
    OBVIOUS
  <2> HIDE DEF D
  <2>2. PICK base : base = <<>>
    OBVIOUS
  <2>3. base \in Books /\ TakesSteps(h, FillsBy(fetched, orders, activities), Books, base, seq, D)
    BY <1>1, <1>9, <2>2
  <2>4. FoldBy(FillsBy(fetched, orders, activities), base, seq) = h[D]
    BY <1>1, <2>1, <2>3, FoldBySteps
  <2>5. QED
    BY <2>2, <2>4
<1>11. QED
  BY <1>8, <1>10, Zenon

\* The fills of what was fetched are a fold over its places.
LEMMA FillsAre ==
  ASSUME NEW fetched \in Seq(JFill), NEW orders, NEW activities
  PROVE  \E seq : /\ seq = [n \in DOMAIN fetched |-> n] /\ Counts(seq, Len(fetched))
                  /\ Fills(fetched, orders, activities) = FoldBy(FillsBy(fetched, orders, activities), <<>>, seq)
<1>1. PICK seq : seq = [n \in DOMAIN fetched |-> n]
  OBVIOUS
<1>2. Len(fetched) \in Nat /\ DOMAIN fetched = 1..Len(fetched)
  BY Indices
<1>3. Counts(seq, Len(fetched))
  BY <1>1, <1>2 DEF Counts
<1>4. seq \in Seq(Places(fetched))
  <2>1. seq = [n \in 1..Len(fetched) |-> n] /\ \A n \in 1..Len(fetched) : n \in Places(fetched)
    BY <1>1, <1>2 DEF Places
  <2>2. seq \in [1..Len(fetched) -> Places(fetched)]
    BY <2>1
  <2>3. QED
    BY <1>2, <2>2, IsASeq
<1>5. Fills(fetched, orders, activities) = FoldLeft(LAMBDA a, x : AddFill(fetched, orders, activities, a, x), <<>>, seq)
  BY <1>1, Zenon DEF Fills, AddFill
<1>6. FoldLeft(LAMBDA a, x : AddFill(fetched, orders, activities, a, x), <<>>, seq)
      = FoldBy(FillsBy(fetched, orders, activities), <<>>, seq)
  BY <1>1, <1>4, FillsAreFold
<1>7. QED
  BY <1>1, <1>3, <1>5, <1>6, Zenon

-----------------------------------------------------------------------------
(* The first elements of a sequence.                                       *)

\* It has the elements that it should.
LEMMA FirstIn ==
  ASSUME NEW T, NEW s \in Seq(T), NEW m \in 0..Len(s)
  PROVE  /\ FirstOf(s, m) \in Seq(T) /\ Len(FirstOf(s, m)) = m
         /\ \A i \in 1..m : FirstOf(s, m)[i] = s[i]
<1>1. Len(s) \in Nat /\ DOMAIN s = 1..Len(s) /\ \A i \in DOMAIN s : s[i] \in T
  BY Indices
<1>2. m \in Int /\ 1 \in Int /\ \A i \in 1..m : s[i] \in T
  BY <1>1
<1>3. /\ SubSeq(s, 1, m) \in Seq(T)
      /\ Len(SubSeq(s, 1, m)) = IF 1 <= m THEN m - 1 + 1 ELSE 0
      /\ \A i \in 1..(m - 1 + 1) : SubSeq(s, 1, m)[i] = s[1 + i - 1]
  BY <1>2, SubSeqProperties
<1>4. m \in Nat /\ m - 1 + 1 = m /\ \A i \in 1..m : 1 + i - 1 = i
  BY <1>1
<1>5. QED
  BY <1>3, <1>4 DEF FirstOf

LEMMA FirstNone ==
  ASSUME NEW s
  PROVE  FirstOf(s, 0) = <<>>
BY SubSeqEmpty DEF FirstOf

LEMMA FirstAll ==
  ASSUME NEW T, NEW s \in Seq(T)
  PROVE  FirstOf(s, Len(s)) = s
BY SubSeqFull DEF FirstOf

LEMMA FirstNext ==
  ASSUME NEW T, NEW s \in Seq(T), NEW i \in 1..Len(s)
  PROVE  FirstOf(s, i) = Append(FirstOf(s, i - 1), s[i])
<1>1. Len(s) \in Nat /\ s[i] \in T
  BY Indices
<1>2. 1 \in 1..Len(s) /\ i \in 1..Len(s) /\ i - 1 \in 0..Len(s) /\ i \in Nat
  BY <1>1
<1>3. SubSeq(s, 1, i) = SubSeq(s, 1, i - 1) \o <<s[i]>>
  BY <1>2, SubSeqRecursiveSecond
<1>4. FirstOf(s, i - 1) \in Seq(T)
  BY <1>2, FirstIn
<1>5. Append(FirstOf(s, i - 1), s[i]) = FirstOf(s, i - 1) \o <<s[i]>>
  BY <1>1, <1>4, AppendIsConcat
<1>6. QED
  BY <1>3, <1>5 DEF FirstOf

\* Sequences that agree as far as n have the same first n.
LEMMA FirstSame ==
  ASSUME NEW T, NEW s \in Seq(T), NEW t \in Seq(T), NEW n \in Nat, n <= Len(s), n <= Len(t),
         \A i \in 1..n : s[i] = t[i]
  PROVE  FirstOf(s, n) = FirstOf(t, n)
<1>1. n \in 0..Len(s) /\ n \in 0..Len(t)
  BY Indices
<1>2. PICK a \in Seq(T) : a = FirstOf(s, n) /\ Len(a) = n /\ \A i \in 1..n : a[i] = s[i]
  <2>1. FirstOf(s, n) \in Seq(T) /\ Len(FirstOf(s, n)) = n /\ \A i \in 1..n : FirstOf(s, n)[i] = s[i]
    BY ONLY <1>1, s \in Seq(T), FirstIn
  <2>2. PICK z : z = FirstOf(s, n)
    OBVIOUS
  <2>3. z \in Seq(T) /\ z = FirstOf(s, n) /\ Len(z) = n /\ \A i \in 1..n : z[i] = s[i]
    BY ONLY <2>1, <2>2
  <2>4. QED
    BY ONLY <2>3
<1>3. PICK b \in Seq(T) : b = FirstOf(t, n) /\ Len(b) = n /\ \A i \in 1..n : b[i] = t[i]
  <2>1. FirstOf(t, n) \in Seq(T) /\ Len(FirstOf(t, n)) = n /\ \A i \in 1..n : FirstOf(t, n)[i] = t[i]
    BY ONLY <1>1, t \in Seq(T), FirstIn
  <2>2. PICK z : z = FirstOf(t, n)
    OBVIOUS
  <2>3. z \in Seq(T) /\ z = FirstOf(t, n) /\ Len(z) = n /\ \A i \in 1..n : z[i] = t[i]
    BY ONLY <2>1, <2>2
  <2>4. QED
    BY ONLY <2>3
<1>4. a = b
  <2>1. Len(a) = Len(b) /\ \A i \in 1..Len(a) : a[i] = b[i]
    BY <1>2, <1>3
  <2>2. QED
    BY <2>1, SeqEqual
<1>5. QED
  BY <1>2, <1>3, <1>4

LEMMA FirstOfMore ==
  ASSUME NEW T, NEW s \in Seq(T), NEW x \in T, NEW n \in 0..Len(s)
  PROVE  FirstOf(Append(s, x), n) = FirstOf(s, n)
<1>1. PICK more : more = Append(s, x)
  OBVIOUS
<1>2. PICK k : k = Len(s)
  OBVIOUS
<1>3. /\ k \in Nat /\ more \in Seq(T) /\ Len(more) = k + 1 /\ \A i \in 1..k : more[i] = s[i]
  BY <1>1, <1>2, AppendIs
<1>4. n \in Nat /\ n <= Len(s) /\ n <= Len(more) /\ \A i \in 1..n : more[i] = s[i]
  BY <1>2, <1>3
<1>5. FirstOf(more, n) = FirstOf(s, n)
  BY ONLY <1>3, <1>4, s \in Seq(T), FirstSame
<1>6. QED
  BY <1>1, <1>5

-----------------------------------------------------------------------------
(* What a sync makes of what it fetched.                                   *)

\* Of the first m it has everything, of the others nothing.
LEMMA FillsAreFirst ==
  ASSUME NEW fetched \in Seq(JFill), NEW orders, NEW activities, NEW m \in 0..Len(fetched),
         \A i \in 1..m : \/ i \in orders
                         \/ i \notin orders /\ i \in activities /\ Flattens(FirstOf(fetched, i - 1), fetched[i]),
         \A i \in (m + 1)..Len(fetched) : i \notin orders /\ i \notin activities
  PROVE  Fills(fetched, orders, activities) = FirstOf(fetched, m)
<1>1. PICK F : F = FillsBy(fetched, orders, activities)
  OBVIOUS
<1>2. PICK n \in Nat : n = Len(fetched)
  BY Indices
<1>3. PICK seq : /\ seq = [i \in DOMAIN fetched |-> i] /\ Counts(seq, n)
                 /\ Fills(fetched, orders, activities) = FoldBy(F, <<>>, seq)
  BY <1>1, <1>2, FillsAre
<1>4. PICK base : base = <<>>
  OBVIOUS
<1>5. PICK h : /\ h[0] = base
               /\ \A i \in 1..n : h[i] = F[<<h[i - 1], seq[i]>>]
               /\ FoldBy(F, base, seq) = h[n]
  <2>1. Counts(seq, n)
    BY <1>3
  <2>2. QED
    BY ONLY <2>1, FoldByPrefixes
<1>6. \A i \in 1..n : seq[i] = i
  BY <1>2, <1>3, Indices
<1>7. \A a \in Books, i \in 1..n : F[<<a, i>>] = AddFill(fetched, orders, activities, a, i)
  <2>1. Places(fetched) = 1..n
    BY <1>2, Indices DEF Places
  <2>2. QED
    BY <1>1, <2>1 DEF FillsBy
<1>8. \A i \in 0..n : FirstOf(fetched, i) \in Books
  BY <1>2, FirstIn DEF Books
<1> DEFINE P == {i \in 0..m : h[i] = FirstOf(fetched, i)}
<1>9. 0 \in P
  BY <1>2, <1>4, <1>5, FirstNone
<1>10. ASSUME NEW i \in 1..m, i - 1 \in P
       PROVE  i \in P
  <2>1. i \in 1..n /\ i - 1 \in 0..n /\ i \in 0..m /\ i \in 1..Len(fetched)
    BY <1>2
  <2>2. PICK a \in Books : a = FirstOf(fetched, i - 1) /\ a = h[i - 1]
    BY <1>8, <1>10, <2>1
  <2>3. h[i] = AddFill(fetched, orders, activities, a, i)
    BY <1>5, <1>6, <1>7, <2>1, <2>2
  <2>4. PICK e \in JFill : e = fetched[i]
    BY <2>1, ElementOfSeq
  <2>5. FirstOf(fetched, i) = Append(a, e)
    BY <2>1, <2>2, <2>4, FirstNext
  <2>6. CASE i \in orders
    <3>1. h[i] = Append(a, e)
      BY <2>3, <2>4, <2>6 DEF AddFill
    <3>2. QED
      BY <2>1, <2>5, <3>1
  <2>7. CASE i \notin orders
    <3>1. i \in activities /\ Flattens(a, e)
      BY <2>2, <2>4, <2>7
    <3>2. h[i] = WithActivity(a, e)
      BY <2>3, <2>4, <2>7, <3>1 DEF AddFill
    <3>3. PICK k \in Int : k = NetOf(a)
      BY WalkedIn DEF Books
    <3>4. k # 0 /\ e.side = Flattening(k) /\ e.qty <= SizeOf(k)
      BY <3>1, <3>3 DEF Flattens
    <3>5. Least(e.qty, SizeOf(k)) = e.qty
      BY <3>4 DEF Least
    <3>6. [e EXCEPT !.side = Flattening(k), !.qty = Least(@, SizeOf(k))] = e
      <4>1. PICK side : side = e.side
        OBVIOUS
      <4>2. PICK q : q = e.qty
        OBVIOUS
      <4>3. [e EXCEPT !.side = Flattening(k), !.qty = Least(@, SizeOf(k))] = [e EXCEPT !.side = side, !.qty = q]
        BY <3>4, <3>5, <4>1, <4>2
      <4>4. [e EXCEPT !.side = side, !.qty = q] = e
        BY <4>1, <4>2 DEF JFill
      <4>5. QED
        BY <4>3, <4>4
    <3>7. WithActivity(a, e) = Append(a, e)
      BY <3>3, <3>4, <3>6 DEF WithActivity
    <3>8. QED
      BY <2>1, <2>5, <3>2, <3>7
  <2>8. QED
    BY <2>6, <2>7
<1>11. h[m] = FirstOf(fetched, m)
  <2>1. m \in Nat
    BY <1>2
  <2> HIDE DEF P
  <2>2. 0..m \subseteq P
    BY <1>9, <1>10, <2>1, UpTo
  <2>3. m \in P
    BY <2>1, <2>2
  <2>4. QED
    BY <2>3 DEF P
<1> HIDE DEF P
<1> DEFINE Q == {i \in 0..(n - m) : h[m + i] = h[m]}
<1>12. n - m \in Nat /\ m \in Nat
  BY <1>2
<1>13. 0 \in Q
  BY <1>12
<1>14. ASSUME NEW i \in 1..(n - m), i - 1 \in Q
       PROVE  i \in Q
  <2>1. m + i \in 1..n /\ m + i \in (m + 1)..Len(fetched) /\ (m + i) - 1 = m + (i - 1) /\ i \in 0..(n - m)
    BY <1>2, <1>12
  <2>2. h[m + (i - 1)] = h[m] /\ h[m] \in Books
    <3>1. m \in 0..n
      BY <1>2, <1>12
    <3>2. h[m] \in Books
      BY <1>8, <1>11, <3>1
    <3>3. QED
      BY <1>14, <3>2
  <2>3. h[m + i] = AddFill(fetched, orders, activities, h[m], m + i)
    <3>1. PICK j : j = m + i
      OBVIOUS
    <3>2. j \in 1..n /\ j - 1 = m + (i - 1)
      BY <2>1, <3>1
    <3>3. h[j] = F[<<h[j - 1], seq[j]>>] /\ seq[j] = j
      BY <1>5, <1>6, <3>2
    <3>4. h[j - 1] = h[m]
      BY <2>2, <3>2
    <3>5. F[<<h[m], j>>] = AddFill(fetched, orders, activities, h[m], j)
      BY <1>7, <2>2, <3>2
    <3>6. QED
      BY ONLY <3>1, <3>3, <3>4, <3>5
  <2>4. AddFill(fetched, orders, activities, h[m], m + i) = h[m]
    BY <2>1 DEF AddFill
  <2>5. QED
    BY <2>1, <2>3, <2>4
<1>15. h[n] = h[m]
  <2> HIDE DEF Q
  <2>1. 0..(n - m) \subseteq Q
    BY <1>12, <1>13, <1>14, UpTo
  <2>2. n - m \in Q /\ m + (n - m) = n
    BY <1>12, <2>1
  <2>3. QED
    BY <2>2 DEF Q
<1>16. QED
  BY <1>3, <1>4, <1>5, <1>11, <1>15

\* Whatever it has, its walk is told, and its trips are of its orders.
LEMMA FillsWalk ==
  ASSUME NEW fetched \in Seq(JFill), NEW orders, NEW activities,
         NEW A, \A i \in orders : fetched[i].order \in Orders /\ fetched[i].order \in A,
         \A i \in activities : fetched[i].order = ActivityId
  PROVE  /\ Walks(Fills(fetched, orders, activities))
         /\ OrdersOf(Fills(fetched, orders, activities)) \subseteq A
<1>1. PICK F : F = FillsBy(fetched, orders, activities)
  OBVIOUS
<1>2. PICK n \in Nat : n = Len(fetched)
  BY Indices
<1>3. PICK seq : /\ seq = [i \in DOMAIN fetched |-> i] /\ Counts(seq, n)
                 /\ Fills(fetched, orders, activities) = FoldBy(F, <<>>, seq)
  <2>1. fetched \in Seq(JFill)
    OBVIOUS
  <2>2. \E z : /\ z = [i \in DOMAIN fetched |-> i] /\ Counts(z, Len(fetched))
               /\ Fills(fetched, orders, activities) = FoldBy(FillsBy(fetched, orders, activities), <<>>, z)
    BY ONLY <2>1, FillsAre, Zenon
  <2>3. QED
    BY ONLY <1>1, <1>2, <2>2, Zenon
<1>4. PICK base : base = <<>>
  OBVIOUS
<1> DEFINE B == {a \in Books : Walks(a) /\ OrdersOf(a) \subseteq A}
           T == 1..n
<1>5. base \in B
  <2>1. Walks(base)
    BY <1>4, WalksNothing
  <2>2. OrdersOf(base) = {}
    BY <1>4 DEF OrdersOf
  <2>3. base \in Books
    BY <2>1 DEF Walks, Books
  <2>4. QED
    BY <2>1, <2>2, <2>3
<1>6. \A i \in 1..n : seq[i] \in T
  BY <1>2, <1>3, Indices
<1>7. ASSUME NEW a \in B, NEW i \in T
      PROVE  F[<<a, i>>] \in B
  <2>1. F[<<a, i>>] = AddFill(fetched, orders, activities, a, i)
    BY <1>1, <1>2, Indices DEF FillsBy, Places
  <2>2. PICK e \in JFill : e = fetched[i]
    BY <1>2, ElementOfSeq
  <2>3. a \in Seq(JFill) /\ Walks(a) /\ OrdersOf(a) \subseteq A
    BY DEF Books
  <2>4. ASSUME NEW x \in JFill, Follows(a, x), x.order \in A \/ x.order = ActivityId
        PROVE  Append(a, x) \in B
    <3>1. WalksOn(a, x, Append(a, x))
      BY <2>3, <2>4, WalksMore
    <3>2. Walks(Append(a, x))
      BY <3>1 DEF WalksOn
    <3>3. OrdersOf(Append(a, x)) = OrdersOf(a) \cup ({x.order} \ {ActivityId})
      BY <2>3, OrdersOfMore
    <3>4. PICK more : more = Append(a, x)
      OBVIOUS
    <3>5. Walks(more) /\ OrdersOf(more) \subseteq A
      BY <2>3, <2>4, <3>2, <3>3, <3>4
    <3>6. more \in Books
      BY <3>5 DEF Walks, Books
    <3>7. QED
      BY <3>4, <3>5, <3>6
  <2>5. CASE i \in orders
    <3>1. Follows(a, e) /\ e.order \in A
      BY <2>2, <2>5 DEF Follows
    <3>2. AddFill(fetched, orders, activities, a, i) = Append(a, e)
      BY <2>2, <2>5 DEF AddFill
    <3>3. Append(a, e) \in B
      BY <2>4, <3>1
    <3>4. QED
      BY <2>1, <3>2, <3>3
  <2>6. CASE i \notin orders /\ i \in activities /\ NetOf(a) # 0
    <3>1. PICK x : x = [e EXCEPT !.side = Flattening(NetOf(a)), !.qty = Least(@, SizeOf(NetOf(a)))]
      OBVIOUS
    <3>2. x \in JFill /\ Flattens(a, x) /\ x.order = ActivityId
      <4>1. a \in Seq(JFill) /\ e \in JFill /\ NetOf(a) # 0
        BY <2>2, <2>3, <2>6
      <4>2. x \in JFill /\ Flattens(a, x) /\ x.order = e.order
        BY ONLY <3>1, <4>1, TakenOffIs
      <4>3. e.order = ActivityId
        BY <2>2, <2>6
      <4>4. QED
        BY <4>2, <4>3
    <3>3. AddFill(fetched, orders, activities, a, i) = Append(a, x)
      BY <2>2, <2>6, <3>1 DEF AddFill, WithActivity
    <3>4. Append(a, x) \in B
      BY <2>4, <3>2 DEF Follows
    <3>5. QED
      BY <2>1, <3>3, <3>4
  <2>7. CASE i \notin orders /\ (i \notin activities \/ NetOf(a) = 0)
    <3>1. AddFill(fetched, orders, activities, a, i) = a
      BY <2>7 DEF AddFill, WithActivity
    <3>2. QED
      BY <2>1, <3>1
  <2>8. QED
    BY <2>5, <2>6, <2>7
<1>8. FoldBy(F, base, seq) \in B
  <2> HIDE DEF B, T
  <2>1. \A a \in B, i \in T : F[<<a, i>>] \in B
    BY <1>7
  <2>2. QED
    BY ONLY <1>3, <1>5, <1>6, <2>1, FoldByIn
<1>9. PICK result \in B : result = Fills(fetched, orders, activities)
  BY <1>3, <1>4, <1>8
<1>10. QED
  BY <1>9

-----------------------------------------------------------------------------
(* Fills that differ only in whether they are booked.                      *)

SameFill(f, g) == f.order = g.order /\ f.side = g.side /\ f.qty = g.qty /\ f.price = g.price

Alike(p, q) ==
  /\ p \in Seq(JFill) /\ q \in Seq(JFill) /\ Len(p) = Len(q)
  /\ \A i \in 1..Len(p) : SameFill(p[i], q[i])

LEMMA SameFillWalks ==
  ASSUME NEW f \in JFill, NEW g \in JFill, SameFill(f, g), NEW s \in WalkAny
  PROVE  WalkFill(s, f) = WalkFill(s, g) /\ SignOf(f) = SignOf(g)
<1>1. f.order = g.order /\ f.side = g.side /\ f.qty = g.qty /\ f.price = g.price
  BY DEF SameFill
<1>2. Opens(f) = Opens(g) /\ SignOf(f) = SignOf(g)
  BY <1>1 DEF Opens, SignOf
<1>3. \A q, leg : OpenTrip(f, q, leg) = OpenTrip(g, q, leg)
  BY <1>1, <1>2 DEF OpenTrip
<1>4. \A t : AddEntry(t, f) = AddEntry(t, g)
  BY <1>1 DEF AddEntry
<1>5. \A t, q : AddExit(t, f, q) = AddExit(t, g, q)
  BY <1>1 DEF AddExit
<1>6. WalkFill(s, f) = WalkFill(s, g)
  <2>1. PICK q : q = f.qty
    OBVIOUS
  <2>2. PICK o : o = f.order
    OBVIOUS
  <2>3. PICK side : side = Opens(f)
    OBVIOUS
  <2>4. PICK take : take = Least(q, OpenQty(s.current))
    OBVIOUS
  <2>5. PICK after : after = AddExit(s.current, f, take)
    OBVIOUS
  <2>6. PICK more : more = AddEntry(s.current, f)
    OBVIOUS
  <2>7. PICK fresh : fresh = OpenTrip(f, q, s.legs[o])
    OBVIOUS
  <2>8. PICK next : next = OpenTrip(f, q - take, s.legs[o])
    OBVIOUS
  <2>9. /\ q = g.qty /\ o = g.order /\ side = Opens(g) /\ after = AddExit(s.current, g, take)
        /\ more = AddEntry(s.current, g) /\ fresh = OpenTrip(g, q, s.legs[o])
        /\ next = OpenTrip(g, q - take, s.legs[o])
    BY ONLY <1>1, <1>2, <1>3, <1>4, <1>5, <2>1, <2>2, <2>3, <2>5, <2>6, <2>7, <2>8
  <2>10. WalkFill(s, f) =
           IF s.current = Flat
           THEN [s EXCEPT !.current = fresh, !.legs = [s.legs EXCEPT ![o] = @ + 1]]
           ELSE IF side = s.current.side THEN [s EXCEPT !.current = more]
           ELSE IF OpenQty(after) > 0 THEN [s EXCEPT !.current = after]
           ELSE [current |-> IF q - take > 0 THEN next ELSE Flat,
                 closed |-> Append(s.closed, Finish(after)),
                 legs |-> IF q - take > 0 THEN [s.legs EXCEPT ![o] = @ + 1] ELSE s.legs]
    BY ONLY <2>1, <2>2, <2>3, <2>4, <2>5, <2>6, <2>7, <2>8 DEF WalkFill
  <2>11. WalkFill(s, g) =
           IF s.current = Flat
           THEN [s EXCEPT !.current = fresh, !.legs = [s.legs EXCEPT ![o] = @ + 1]]
           ELSE IF side = s.current.side THEN [s EXCEPT !.current = more]
           ELSE IF OpenQty(after) > 0 THEN [s EXCEPT !.current = after]
           ELSE [current |-> IF q - take > 0 THEN next ELSE Flat,
                 closed |-> Append(s.closed, Finish(after)),
                 legs |-> IF q - take > 0 THEN [s.legs EXCEPT ![o] = @ + 1] ELSE s.legs]
    BY ONLY <2>4, <2>9 DEF WalkFill
  <2>12. QED
    BY ONLY <2>10, <2>11
<1>7. QED
  BY <1>2, <1>6

\* They walk alike.
LEMMA AlikeWalk ==
  ASSUME NEW p, NEW q, Alike(p, q)
  PROVE  Walked(p) = Walked(q) /\ NetOf(p) = NetOf(q) /\ OrdersOf(p) = OrdersOf(q)
<1>1. p \in Seq(JFill) /\ q \in Seq(JFill) /\ Len(p) = Len(q)
  BY DEF Alike
<1>2. PICK n \in Nat : n = Len(p) /\ n = Len(q)
  BY <1>1, Indices
<1>3. /\ Counts(p, n) /\ Counts(q, n)
      /\ \A i \in 1..n : p[i] \in JFill /\ q[i] \in JFill /\ SameFill(p[i], q[i])
  <2>1. Counts(p, n) /\ \A i \in 1..n : p[i] \in JFill
    BY ONLY <1>1, <1>2, Indices DEF Counts
  <2>2. Counts(q, n) /\ \A i \in 1..n : q[i] \in JFill
    BY ONLY <1>1, <1>2, Indices DEF Counts
  <2>3. \A i \in 1..n : SameFill(p[i], q[i])
    BY <1>2 DEF Alike
  <2>4. QED
    BY <2>1, <2>2, <2>3
<1>4. ASSUME NEW F, NEW A, NEW base \in A,
             \A a \in A, i \in 1..n : F[<<a, p[i]>>] = F[<<a, q[i]>>] /\ F[<<a, p[i]>>] \in A
      PROVE  FoldBy(F, base, p) = FoldBy(F, base, q)
  <2>1. PICK h : /\ h[0] = base
                 /\ \A i \in 1..n : h[i] = F[<<h[i - 1], p[i]>>]
                 /\ FoldBy(F, base, p) = h[n]
    <3>1. Counts(p, n)
      BY <1>3
    <3>2. QED
      BY ONLY <3>1, FoldByPrefixes
  <2>2. PICK k : /\ k[0] = base
                 /\ \A i \in 1..n : k[i] = F[<<k[i - 1], q[i]>>]
                 /\ FoldBy(F, base, q) = k[n]
    <3>1. Counts(q, n)
      BY <1>3
    <3>2. QED
      BY ONLY <3>1, FoldByPrefixes
  <2> DEFINE P == {i \in 0..n : h[i] = k[i] /\ h[i] \in A}
  <2>3. 0 \in P
    BY <2>1, <2>2
  <2>4. ASSUME NEW i \in 1..n, i - 1 \in P
        PROVE  i \in P
    <3>1. i \in 0..n /\ h[i - 1] = k[i - 1] /\ h[i - 1] \in A
      BY <2>4
    <3>2. h[i] = F[<<h[i - 1], p[i]>>] /\ k[i] = F[<<k[i - 1], q[i]>>]
      BY <2>1, <2>2
    <3>3. F[<<h[i - 1], p[i]>>] = F[<<h[i - 1], q[i]>>] /\ F[<<h[i - 1], p[i]>>] \in A
      BY <1>4, <3>1
    <3>4. h[i] = k[i] /\ h[i] \in A
      BY ONLY <3>1, <3>2, <3>3
    <3>5. QED
      BY <3>1, <3>4
  <2> HIDE DEF P
  <2>5. 0..n \subseteq P
    BY <2>3, <2>4, UpTo
  <2>6. n \in P
    BY <2>5
  <2>7. QED
    BY <2>1, <2>2, <2>6 DEF P
<1>5. Walked(p) = Walked(q)
  <2>1. \A a \in WalkAny, i \in 1..n : AnyWalkBy[<<a, p[i]>>] = AnyWalkBy[<<a, q[i]>>] /\ AnyWalkBy[<<a, p[i]>>] \in WalkAny
    <3>1. SUFFICES ASSUME NEW a \in WalkAny, NEW i \in 1..n
                   PROVE  AnyWalkBy[<<a, p[i]>>] = AnyWalkBy[<<a, q[i]>>] /\ AnyWalkBy[<<a, p[i]>>] \in WalkAny
      OBVIOUS
    <3>2. PICK f \in JFill : f = p[i]
      BY <1>3
    <3>3. PICK g \in JFill : g = q[i]
      BY <1>3
    <3>4. SameFill(f, g)
      BY <1>3, <3>2, <3>3
    <3>5. AnyWalkBy[<<a, f>>] = WalkFill(a, f) /\ AnyWalkBy[<<a, g>>] = WalkFill(a, g) /\ AnyWalkBy[<<a, f>>] \in WalkAny
      BY AnyWalkStays DEF AnyWalkBy, Stays
    <3>6. WalkFill(a, f) = WalkFill(a, g)
      BY <3>4, SameFillWalks
    <3>7. QED
      BY <3>2, <3>3, <3>5, <3>6
  <2>2. PICK base \in WalkAny : base = WalkStart
    BY AnyWalkStays
  <2>3. FoldBy(AnyWalkBy, base, p) = FoldBy(AnyWalkBy, base, q)
    BY ONLY <1>4, <2>1, <2>2
  <2>4. Walked(p) = FoldBy(AnyWalkBy, WalkStart, p) /\ Walked(q) = FoldBy(AnyWalkBy, WalkStart, q)
    BY <1>1, AnyWalkIsFold
  <2>5. QED
    BY <2>2, <2>3, <2>4
<1>6. NetOf(p) = NetOf(q)
  <2>1. \A a \in Amounts, i \in 1..n : NetBy[<<a, p[i]>>] = NetBy[<<a, q[i]>>] /\ NetBy[<<a, p[i]>>] \in Amounts
    <3>1. SUFFICES ASSUME NEW a \in Amounts, NEW i \in 1..n
                   PROVE  NetBy[<<a, p[i]>>] = NetBy[<<a, q[i]>>] /\ NetBy[<<a, p[i]>>] \in Amounts
      OBVIOUS
    <3>2. PICK f \in JFill : f = p[i]
      BY <1>3
    <3>3. PICK g \in JFill : g = q[i]
      BY <1>3
    <3>4. SignOf(f) = SignOf(g)
      BY <1>3, <3>2, <3>3, AnyWalkStays, SameFillWalks
    <3>5. NetBy[<<a, f>>] = a + SignOf(f) /\ NetBy[<<a, g>>] = a + SignOf(g) /\ NetBy[<<a, f>>] \in Amounts
      BY NetStays DEF NetBy, Stays
    <3>6. QED
      BY <3>2, <3>3, <3>4, <3>5
  <2>2. PICK base \in Amounts : base = 0
    BY NetStays
  <2>3. FoldBy(NetBy, base, p) = FoldBy(NetBy, base, q)
    BY ONLY <1>4, <2>1, <2>2
  <2>4. NetOf(p) = FoldBy(NetBy, 0, p) /\ NetOf(q) = FoldBy(NetBy, 0, q)
    BY <1>1, NetIsFold
  <2>5. QED
    BY <2>2, <2>3, <2>4
<1>7. OrdersOf(p) = OrdersOf(q)
  <2>1. DOMAIN p = 1..n /\ DOMAIN q = 1..n /\ \A i \in 1..n : p[i].order = q[i].order
    BY <1>3 DEF Counts, SameFill
  <2>2. QED
    BY ONLY <2>1 DEF OrdersOf
<1>8. QED
  BY <1>5, <1>6, <1>7

LEMMA AlikeFirst ==
  ASSUME NEW p, NEW q, Alike(p, q), NEW n \in 0..Len(p)
  PROVE  Alike(FirstOf(p, n), FirstOf(q, n))
<1>1. p \in Seq(JFill) /\ q \in Seq(JFill) /\ n \in 0..Len(q) /\ n \in Nat /\ Len(p) \in Nat
  BY Indices DEF Alike
<1>2. FirstOf(p, n) \in Seq(JFill) /\ Len(FirstOf(p, n)) = n /\ \A i \in 1..n : FirstOf(p, n)[i] = p[i]
  BY ONLY <1>1, n \in 0..Len(p), FirstIn
<1>3. FirstOf(q, n) \in Seq(JFill) /\ Len(FirstOf(q, n)) = n /\ \A i \in 1..n : FirstOf(q, n)[i] = q[i]
  BY ONLY <1>1, FirstIn
<1>4. \A i \in 1..n : i \in 1..Len(p) /\ SameFill(p[i], q[i])
  BY <1>1 DEF Alike
<1>5. PICK a : a = FirstOf(p, n)
  OBVIOUS
<1>6. PICK b : b = FirstOf(q, n)
  OBVIOUS
<1>7. /\ a \in Seq(JFill) /\ b \in Seq(JFill) /\ Len(a) = n /\ Len(b) = n
      /\ \A i \in 1..n : SameFill(a[i], b[i])
  BY ONLY <1>2, <1>3, <1>4, <1>5, <1>6
<1>8. Alike(a, b)
  BY ONLY <1>7 DEF Alike
<1>9. QED
  BY <1>5, <1>6, <1>8

-----------------------------------------------------------------------------
(* A life, whose every event may follow the ones before.                   *)

Lives(events) ==
  /\ events \in Seq(JFill)
  /\ \A n \in DOMAIN events : Follows(FirstOf(events, n - 1), events[n])

\* The walk of a life is told, as far as it went.
LEMMA LifeWalks ==
  ASSUME NEW events, Lives(events), NEW n \in 0..Len(events)
  PROVE  Walks(FirstOf(events, n))
<1>1. events \in Seq(JFill) /\ Len(events) \in Nat /\ DOMAIN events = 1..Len(events)
  BY Indices DEF Lives
<1> DEFINE P == {i \in 0..Len(events) : Walks(FirstOf(events, i))}
<1>2. 0 \in P
  BY <1>1, FirstNone, WalksNothing
<1>3. ASSUME NEW i \in 1..Len(events), i - 1 \in P
      PROVE  i \in P
  <2>1. i \in 0..Len(events) /\ Walks(FirstOf(events, i - 1)) /\ Follows(FirstOf(events, i - 1), events[i])
    BY <1>1, <1>3 DEF Lives
  <2>2. PICK front : front = FirstOf(events, i - 1)
    OBVIOUS
  <2>3. PICK e \in JFill : e = events[i]
    BY <1>1, ElementOfSeq
  <2>4. FirstOf(events, i) = Append(front, e)
    BY <1>1, <2>2, <2>3, FirstNext
  <2>5. WalksOn(front, e, Append(front, e))
    BY ONLY <2>1, <2>2, <2>3, WalksMore
  <2>6. QED
    BY <2>1, <2>4, <2>5 DEF WalksOn
<1> HIDE DEF P
<1>4. 0..Len(events) \subseteq P
  BY <1>1, <1>2, <1>3, UpTo
<1>5. QED
  BY <1>4 DEF P

LEMMA LifeWalksAll ==
  ASSUME NEW events, Lives(events)
  PROVE  Walks(events) /\ events \in Seq(JFill)
<1>1. events \in Seq(JFill) /\ Len(events) \in 0..Len(events)
  BY Indices DEF Lives
<1>2. QED
  BY <1>1, LifeWalks, FirstAll

\* A life goes on with an event that may follow.
LEMMA LifeGoesOn ==
  ASSUME NEW events, Lives(events), NEW e \in JFill, Follows(events, e)
  PROVE  Lives(Append(events, e)) /\ WalksOn(events, e, Append(events, e))
<1>1. Walks(events) /\ events \in Seq(JFill)
  BY LifeWalksAll
<1>2. PICK more : more = Append(events, e)
  OBVIOUS
<1>3. PICK k : k = Len(events)
  OBVIOUS
<1>4. /\ k \in Nat /\ more \in Seq(JFill) /\ more[k + 1] = e /\ \A i \in 1..k : more[i] = events[i]
      /\ DOMAIN events = 1..k /\ DOMAIN more = 1..(k + 1)
  BY <1>1, <1>2, <1>3, AppendIs
<1>5. ASSUME NEW n \in 1..(k + 1)
      PROVE  Follows(FirstOf(more, n - 1), more[n])
  <2>1. n - 1 \in 0..k /\ (n = k + 1 \/ n \in 1..k)
    BY <1>4
  <2>2. FirstOf(more, n - 1) = FirstOf(events, n - 1)
    <3>1. n - 1 \in 0..Len(events)
      BY <1>3, <2>1
    <3>2. QED
      BY ONLY <1>1, <1>2, <3>1, e \in JFill, FirstOfMore
  <2>3. CASE n = k + 1
    <3>1. n - 1 = Len(events) /\ more[n] = e
      BY <1>3, <1>4, <2>3
    <3>2. FirstOf(events, n - 1) = events
      BY ONLY <1>1, <3>1, FirstAll
    <3>3. QED
      BY ONLY <2>2, <3>1, <3>2, Follows(events, e)
  <2>4. CASE n \in 1..k
    <3>1. more[n] = events[n] /\ Follows(FirstOf(events, n - 1), events[n])
      BY <1>4, <2>4 DEF Lives
    <3>2. QED
      BY ONLY <2>2, <3>1
  <2>5. QED
    BY <2>1, <2>3, <2>4
<1>6. Lives(more)
  BY <1>4, <1>5 DEF Lives
<1>7. QED
  BY <1>1, <1>2, <1>6, WalksMore

LEMMA AlikeLives ==
  ASSUME NEW p, Lives(p), NEW q, Alike(p, q)
  PROVE  Lives(q)
<1>1. /\ p \in Seq(JFill) /\ q \in Seq(JFill) /\ Len(p) = Len(q) /\ Len(p) \in Nat
      /\ DOMAIN p = 1..Len(p) /\ DOMAIN q = 1..Len(p)
  BY Indices DEF Alike
<1>2. ASSUME NEW n \in 1..Len(p)
      PROVE  Follows(FirstOf(q, n - 1), q[n])
  <2>1. Follows(FirstOf(p, n - 1), p[n]) /\ n - 1 \in 0..Len(p)
    BY <1>1 DEF Lives
  <2>2. NetOf(FirstOf(p, n - 1)) = NetOf(FirstOf(q, n - 1))
    BY <2>1, AlikeFirst, AlikeWalk
  <2>3. SameFill(p[n], q[n])
    BY DEF Alike
  <2>4. QED
    BY ONLY <2>1, <2>2, <2>3 DEF Follows, Flattens, SameFill
<1>3. QED
  BY <1>1, <1>2 DEF Lives

-----------------------------------------------------------------------------
(* What holds of the record at every step.                                 *)

\* Fits, NothingButOrders and Accounted, of any past.
FitsIn(past) == Cardinality({n \in DOMAIN past : IsOrder(past[n])}) <= FetchLimit
OrdersOnly(past) == \A n \in DOMAIN past : IsOrder(past[n])

AllBooked(past) == \A n \in DOMAIN past : past[n].booked
AllButLast(past) == \A n \in DOMAIN past : n < Len(past) => past[n].booked
\* What a sync that missed nothing has of the past.
Told(past) == IF AllBooked(past) THEN past ELSE FirstOf(past, Len(past) - 1)
\* The trips of Told can be completed.
Complete(past, now, gone) == AllBooked(past) \/ NetOf(past) # 0 \/ now.resets \in gone

\* The life, the count of its events and what is past its expiry.
LifeTells(past, now, gone) ==
  /\ now \in [resets : Nat, events : 0..MaxEvents]
  /\ Lives(past)
  /\ \A n \in DOMAIN past : /\ past[n].order <= now.events
                            /\ IsOrder(past[n]) => past[n].booked
                            /\ ~IsOrder(past[n]) => past[n].price = 0
  /\ \A x \in gone : x \in Nat /\ x <= now.resets
  /\ now.resets \in gone /\ OrdersOnly(past) => NetOf(past) # 0

\* A sync under way has the fields of where it is.
Shape(v) ==
  \/ /\ v.at = "activities"
     /\ v = [at |-> "activities", whole |-> v.whole, life |-> v.life, events |-> v.events, orders |-> v.orders]
  \/ /\ v.at = "positions"
     /\ v = [at |-> "positions", whole |-> v.whole, life |-> v.life, fills |-> v.fills]
  \/ /\ v.at = "upsert"
     /\ v = [at |-> "upsert", whole |-> v.whole, life |-> v.life, rows |-> v.rows]

\* A sync writes rows of none but these orders.
NamesOf(v) ==
  IF v.at = "activities" THEN {v.events[n].order : n \in v.orders}
  ELSE IF v.at = "positions" THEN OrdersOf(v.fills)
  ELSE {r.id[1] : r \in v.rows}

\* They are orders there were, of the life it began in.
IdsTell(v, past, now, old) ==
  /\ v.whole \in BOOLEAN /\ v.life \in Nat /\ v.life <= now.resets
  /\ v.whole => v.life = now.resets
  /\ \A o \in NamesOf(v) : o \in 1..now.events
  /\ \A r \in old : r.id[1] \notin NamesOf(v)
  /\ v.life # now.resets => \A o \in NamesOf(v) : o \notin OrdersOf(past)

\* A sync of this life, when that is orders, all within one query.
Simple(v, past, now) == v.life = now.resets /\ FitsIn(past) /\ OrdersOnly(past)

\* What it has once the orders are fetched.
ActivitiesTell(v, past, now) ==
  /\ v.events \in Seq(JFill) /\ v.orders \subseteq DOMAIN v.events
  /\ \A n \in v.orders : v.events[n].order \in Orders
  /\ v.life = now.resets =>
       Len(v.events) <= Len(past) /\ \A n \in DOMAIN v.events : v.events[n].order = past[n].order
  /\ v.whole => v.events = past /\ v.orders = NewestOrders(past)
  /\ Simple(v, past, now) => /\ v.events = FirstOf(past, Len(v.events)) /\ v.orders = DOMAIN v.events
                             /\ RowsOf(v.events) \subseteq RowsOf(past)

\* Once the activities are.
PositionsTell(v, past, now) ==
  /\ Walks(v.fills)
  /\ v.whole /\ FitsIn(past) /\ AllButLast(past) => v.fills = Told(past)
  /\ Simple(v, past, now) => RowsOf(v.fills) \subseteq RowsOf(past)

\* Once the positions are read.
UpsertTells(v, past, now, gone) ==
  /\ v.whole /\ FitsIn(past) /\ AllButLast(past) /\ Complete(past, now, gone) => v.rows = RowsOf(past)
  /\ Simple(v, past, now) => v.rows \subseteq RowsOf(past)

SyncTells(v, past, now, gone, old) ==
  \/ v = IdleSync
  \/ /\ Shape(v)
     /\ IdsTell(v, past, now, old)
     /\ v.at = "activities" => ActivitiesTell(v, past, now)
     /\ v.at = "positions" => PositionsTell(v, past, now)
     /\ v.at = "upsert" => UpsertTells(v, past, now, gone)

\* What the rows tell of the life, and of the lives before it.
RecordTells(rows, past, now, old, fresh) ==
  /\ old \subseteq rows
  /\ \A r \in rows : r.id[1] \in 1..now.events
  /\ \A r \in old : r.id[1] \notin OrdersOf(past)
  /\ fresh /\ FitsIn(past) => RowsOf(past) \subseteq rows
  /\ FitsIn(past) /\ OrdersOnly(past) => {r \in rows : r.id[1] \in OrdersOf(past)} \subseteq RowsOf(past)

\* The life is told, every sync tells what it has of it, and so do the rows.
JournalInv ==
  /\ LifeTells(life, tally, expired)
  /\ sync = [s \in Syncs |-> sync[s]]
  /\ \A s \in Syncs : SyncTells(sync[s], life, tally, expired, kept)
  /\ RecordTells(journal, life, tally, kept, inSync)

LEMMA OrdersOfLife ==
  ASSUME NEW past, NEW now, NEW gone, LifeTells(past, now, gone)
  PROVE  \A o \in OrdersOf(past) : o \in 1..now.events /\ o \in Orders
<1>1. past \in Seq(JFill) /\ now.events \in 0..MaxEvents
  BY DEF LifeTells, Lives
<1>2. ASSUME NEW n \in DOMAIN past, past[n].order # 0
      PROVE  past[n].order \in 1..now.events /\ past[n].order \in Orders
  <2>1. past[n] \in JFill
    BY <1>1, Indices
  <2>2. past[n].order \in Nat /\ past[n].order <= now.events
    BY <2>1, JFillIs DEF LifeTells
  <2>3. MaxEvents \in 0..MaxFills /\ MaxFills \in Nat
    BY JournalAssumption, PairingAssumption
  <2>4. QED
    BY <1>1, <1>2, <2>2, <2>3 DEF Orders
<1>3. QED
  BY <1>2 DEF OrdersOf, ActivityId

\* A row is named for an order of the fills.
LEMMA RowIds ==
  ASSUME NEW fills, Walks(fills)
  PROVE  \A r \in RowsOf(fills) : r.id[1] \in OrdersOf(fills)
<1>1. \A i \in DOMAIN TripsOf(fills) : TripsOf(fills)[i].id[1] \in OrdersOf(fills)
  BY DEF Walks
<1>2. \A t : Row(t).id = t.id
  BY DEF Row
<1>3. QED
  BY <1>1, <1>2 DEF RowsOf, ToSet

\* What one query returns are orders, and all of them when they fit.
LEMMA NewestIs ==
  ASSUME NEW past \in Seq(JFill)
  PROVE  /\ NewestOrders(past) \subseteq {n \in DOMAIN past : IsOrder(past[n])}
         /\ FitsIn(past) => NewestOrders(past) = {n \in DOMAIN past : IsOrder(past[n])}
<1> DEFINE all == {n \in DOMAIN past : IsOrder(past[n])}
<1>1. NewestOrders(past) = {n \in all : Cardinality({m \in all : m > n}) < FetchLimit}
  BY DEF NewestOrders
<1>2. all \subseteq DOMAIN past /\ IsFiniteSet(DOMAIN past) /\ \A n \in all : n \in Nat
  BY Indices DEF Numbers
<1>3. IsFiniteSet(all)
  BY <1>2, FS_Subset
<1>4. FetchLimit \in Nat
  BY JournalAssumption
<1>5. ASSUME FitsIn(past), NEW n \in all
      PROVE  Cardinality({m \in all : m > n}) < FetchLimit
  <2>1. Cardinality(all) <= FetchLimit
    BY <1>5 DEF FitsIn
  <2> HIDE DEF all
  <2> DEFINE later == {m \in all : m > n}
  <2>2. later \subseteq all /\ n \notin later
    BY <1>2, <1>5
  <2>3. later # all
    BY <1>5, <2>2
  <2> HIDE DEF later
  <2>4. IsFiniteSet(later) /\ Cardinality(later) \in Nat /\ Cardinality(all) \in Nat
    BY <1>3, <2>2, FS_Subset, FS_CardinalityType
  <2>5. Cardinality(later) < Cardinality(all)
    BY <1>3, <2>2, <2>3, <2>4, FS_Subset
  <2>6. QED
    BY <1>4, <2>1, <2>4, <2>5 DEF later
<1>6. QED
  BY <1>1, <1>5

-----------------------------------------------------------------------------
(* One event more.                                                         *)

\* more is past and e, an event that happened now.
Happened(past, e, more, now, next) ==
  /\ e \in JFill /\ Follows(past, e) /\ more = Append(past, e)
  /\ e.order = ActivityId \/ e.order = now.events + 1
  /\ IsOrder(e) => e.booked
  /\ ~IsOrder(e) => e.price = 0
  /\ now.events < MaxEvents /\ next = [now EXCEPT !.events = @ + 1]

\* What the event leaves of the life.
LEMMA HappenedIs ==
  ASSUME NEW past, NEW now, NEW gone, LifeTells(past, now, gone), NEW e, NEW more, NEW next,
         Happened(past, e, more, now, next)
  PROVE  /\ past \in Seq(JFill) /\ more \in Seq(JFill) /\ Lives(more)
         /\ Len(past) \in Nat /\ Len(more) = Len(past) + 1 /\ more[Len(past) + 1] = e
         /\ \A n \in 1..Len(past) : more[n] = past[n]
         /\ DOMAIN past = 1..Len(past) /\ DOMAIN more = 1..(Len(past) + 1)
         /\ RowsOf(past) \subseteq RowsOf(more)
         /\ \A o \in 1..now.events : o \in OrdersOf(more) => o \in OrdersOf(past)
         /\ next.resets = now.resets /\ next.events = now.events + 1 /\ next.events \in 0..MaxEvents
         /\ now.resets \in Nat /\ now.events \in Nat /\ next \in [resets : Nat, events : 0..MaxEvents]
<1>1. e \in JFill /\ Follows(past, e) /\ more = Append(past, e) /\ Lives(past)
  BY DEF Happened, LifeTells
<1>2. past \in Seq(JFill)
  BY <1>1 DEF Lives
<1>3. PICK k : k = Len(past)
  OBVIOUS
<1>4. /\ k \in Nat /\ more \in Seq(JFill) /\ Len(more) = k + 1 /\ more[k + 1] = e
      /\ \A i \in 1..k : more[i] = past[i]
      /\ DOMAIN past = 1..k /\ DOMAIN more = 1..(k + 1)
  BY <1>1, <1>2, <1>3, AppendIs
<1>5. Lives(more) /\ WalksOn(past, e, more)
  BY <1>1, LifeGoesOn
<1>6. RowsOf(past) \subseteq RowsOf(more)
  BY <1>5 DEF WalksOn
<1>7. /\ next.resets = now.resets /\ next.events = now.events + 1 /\ next.events \in 0..MaxEvents
      /\ now.resets \in Nat /\ now.events \in Nat /\ next \in [resets : Nat, events : 0..MaxEvents]
  <2>1. now \in [resets : Nat, events : 0..MaxEvents] /\ now.events < MaxEvents /\ next = [now EXCEPT !.events = @ + 1]
    BY DEF LifeTells, Happened
  <2>2. MaxEvents \in Nat
    BY JournalAssumption, PairingAssumption
  <2>3. PICK n \in 0..MaxEvents : n = now.events + 1 /\ now.events \in Nat
    BY <2>1, <2>2
  <2>4. next = [now EXCEPT !.events = n]
    BY <2>1, <2>3
  <2>5. QED
    BY <2>1, <2>3, <2>4
<1>8. ASSUME NEW o \in 1..now.events, o \in OrdersOf(more)
      PROVE  o \in OrdersOf(past)
  <2>1. OrdersOf(more) = OrdersOf(past) \cup ({e.order} \ {ActivityId})
    BY <1>1, <1>2, OrdersOfMore
  <2>2. e.order = ActivityId \/ e.order = now.events + 1
    BY DEF Happened
  <2>3. o # now.events + 1
    BY <1>7
  <2>4. QED
    BY <1>8, <2>1, <2>2, <2>3
<1>9. /\ past \in Seq(JFill) /\ more \in Seq(JFill) /\ Lives(more)
      /\ Len(past) \in Nat /\ Len(more) = Len(past) + 1 /\ more[Len(past) + 1] = e
      /\ \A n \in 1..Len(past) : more[n] = past[n]
      /\ DOMAIN past = 1..Len(past) /\ DOMAIN more = 1..(Len(past) + 1)
  BY ONLY <1>2, <1>3, <1>4, <1>5
<1>10. QED
  BY ONLY <1>6, <1>7, <1>8, <1>9

LEMMA HappenedFits ==
  ASSUME NEW past, NEW now, NEW gone, LifeTells(past, now, gone), NEW e, NEW more, NEW next,
         Happened(past, e, more, now, next)
  PROVE  /\ FitsIn(more) => FitsIn(past)
         /\ OrdersOnly(more) => OrdersOnly(past) /\ IsOrder(e)
<1>1. PICK k \in Nat : /\ k = Len(past) /\ DOMAIN past = 1..k /\ DOMAIN more = 1..(k + 1)
                       /\ more[k + 1] = e /\ \A n \in 1..k : more[n] = past[n]
  BY HappenedIs
<1>2. \A n \in 1..k : n \in 1..(k + 1)
  BY <1>1
<1> DEFINE a == {n \in DOMAIN past : IsOrder(past[n])}
           b == {n \in DOMAIN more : IsOrder(more[n])}
<1>3. a \subseteq b
  BY <1>1, <1>2
<1>4. IsFiniteSet(b)
  <2>1. IsFiniteSet(1..(k + 1)) /\ b \subseteq 1..(k + 1)
    BY <1>1, FS_Interval
  <2>2. QED
    BY <2>1, FS_Subset
<1>5. ASSUME FitsIn(more)
      PROVE  FitsIn(past)
  <2>1. Cardinality(b) <= FetchLimit /\ FetchLimit \in Nat
    BY <1>5, JournalAssumption DEF FitsIn
  <2> HIDE DEF a, b
  <2>2. Cardinality(a) <= Cardinality(b) /\ IsFiniteSet(a)
    BY <1>3, <1>4, FS_Subset
  <2>3. Cardinality(a) \in Nat /\ Cardinality(b) \in Nat
    BY <1>4, <2>2, FS_CardinalityType
  <2>4. Cardinality(a) <= FetchLimit
    BY <2>1, <2>2, <2>3
  <2>5. QED
    BY <2>4 DEF FitsIn, a
<1>6. ASSUME OrdersOnly(more)
      PROVE  OrdersOnly(past) /\ IsOrder(e)
  <2>1. \A n \in 1..(k + 1) : IsOrder(more[n])
    BY <1>1, <1>6 DEF OrdersOnly
  <2>2. k + 1 \in 1..(k + 1)
    BY <1>1
  <2>3. QED
    BY <1>1, <1>2, <2>1, <2>2 DEF OrdersOnly
<1>7. QED
  BY <1>5, <1>6

\* The life is told after it.
LEMMA LifeHappens ==
  ASSUME NEW past, NEW now, NEW gone, LifeTells(past, now, gone), NEW e, NEW more, NEW next,
         Happened(past, e, more, now, next), now.resets \notin gone \/ ~IsOrder(e)
  PROVE  LifeTells(more, next, gone)
<1>1. PICK k \in Nat : /\ k = Len(past) /\ DOMAIN past = 1..k /\ DOMAIN more = 1..(k + 1)
                       /\ more[k + 1] = e /\ \A n \in 1..k : more[n] = past[n]
  BY HappenedIs
<1>2. /\ next.resets = now.resets /\ next.events = now.events + 1 /\ now.events \in Nat /\ Lives(more)
      /\ next \in [resets : Nat, events : 0..MaxEvents] /\ past \in Seq(JFill)
  BY HappenedIs
<1>3. ASSUME NEW n \in 1..(k + 1)
      PROVE  /\ more[n].order <= next.events
             /\ IsOrder(more[n]) => more[n].booked
             /\ ~IsOrder(more[n]) => more[n].price = 0
  <2>1. CASE n \in 1..k
    <3>1. more[n] = past[n]
      BY <1>1, <2>1
    <3>2. /\ past[n].order <= now.events
          /\ IsOrder(past[n]) => past[n].booked
          /\ ~IsOrder(past[n]) => past[n].price = 0
      BY <1>1, <2>1 DEF LifeTells
    <3>3. past[n].order \in Nat
      <4>1. past[n] \in JFill
        BY <1>1, <1>2, <2>1, ElementOfSeq
      <4>2. QED
        BY <4>1, JFillIs
    <3>4. past[n].order <= next.events
      BY <1>2, <3>2, <3>3
    <3>5. QED
      BY <3>1, <3>2, <3>4
  <2>2. CASE n = k + 1
    <3>1. more[n] = e
      BY <1>1, <2>2
    <3>2. e.order <= next.events
      BY <1>2 DEF Happened, ActivityId
    <3>3. QED
      BY <3>1, <3>2 DEF Happened
  <2>3. QED
    BY <1>1, <2>1, <2>2
<1>4. ~(next.resets \in gone /\ OrdersOnly(more))
  BY <1>2, HappenedFits
<1>5. QED
  BY <1>1, <1>2, <1>3, <1>4 DEF LifeTells

-----------------------------------------------------------------------------
(* What a sync that missed something still tells.                          *)

Blind(v) == IF v = IdleSync THEN IdleSync ELSE [v EXCEPT !.whole = FALSE]

\* more goes on from past: nothing of it changed but what was booked.
Later(past, more, now, next) ==
  /\ next.resets = now.resets /\ now.events <= next.events
  /\ Len(past) <= Len(more) /\ \A n \in 1..Len(past) : more[n].order = past[n].order
  /\ \A o \in 1..now.events : o \in OrdersOf(more) => o \in OrdersOf(past)
  /\ FitsIn(more) /\ OrdersOnly(more) =>
       /\ FitsIn(past) /\ OrdersOnly(past) /\ RowsOf(past) \subseteq RowsOf(more)
       /\ \A m \in 0..Len(past) : FirstOf(more, m) = FirstOf(past, m)

\* Blinding a sync only takes its claim to have missed nothing.
LEMMA BlindIs ==
  ASSUME NEW v, Shape(v)
  PROVE  LET w == [v EXCEPT !.whole = FALSE]
         IN  /\ v # IdleSync /\ Blind(v) = w /\ Shape(w) /\ NamesOf(w) = NamesOf(v)
             /\ w.at = v.at /\ w.life = v.life /\ w.whole = FALSE
             /\ v.at = "activities" => w.events = v.events /\ w.orders = v.orders
             /\ v.at = "positions" => w.fills = v.fills
             /\ v.at = "upsert" => w.rows = v.rows
<1>1. v # IdleSync
  BY DEF Shape, IdleSync
<1>2. PICK w : w = [v EXCEPT !.whole = FALSE]
  OBVIOUS
<1>3. /\ Shape(w) /\ w.at = v.at /\ w.life = v.life /\ w.whole = FALSE
      /\ v.at = "activities" => w.events = v.events /\ w.orders = v.orders
      /\ v.at = "positions" => w.fills = v.fills
      /\ v.at = "upsert" => w.rows = v.rows
  <2>1. CASE /\ v.at = "activities"
             /\ v = [at |-> "activities", whole |-> v.whole, life |-> v.life, events |-> v.events, orders |-> v.orders]
    <3>1. w = [at |-> "activities", whole |-> FALSE, life |-> v.life, events |-> v.events, orders |-> v.orders]
      BY <1>2, <2>1
    <3>2. QED
      BY <2>1, <3>1 DEF Shape
  <2>2. CASE /\ v.at = "positions"
             /\ v = [at |-> "positions", whole |-> v.whole, life |-> v.life, fills |-> v.fills]
    <3>1. w = [at |-> "positions", whole |-> FALSE, life |-> v.life, fills |-> v.fills]
      BY <1>2, <2>2
    <3>2. QED
      BY <2>2, <3>1 DEF Shape
  <2>3. CASE /\ v.at = "upsert"
             /\ v = [at |-> "upsert", whole |-> v.whole, life |-> v.life, rows |-> v.rows]
    <3>1. w = [at |-> "upsert", whole |-> FALSE, life |-> v.life, rows |-> v.rows]
      BY <1>2, <2>3
    <3>2. QED
      BY <2>3, <3>1 DEF Shape
  <2>4. QED
    BY <2>1, <2>2, <2>3 DEF Shape
<1>4. NamesOf(w) = NamesOf(v)
  <2>1. v.at \in {"activities", "positions", "upsert"}
    BY DEF Shape
  <2>2. QED
    BY <1>3, <2>1 DEF NamesOf
<1>5. QED
  BY <1>1, <1>2, <1>3, <1>4 DEF Blind

\* A sync that missed a step tells what it told.
LEMMA SyncLater ==
  ASSUME NEW past, NEW more, NEW now, NEW next, Later(past, more, now, next),
         now.resets \in Nat, now.events \in Nat, next.events \in Nat, past \in Seq(JFill), more \in Seq(JFill),
         NEW gone, NEW old, NEW v, SyncTells(v, past, now, gone, old)
  PROVE  SyncTells(Blind(v), more, next, gone, old)
<1>1. CASE v = IdleSync
  BY <1>1 DEF SyncTells, Blind
<1>2. CASE v # IdleSync
  <2>1. /\ Shape(v) /\ IdsTell(v, past, now, old)
        /\ v.at = "activities" => ActivitiesTell(v, past, now)
        /\ v.at = "positions" => PositionsTell(v, past, now)
        /\ v.at = "upsert" => UpsertTells(v, past, now, gone)
    BY <1>2 DEF SyncTells
  <2>2. PICK w : /\ Blind(v) = w /\ Shape(w) /\ NamesOf(w) = NamesOf(v)
                 /\ w.at = v.at /\ w.life = v.life /\ w.whole = FALSE
                 /\ v.at = "activities" => w.events = v.events /\ w.orders = v.orders
                 /\ v.at = "positions" => w.fills = v.fills
                 /\ v.at = "upsert" => w.rows = v.rows
    BY <2>1, BlindIs
  <2>3. /\ next.resets = now.resets /\ now.events <= next.events
        /\ \A o \in 1..now.events : o \in OrdersOf(more) => o \in OrdersOf(past)
    BY DEF Later
  <2>4. IdsTell(w, more, next, old)
    <3>1. /\ v.life \in Nat /\ v.life <= now.resets
          /\ \A o \in NamesOf(v) : o \in 1..now.events
          /\ \A r \in old : r.id[1] \notin NamesOf(v)
          /\ v.life # now.resets => \A o \in NamesOf(v) : o \notin OrdersOf(past)
      BY <2>1 DEF IdsTell
    <3>2. \A o \in 1..now.events : o \in 1..next.events
      BY <2>3
    <3>3. QED
      BY <2>2, <2>3, <3>1, <3>2 DEF IdsTell
  <2>5. Simple(w, more, next) => /\ Simple(v, past, now) /\ RowsOf(past) \subseteq RowsOf(more)
                                 /\ \A m \in 0..Len(past) : FirstOf(more, m) = FirstOf(past, m)
    BY <2>2, <2>3 DEF Simple, Later
  <2>6. w.at = "activities" => ActivitiesTell(w, more, next)
    <3>1. SUFFICES ASSUME v.at = "activities"
                   PROVE  ActivitiesTell(w, more, next)
      BY <2>2
    <3>2. ActivitiesTell(v, past, now) /\ w.events = v.events /\ w.orders = v.orders
      BY <2>1, <2>2, <3>1
    <3>3. PICK k \in Nat : k = Len(v.events) /\ DOMAIN v.events = 1..k
      BY <3>2, Indices DEF ActivitiesTell
    <3>4. PICK n \in Nat : n = Len(past)
      BY Indices
    <3>5. PICK m \in Nat : m = Len(more) /\ n <= m
      BY <3>4, Indices DEF Later
    <3>6. v.life = now.resets => k <= n /\ \A i \in 1..k : v.events[i].order = past[i].order
      BY <3>2, <3>3, <3>4 DEF ActivitiesTell
    <3>7. v.life = now.resets => k <= m /\ \A i \in 1..k : v.events[i].order = more[i].order
      <4>1. SUFFICES ASSUME v.life = now.resets
                     PROVE  k <= m /\ \A i \in 1..k : v.events[i].order = more[i].order
        OBVIOUS
      <4>2. k <= m /\ \A i \in 1..k : i \in 1..n
        BY <3>5, <3>6, <4>1
      <4>3. \A i \in 1..n : more[i].order = past[i].order
        BY <3>4 DEF Later
      <4>4. QED
        BY <3>6, <4>1, <4>2, <4>3
    <3>8. Simple(w, more, next) => /\ v.events = FirstOf(more, k) /\ v.orders = DOMAIN v.events
                                   /\ RowsOf(v.events) \subseteq RowsOf(more)
      <4>1. SUFFICES ASSUME Simple(w, more, next)
                     PROVE  /\ v.events = FirstOf(more, k) /\ v.orders = DOMAIN v.events
                            /\ RowsOf(v.events) \subseteq RowsOf(more)
        OBVIOUS
      <4>2. Simple(v, past, now) /\ RowsOf(past) \subseteq RowsOf(more)
        BY <2>5, <4>1
      <4>3. v.events = FirstOf(past, k) /\ v.orders = DOMAIN v.events /\ RowsOf(v.events) \subseteq RowsOf(past)
        BY <3>2, <3>3, <4>2 DEF ActivitiesTell
      <4>4. k \in 0..Len(past)
        BY <3>4, <3>6, <4>2 DEF Simple
      <4>5. FirstOf(more, k) = FirstOf(past, k)
        BY <2>5, <4>1, <4>4
      <4>6. QED
        BY <4>2, <4>3, <4>5
    <3>9. /\ v.events \in Seq(JFill) /\ v.orders \subseteq DOMAIN v.events
          /\ \A i \in v.orders : v.events[i].order \in Orders
      BY <3>2 DEF ActivitiesTell
    <3>10. QED
      BY ONLY <2>2, <2>3, <3>2, <3>3, <3>5, <3>7, <3>8, <3>9 DEF ActivitiesTell
  <2>7. w.at = "positions" => PositionsTell(w, more, next)
    BY <2>1, <2>2, <2>5 DEF PositionsTell
  <2>8. w.at = "upsert" => UpsertTells(w, more, next, gone)
    BY <2>1, <2>2, <2>5 DEF UpsertTells
  <2>9. QED
    BY <2>2, <2>4, <2>6, <2>7, <2>8 DEF SyncTells
<1>3. QED
  BY <1>1, <1>2

\* And so does the record, but no longer that it is complete.
LEMMA RecordLater ==
  ASSUME NEW past, NEW more, NEW now, NEW next, Later(past, more, now, next),
         now.events \in Nat, next.events \in Nat,
         NEW rows, NEW old, NEW fresh, RecordTells(rows, past, now, old, fresh)
  PROVE  RecordTells(rows, more, next, old, FALSE)
<1>1. /\ old \subseteq rows
      /\ \A r \in rows : r.id[1] \in 1..now.events
      /\ \A r \in old : r.id[1] \notin OrdersOf(past)
      /\ FitsIn(past) /\ OrdersOnly(past) => \A r \in rows : r.id[1] \in OrdersOf(past) => r \in RowsOf(past)
  BY DEF RecordTells
<1>2. /\ now.events <= next.events
      /\ \A o \in 1..now.events : o \in OrdersOf(more) => o \in OrdersOf(past)
      /\ FitsIn(more) /\ OrdersOnly(more) =>
           FitsIn(past) /\ OrdersOnly(past) /\ RowsOf(past) \subseteq RowsOf(more)
  BY DEF Later
<1>3. \A o \in 1..now.events : o \in 1..next.events
  BY <1>2
<1>4. QED
  BY ONLY <1>1, <1>2, <1>3 DEF RecordTells

LEMMA HappenedLater ==
  ASSUME NEW past, NEW now, NEW gone, LifeTells(past, now, gone), NEW e, NEW more, NEW next,
         Happened(past, e, more, now, next)
  PROVE  Later(past, more, now, next)
<1>1. PICK k \in Nat : /\ k = Len(past) /\ Len(more) = k + 1
                       /\ \A n \in 1..k : more[n] = past[n]
  BY HappenedIs
<1>2. /\ past \in Seq(JFill) /\ more = Append(past, e) /\ e \in JFill
      /\ RowsOf(past) \subseteq RowsOf(more)
      /\ \A o \in 1..now.events : o \in OrdersOf(more) => o \in OrdersOf(past)
      /\ next.resets = now.resets /\ next.events = now.events + 1 /\ now.events \in Nat
  <2>1. more = Append(past, e) /\ e \in JFill
    BY DEF Happened
  <2>2. /\ past \in Seq(JFill)
        /\ RowsOf(past) \subseteq RowsOf(more)
        /\ \A o \in 1..now.events : o \in OrdersOf(more) => o \in OrdersOf(past)
        /\ next.resets = now.resets /\ next.events = now.events + 1 /\ now.events \in Nat
    BY HappenedIs
  <2>3. QED
    BY ONLY <2>1, <2>2
<1>3. /\ now.events <= next.events /\ Len(past) <= Len(more)
      /\ \A n \in 1..Len(past) : more[n].order = past[n].order
  BY <1>1, <1>2
<1>4. \A m \in 0..Len(past) : FirstOf(more, m) = FirstOf(past, m)
  BY ONLY <1>2, FirstOfMore
<1>5. FitsIn(more) /\ OrdersOnly(more) => FitsIn(past) /\ OrdersOnly(past)
  BY HappenedFits
<1>6. QED
  BY ONLY <1>2, <1>3, <1>4, <1>5 DEF Later

-----------------------------------------------------------------------------
(* An activity is booked, and the account is reset.                        *)

\* An activity that is booked changes nothing else of the life.
LEMMA Booked ==
  ASSUME NEW past, NEW now, NEW gone, LifeTells(past, now, gone),
         NEW n \in DOMAIN past, ~past[n].booked, NEW more, more = [past EXCEPT ![n].booked = TRUE]
  PROVE  LifeTells(more, now, gone) /\ Later(past, more, now, now)
<1>1. past \in Seq(JFill) /\ Lives(past)
  BY DEF LifeTells, Lives
<1>2. PICK k \in Nat : k = Len(past) /\ DOMAIN past = 1..k /\ \A i \in 1..k : past[i] \in JFill
  BY <1>1, Indices
<1>3. PICK e \in JFill : e = past[n]
  BY <1>2
<1>4. PICK f \in JFill : f = [e EXCEPT !.booked = TRUE] /\ SameFill(e, f) /\ f.booked = TRUE
  <2>1. PICK f : f = [e EXCEPT !.booked = TRUE]
    OBVIOUS
  <2>2. f \in JFill /\ SameFill(e, f) /\ f.booked = TRUE
    BY <2>1 DEF JFill, SameFill
  <2>3. QED
    BY <2>1, <2>2
<1>5. more = [past EXCEPT ![n] = f]
  BY <1>3, <1>4
<1>6. past = [i \in 1..k |-> past[i]]
  BY <1>1, <1>2
<1>7. DOMAIN more = 1..k /\ \A i \in 1..k : more[i] = IF i = n THEN f ELSE past[i]
  BY <1>2, <1>5
<1>8. more \in [1..k -> JFill]
  <2>1. more = [i \in 1..k |-> IF i = n THEN f ELSE past[i]]
    BY <1>2, <1>5
  <2>2. \A i \in 1..k : (IF i = n THEN f ELSE past[i]) \in JFill
    BY <1>2
  <2>3. QED
    BY ONLY <2>1, <2>2
<1>9. more \in Seq(JFill) /\ Len(more) = k
  <2>1. more \in Seq(JFill)
    BY ONLY <1>8, k \in Nat, IsASeq
  <2>2. Len(more) \in Nat /\ DOMAIN more = 1..Len(more)
    BY <2>1, Indices
  <2>3. PICK m \in Nat : m = Len(more) /\ 1..m = 1..k
    BY <1>7, <2>2
  <2>4. m = k
    BY ONLY <2>3, k \in Nat
  <2>5. QED
    BY <2>1, <2>3, <2>4
<1>10. \A i \in 1..k : SameFill(past[i], more[i])
  BY <1>3, <1>4, <1>7 DEF SameFill
<1>11. Alike(past, more)
  BY ONLY <1>1, <1>2, <1>9, <1>10 DEF Alike
<1>12. Lives(more)
  BY ONLY <1>1, <1>11, AlikeLives
<1>13. OrdersOf(more) = OrdersOf(past)
  BY ONLY <1>11, AlikeWalk
<1>14. ~IsOrder(past[n]) /\ ~OrdersOnly(more)
  <2>1. ~IsOrder(past[n])
    BY DEF LifeTells
  <2>2. ~IsOrder(more[n]) /\ n \in DOMAIN more
    BY <1>2, <1>7, <1>10, <2>1 DEF IsOrder, SameFill
  <2>3. QED
    BY <2>1, <2>2 DEF OrdersOnly
<1>15. LifeTells(more, now, gone)
  <2>1. ASSUME NEW i \in DOMAIN more
        PROVE  /\ more[i].order <= now.events
               /\ IsOrder(more[i]) => more[i].booked
               /\ ~IsOrder(more[i]) => more[i].price = 0
    <3>1. i \in 1..k /\ i \in DOMAIN past
      BY <1>2, <1>7
    <3>2. SameFill(past[i], more[i])
      BY <1>10, <3>1
    <3>3. /\ past[i].order <= now.events
          /\ IsOrder(past[i]) => past[i].booked
          /\ ~IsOrder(past[i]) => past[i].price = 0
      BY <3>1 DEF LifeTells
    <3>4. more[i] = f \/ more[i] = past[i]
      BY <1>7, <3>1
    <3>5. QED
      BY ONLY <1>4, <3>2, <3>3, <3>4 DEF SameFill, IsOrder
  <2>2. /\ now \in [resets : Nat, events : 0..MaxEvents]
        /\ \A x \in gone : x \in Nat /\ x <= now.resets
    BY DEF LifeTells
  <2>3. QED
    BY ONLY <1>12, <1>14, <2>1, <2>2 DEF LifeTells
<1>16. Later(past, more, now, now)
  <2>1. now.events <= now.events
    BY DEF LifeTells
  <2>2. Len(past) <= Len(more) /\ \A i \in 1..Len(past) : more[i].order = past[i].order
    BY <1>2, <1>9, <1>10 DEF SameFill
  <2>3. QED
    BY ONLY <1>13, <1>14, <2>1, <2>2 DEF Later
<1>17. QED
  BY <1>15, <1>16

LEMMA LifeResets ==
  ASSUME NEW past, NEW now, NEW gone, LifeTells(past, now, gone),
         NEW next, next = [now EXCEPT !.resets = @ + 1]
  PROVE  /\ LifeTells(<<>>, next, gone)
         /\ now.resets \in Nat /\ next.resets = now.resets + 1 /\ next.events = now.events
<1>1. now \in [resets : Nat, events : 0..MaxEvents] /\ \A x \in gone : x \in Nat /\ x <= now.resets
  BY DEF LifeTells
<1>2. PICK n \in Nat : n = now.resets + 1 /\ now.resets \in Nat
  BY <1>1
<1>3. next = [now EXCEPT !.resets = n]
  BY <1>2
<1>4. /\ next \in [resets : Nat, events : 0..MaxEvents] /\ next.resets = n /\ next.events = now.events
  BY <1>1, <1>3
<1>5. next.resets \notin gone /\ \A x \in gone : x \in Nat /\ x <= next.resets
  BY <1>1, <1>2, <1>4
<1>6. DOMAIN <<>> = {}
  OBVIOUS
<1>7. <<>> \in Seq(JFill)
  BY EmptySeq
<1>8. Lives(<<>>)
  BY <1>6, <1>7 DEF Lives
<1>9. QED
  BY <1>2, <1>4, <1>5, <1>6, <1>8 DEF LifeTells

\* A sync of the life before the reset writes rows of that life.
LEMMA SyncResets ==
  ASSUME NEW past, NEW now, NEW gone, LifeTells(past, now, gone),
         NEW next, next = [now EXCEPT !.resets = @ + 1],
         NEW old, NEW v, SyncTells(v, past, now, gone, old)
  PROVE  SyncTells(Blind(v), <<>>, next, gone, old)
<1>1. CASE v = IdleSync
  BY <1>1 DEF SyncTells, Blind
<1>2. CASE v # IdleSync
  <2>1. /\ Shape(v) /\ IdsTell(v, past, now, old)
        /\ v.at = "activities" => ActivitiesTell(v, past, now)
        /\ v.at = "positions" => PositionsTell(v, past, now)
    BY <1>2 DEF SyncTells
  <2>2. PICK w : /\ Blind(v) = w /\ Shape(w) /\ NamesOf(w) = NamesOf(v)
                 /\ w.at = v.at /\ w.life = v.life /\ w.whole = FALSE
                 /\ v.at = "activities" => w.events = v.events /\ w.orders = v.orders
                 /\ v.at = "positions" => w.fills = v.fills
    BY <2>1, BlindIs
  <2>3. now.resets \in Nat /\ next.resets = now.resets + 1 /\ next.events = now.events
    BY LifeResets
  <2>4. v.life \in Nat /\ v.life <= next.resets /\ w.life # next.resets
    BY <2>1, <2>2, <2>3 DEF IdsTell
  <2>5. PICK none : none = <<>> /\ OrdersOf(none) = {}
    BY DEF OrdersOf
  <2>6. IdsTell(w, none, next, old)
    BY <2>1, <2>2, <2>3, <2>4, <2>5 DEF IdsTell
  <2>7. w.at = "activities" => ActivitiesTell(w, none, next)
    <3>1. SUFFICES ASSUME v.at = "activities"
                   PROVE  ActivitiesTell(w, none, next)
      BY <2>2
    <3>2. /\ v.events \in Seq(JFill) /\ v.orders \subseteq DOMAIN v.events
          /\ \A n \in v.orders : v.events[n].order \in Orders
      BY <2>1, <3>1 DEF ActivitiesTell
    <3>3. w.events = v.events /\ w.orders = v.orders
      BY <2>2, <3>1
    <3>4. QED
      BY ONLY <2>2, <2>4, <3>2, <3>3 DEF ActivitiesTell, Simple
  <2>8. w.at = "positions" => PositionsTell(w, none, next)
    BY <2>1, <2>2, <2>4 DEF PositionsTell, Simple
  <2>9. w.at = "upsert" => UpsertTells(w, none, next, gone)
    BY <2>2, <2>4 DEF UpsertTells, Simple
  <2>10. QED
    BY <2>2, <2>5, <2>6, <2>7, <2>8, <2>9 DEF SyncTells
<1>3. QED
  BY <1>1, <1>2

LEMMA RecordResets ==
  ASSUME NEW rows, NEW past, NEW now, NEW next, NEW old, NEW fresh, RecordTells(rows, past, now, old, fresh),
         next.events = now.events,
         NEW more, more = old \/ (fresh /\ FitsIn(past) /\ more = old \cup RowsOf(past))
  PROVE  RecordTells(rows, <<>>, next, more, FALSE)
<1>1. PICK none : none = <<>> /\ OrdersOf(none) = {} /\ RowsOf(none) = {}
  BY WalksNothing DEF OrdersOf
<1>2. more \subseteq rows
  BY DEF RecordTells
<1>3. QED
  BY <1>1, <1>2 DEF RecordTells

-----------------------------------------------------------------------------
(* A sync fetches the orders.                                              *)

LEMMA OrdersFetched ==
  ASSUME NEW past, NEW now, NEW gone, LifeTells(past, now, gone),
         NEW old, \A r \in old : r.id[1] \notin OrdersOf(past),
         NEW v, v = [at |-> "activities", whole |-> TRUE, life |-> now.resets,
                     events |-> past, orders |-> NewestOrders(past)]
  PROVE  SyncTells(v, past, now, gone, old)
<1>1. past \in Seq(JFill) /\ now.resets \in Nat
  BY DEF LifeTells, Lives
<1>2. /\ v.at = "activities" /\ v.whole = TRUE /\ v.life = now.resets
      /\ v.events = past /\ v.orders = NewestOrders(past) /\ Shape(v)
  BY DEF Shape
<1>3. PICK newest : newest = NewestOrders(past)
  OBVIOUS
<1>4. /\ newest \subseteq DOMAIN past /\ \A n \in newest : IsOrder(past[n])
      /\ FitsIn(past) => newest = {n \in DOMAIN past : IsOrder(past[n])}
  BY <1>1, <1>3, NewestIs
<1>5. ASSUME NEW n \in newest
      PROVE  past[n].order \in OrdersOf(past)
  BY <1>4 DEF IsOrder, OrdersOf
<1>6. \A n \in newest : past[n].order \in Orders /\ past[n].order \in 1..now.events
  BY <1>5, OrdersOfLife
<1>7. IdsTell(v, past, now, old)
  <2>1. NamesOf(v) = {past[n].order : n \in newest}
    BY <1>2, <1>3 DEF NamesOf
  <2>2. \A o \in NamesOf(v) : o \in 1..now.events /\ o \in OrdersOf(past)
    BY <1>5, <1>6, <2>1
  <2>3. v.whole \in BOOLEAN /\ v.life \in Nat /\ v.life <= now.resets /\ v.life = now.resets
    BY <1>1, <1>2
  <2>4. \A r \in old : r.id[1] \notin NamesOf(v)
    BY <2>2
  <2>5. QED
    BY ONLY <2>2, <2>3, <2>4 DEF IdsTell
<1>8. OrdersOnly(past) /\ FitsIn(past) => newest = DOMAIN past
  BY <1>4 DEF OrdersOnly
<1>9. past = FirstOf(past, Len(past)) /\ Len(past) \in Nat
  BY <1>1, FirstAll, Indices
<1>10. ActivitiesTell(v, past, now)
  <2>1. Len(past) <= Len(past)
    BY <1>9
  <2>2. QED
    BY ONLY <1>1, <1>2, <1>3, <1>4, <1>6, <1>8, <1>9, <2>1 DEF ActivitiesTell, Simple
<1>11. QED
  BY <1>2, <1>7, <1>10 DEF SyncTells

-----------------------------------------------------------------------------
(* A sync fetches the activities.                                          *)

\* Of orders, all within one query, the fills are those it fetched.
LEMMA FillsOfOrders ==
  ASSUME NEW past \in Seq(JFill), NEW k \in 0..Len(past), NEW orders, orders = 1..k,
         NEW got, got = {}
  PROVE  Fills(past, orders, got) = FirstOf(past, k)
<1>1. Len(past) \in Nat /\ k \in Nat
  BY Indices
<1>2. \A i \in 1..k : \/ i \in orders
                      \/ i \notin orders /\ i \in got /\ Flattens(FirstOf(past, i - 1), past[i])
  OBVIOUS
<1>3. \A i \in (k + 1)..Len(past) : i \notin orders /\ i \notin got
  BY <1>1
<1>4. QED
  BY ONLY <1>2, <1>3, past \in Seq(JFill), k \in 0..Len(past), FillsAreFirst

\* With every order and every activity booked it has all but what is not booked.
LEMMA FillsToTell ==
  ASSUME NEW past, NEW now, NEW gone, LifeTells(past, now, gone), AllButLast(past),
         NEW orders, orders = {n \in DOMAIN past : IsOrder(past[n])},
         NEW got, got = {n \in DOMAIN past : ~IsOrder(past[n]) /\ past[n].booked}
  PROVE  Fills(past, orders, got) = Told(past)
<1>1. past \in Seq(JFill) /\ Lives(past)
  BY DEF LifeTells, Lives
<1>2. PICK k \in Nat : k = Len(past) /\ DOMAIN past = 1..k
  BY <1>1, Indices
<1>3. \A i \in 1..k : past[i].booked =>
        \/ i \in orders
        \/ i \notin orders /\ i \in got /\ Flattens(FirstOf(past, i - 1), past[i])
  <2>1. SUFFICES ASSUME NEW i \in 1..k, past[i].booked
                 PROVE  \/ i \in orders
                        \/ i \notin orders /\ i \in got /\ Flattens(FirstOf(past, i - 1), past[i])
    OBVIOUS
  <2>2. CASE IsOrder(past[i])
    BY <1>2, <2>2
  <2>3. CASE ~IsOrder(past[i])
    <3>1. i \notin orders /\ i \in got
      BY <1>2, <2>1, <2>3
    <3>2. Follows(FirstOf(past, i - 1), past[i])
      BY <1>1, <1>2 DEF Lives
    <3>3. past[i].order \notin Orders
      BY <2>3 DEF IsOrder, ActivityId, Orders
    <3>4. QED
      BY <3>1, <3>2, <3>3 DEF Follows
  <2>4. QED
    BY <2>2, <2>3
<1>4. \A i \in 1..k : ~past[i].booked => i \notin orders /\ i \notin got
  BY <1>2 DEF LifeTells
<1>5. CASE AllBooked(past)
  <2>1. k \in 0..Len(past)
    BY <1>2
  <2>2. \A i \in 1..k : past[i].booked
    BY <1>2, <1>5 DEF AllBooked
  <2>3. \A i \in (k + 1)..Len(past) : i \notin orders /\ i \notin got
    BY <1>2
  <2>4. Fills(past, orders, got) = FirstOf(past, k)
    BY ONLY <1>1, <1>3, <2>1, <2>2, <2>3, FillsAreFirst
  <2>5. FirstOf(past, k) = past
    BY ONLY <1>1, <1>2, FirstAll
  <2>6. QED
    BY ONLY <1>5, <2>4, <2>5 DEF Told
<1>6. CASE ~AllBooked(past)
  <2>1. PICK n \in 1..k : ~past[n].booked
    BY <1>2, <1>6 DEF AllBooked
  <2>2. \A i \in 1..k : i < k => past[i].booked
    BY <1>2 DEF AllButLast
  <2>3. n = k
    BY <1>2, <2>1, <2>2
  <2>4. PICK m \in 0..Len(past) : m = k - 1 /\ m \in Nat
    BY <1>2, <2>1, <2>3
  <2>5. \A i \in 1..m : i \in 1..k /\ past[i].booked
    BY <1>2, <2>2, <2>4
  <2>6. \A i \in (m + 1)..Len(past) : i \notin orders /\ i \notin got
    BY <1>2, <1>4, <2>1, <2>3, <2>4
  <2>7. Fills(past, orders, got) = FirstOf(past, m)
    BY ONLY <1>1, <1>3, <2>4, <2>5, <2>6, FillsAreFirst
  <2>8. QED
    BY ONLY <1>2, <1>6, <2>4, <2>7 DEF Told
<1>7. QED
  BY <1>5, <1>6

\* The events it asks for, and the activities booked among them.
Reaches(v, past, now, timeline, booked) ==
  /\ timeline = IF v.life = now.resets THEN past ELSE v.events
  /\ booked = {n \in DOMAIN timeline : /\ v.life = now.resets
                                       /\ ~IsOrder(timeline[n]) /\ timeline[n].booked}

\* However many of the activities it read, and whatever filled or was reset since
\* it asked for the orders.
LEMMA ActivitiesFetched ==
  ASSUME NEW past, NEW now, NEW gone, LifeTells(past, now, gone),
         NEW old, NEW v, SyncTells(v, past, now, gone, old), v.at = "activities",
         NEW timeline, NEW booked, Reaches(v, past, now, timeline, booked),
         NEW got, got \subseteq booked,
         NEW all, all = (v.whole /\ got = booked),
         NEW w, w = [at |-> "positions", whole |-> all, life |-> v.life, fills |-> Fills(timeline, v.orders, got)]
  PROVE  SyncTells(w, past, now, gone, old)
<1>0. /\ timeline = IF v.life = now.resets THEN past ELSE v.events
      /\ booked = {n \in DOMAIN timeline : /\ v.life = now.resets
                                           /\ ~IsOrder(timeline[n]) /\ timeline[n].booked}
  BY DEF Reaches
<1>1. IdsTell(v, past, now, old) /\ ActivitiesTell(v, past, now)
  BY DEF SyncTells, IdleSync
<1>2. past \in Seq(JFill) /\ now.resets \in Nat
  BY DEF LifeTells, Lives
<1>3. PICK fills : fills = Fills(timeline, v.orders, got)
  OBVIOUS
<1>4. all \in BOOLEAN /\ all = (v.whole /\ got = booked)
  OBVIOUS
<1>5. w = [at |-> "positions", whole |-> all, life |-> v.life, fills |-> fills]
  BY <1>3
<1>6. w.at = "positions" /\ w.whole = all /\ w.life = v.life /\ w.fills = fills
  BY <1>5
<1>7. Shape(w)
  BY <1>5, <1>6 DEF Shape
<1>8. NamesOf(v) = {v.events[n].order : n \in v.orders} /\ NamesOf(w) = OrdersOf(fills)
  BY <1>6 DEF NamesOf
<1>9. PICK A : A = NamesOf(v)
  OBVIOUS
<1>10. Walks(fills) /\ OrdersOf(fills) \subseteq A
  <2>1. timeline \in Seq(JFill)
    BY <1>0, <1>1, <1>2 DEF ActivitiesTell
  <2>2. \A i \in v.orders : timeline[i].order \in Orders /\ timeline[i].order \in A
    <3>1. SUFFICES ASSUME NEW i \in v.orders
                   PROVE  timeline[i].order \in Orders /\ timeline[i].order \in A
      OBVIOUS
    <3>2. v.events[i].order \in Orders /\ v.events[i].order \in A /\ i \in DOMAIN v.events
      BY <1>1, <1>8, <1>9 DEF ActivitiesTell
    <3>3. timeline[i].order = v.events[i].order
      BY <1>0, <1>1, <3>2 DEF ActivitiesTell
    <3>4. QED
      BY <3>2, <3>3
  <2>3. \A i \in got : timeline[i].order = ActivityId
    BY <1>0 DEF IsOrder
  <2>4. Walks(Fills(timeline, v.orders, got)) /\ OrdersOf(Fills(timeline, v.orders, got)) \subseteq A
    BY ONLY <2>1, <2>2, <2>3, FillsWalk
  <2>5. QED
    BY <1>3, <2>4
<1>11. IdsTell(w, past, now, old)
  BY <1>1, <1>4, <1>6, <1>8, <1>9, <1>10 DEF IdsTell
<1>12. ASSUME all, FitsIn(past), AllButLast(past)
       PROVE  fills = Told(past)
  <2>1. v.whole /\ v.life = now.resets /\ got = booked
    BY <1>1, <1>4, <1>12 DEF IdsTell
  <2>2. v.orders = NewestOrders(past) /\ timeline = past
    BY <1>0, <1>1, <2>1 DEF ActivitiesTell
  <2>3. v.orders = {n \in DOMAIN past : IsOrder(past[n])}
    BY <1>2, <1>12, <2>2, NewestIs
  <2>4. got = {n \in DOMAIN past : ~IsOrder(past[n]) /\ past[n].booked}
    BY <1>0, <2>1, <2>2
  <2>5. Fills(past, v.orders, got) = Told(past)
    BY ONLY LifeTells(past, now, gone), <1>12, <2>3, <2>4, FillsToTell
  <2>6. QED
    BY <1>3, <2>2, <2>5
<1>13. ASSUME Simple(w, past, now)
       PROVE  RowsOf(fills) \subseteq RowsOf(past)
  <2>1. Simple(v, past, now) /\ v.life = now.resets /\ timeline = past
    BY <1>0, <1>6, <1>13 DEF Simple
  <2>2. /\ v.events = FirstOf(past, Len(v.events)) /\ v.orders = DOMAIN v.events
        /\ RowsOf(v.events) \subseteq RowsOf(past) /\ Len(v.events) <= Len(past) /\ v.events \in Seq(JFill)
    BY <1>1, <2>1 DEF ActivitiesTell
  <2>3. PICK k \in Nat : k = Len(v.events) /\ v.orders = 1..k
    BY <2>2, Indices
  <2>4. k \in 0..Len(past)
    BY <1>2, <2>2, <2>3, Indices
  <2>5. got = {}
    BY <1>0, <2>1 DEF Simple, OrdersOnly
  <2>6. Fills(past, v.orders, got) = FirstOf(past, k)
    BY ONLY <1>2, <2>3, <2>4, <2>5, FillsOfOrders
  <2>7. QED
    BY ONLY <1>3, <2>1, <2>2, <2>3, <2>6
<1>14. PositionsTell(w, past, now)
  BY <1>6, <1>10, <1>12, <1>13 DEF PositionsTell
<1>15. QED
  BY <1>6, <1>7, <1>11, <1>14 DEF SyncTells

-----------------------------------------------------------------------------
(* A sync reads the positions.                                             *)

LapsedFill(net) ==
  [order |-> ActivityId, side |-> Flattening(net), qty |-> SizeOf(net), price |-> 0, booked |-> FALSE]

LEMMA LapsedIs ==
  ASSUME NEW fills, Walks(fills), NetOf(fills) # 0
  PROVE  /\ LapsedFill(NetOf(fills)) \in JFill
         /\ Follows(fills, LapsedFill(NetOf(fills)))
         /\ WithLapsed(fills) = Append(fills, LapsedFill(NetOf(fills)))
<1>1. PICK n \in Int : n = NetOf(fills) /\ n # 0
  BY WalksIs
<1>2. PICK q \in Nat \ {0} : q = SizeOf(n)
  BY <1>1 DEF SizeOf
<1>3. PICK side \in {"buy", "sell"} : side = Flattening(n)
  BY DEF Flattening
<1>4. LapsedFill(n) = [order |-> ActivityId, side |-> side, qty |-> q, price |-> 0, booked |-> FALSE]
  BY <1>2, <1>3 DEF LapsedFill
<1>5. LapsedFill(n) \in JFill
  BY <1>4 DEF JFill, ActivityId
<1>6. Follows(fills, LapsedFill(n))
  BY <1>1, <1>2, <1>3, <1>4 DEF Follows, Flattens
<1>7. WithLapsed(fills) = Append(fills, LapsedFill(n))
  BY <1>1 DEF WithLapsed, LapsedFill
<1>8. QED
  BY <1>1, <1>5, <1>6, <1>7

LEMMA LapsedWalks ==
  ASSUME NEW fills, Walks(fills)
  PROVE  Walks(WithLapsed(fills)) /\ OrdersOf(WithLapsed(fills)) = OrdersOf(fills)
<1>1. CASE NetOf(fills) = 0
  BY <1>1 DEF WithLapsed
<1>2. CASE NetOf(fills) # 0
  <2>1. PICK e \in JFill : e = LapsedFill(NetOf(fills)) /\ Follows(fills, e) /\ WithLapsed(fills) = Append(fills, e)
    BY <1>2, LapsedIs
  <2>2. WalksOn(fills, e, Append(fills, e))
    BY <2>1, WalksMore
  <2>3. e.order = ActivityId
    BY <2>1 DEF LapsedFill
  <2>4. OrdersOf(Append(fills, e)) = OrdersOf(fills) \cup ({e.order} \ {ActivityId})
    BY OrdersOfMore DEF Walks
  <2>5. QED
    BY <2>1, <2>2, <2>3, <2>4 DEF WalksOn
<1>3. QED
  BY <1>1, <1>2

\* The last event, not yet booked: it is what lapses, when it leaves nothing.
LEMMA LastIsLapsed ==
  ASSUME NEW past, NEW now, NEW gone, LifeTells(past, now, gone), AllButLast(past), ~AllBooked(past)
  PROVE  /\ Walks(Told(past)) /\ NetOf(Told(past)) # 0
         /\ NetOf(past) # 0 => RowsOf(past) = RowsOf(Told(past))
         /\ NetOf(past) = 0 => WithLapsed(Told(past)) = past
<1>1. past \in Seq(JFill) /\ Lives(past)
  BY DEF LifeTells, Lives
<1>2. PICK k \in Nat : k = Len(past) /\ DOMAIN past = 1..k
  BY <1>1, Indices
<1>3. PICK n \in 1..k : ~past[n].booked
  BY <1>2 DEF AllBooked
<1>4. n = k
  BY <1>2, <1>3 DEF AllButLast
<1>5. k \in 1..Len(past) /\ k - 1 \in 0..Len(past) /\ k \in DOMAIN past
  BY <1>2, <1>3, <1>4
<1>6. PICK front : front = FirstOf(past, k - 1) /\ front = Told(past)
  BY <1>2 DEF Told
<1>7. PICK e \in JFill : e = past[k]
  BY <1>1, <1>5, ElementOfSeq
<1>8. past = Append(front, e)
  <2>1. FirstOf(past, k) = Append(FirstOf(past, k - 1), past[k])
    BY ONLY <1>1, <1>5, FirstNext
  <2>2. FirstOf(past, k) = past
    BY ONLY <1>1, <1>2, FirstAll
  <2>3. QED
    BY ONLY <1>6, <1>7, <2>1, <2>2
<1>9. Walks(front)
  BY <1>1, <1>5, <1>6, LifeWalks
<1>10. e.order = ActivityId /\ e.price = 0 /\ e.booked = FALSE
  <2>1. ~e.booked /\ ~IsOrder(e) /\ e.price = 0
    BY <1>3, <1>4, <1>5, <1>7 DEF LifeTells
  <2>2. QED
    BY <2>1, JFillIs DEF IsOrder
<1>11. Follows(front, e) /\ Flattens(front, e)
  <2>1. Follows(front, e)
    BY <1>1, <1>5, <1>6, <1>7 DEF Lives
  <2>2. e.order \notin Orders
    BY <1>10 DEF ActivityId, Orders
  <2>3. QED
    BY <2>1, <2>2 DEF Follows
<1>12. PICK net \in Int : net = NetOf(front) /\ net # 0
  BY <1>9, <1>11, WalksIs DEF Flattens
<1>13. NetOf(past) # 0 => RowsOf(past) = RowsOf(front)
  <2>1. WalksOn(front, e, Append(front, e))
    BY <1>9, <1>11, WalksMore
  <2>2. e.order \notin Orders
    BY <1>10 DEF ActivityId, Orders
  <2>3. QED
    BY ONLY <1>8, <2>1, <2>2 DEF WalksOn
<1>14. ASSUME NetOf(past) = 0
       PROVE  WithLapsed(front) = past
  <2>1. NetOf(Append(front, e)) = NetOf(front) + SignOf(e)
    BY <1>9, AnyWalkedMore DEF Walks
  <2>2. PICK q \in Nat : q = e.qty
    BY JFillIs
  <2>3. 0 = net + SignOf(e)
    BY <1>8, <1>12, <1>14, <2>1
  <2>4. e.side = Flattening(net)
    BY <1>11, <1>12 DEF Flattens
  <2>5. SignOf(e) = IF net < 0 THEN q ELSE -q
    BY <1>12, <2>2, <2>4 DEF SignOf, Flattening
  <2>6. q = SizeOf(net)
    BY <1>12, <2>2, <2>3, <2>5 DEF SizeOf
  <2>7. e = [order |-> e.order, side |-> e.side, qty |-> e.qty, price |-> e.price, booked |-> e.booked]
    BY DEF JFill
  <2>8. e = LapsedFill(net)
    BY ONLY <1>10, <2>2, <2>4, <2>6, <2>7 DEF LapsedFill
  <2>9. WithLapsed(front) = Append(front, LapsedFill(net))
    BY <1>9, <1>12, LapsedIs
  <2>10. QED
    BY ONLY <1>8, <2>8, <2>9
<1>15. QED
  BY <1>6, <1>9, <1>12, <1>13, <1>14

\* Whether the contract still counts as held, or lapsed, or could not be told.
LEMMA PositionsRead ==
  ASSUME NEW past, NEW now, NEW gone, LifeTells(past, now, gone),
         NEW old, NEW v, SyncTells(v, past, now, gone, old), v.at = "positions",
         NEW held, held = (v.life = now.resets /\ NetOf(past) # 0),
         NEW lapsed, lapsed = (v.life \in gone /\ NetOf(v.fills) # 0 /\ ~held),
         NEW fills, NEW whole,
         \/ fills = (IF lapsed THEN WithLapsed(v.fills) ELSE v.fills) /\ whole = v.whole
         \/ lapsed /\ fills = v.fills /\ whole = FALSE,
         NEW w, w = [at |-> "upsert", whole |-> whole, life |-> v.life, rows |-> RowsOf(fills)]
  PROVE  SyncTells(w, past, now, gone, old)
<1>1. IdsTell(v, past, now, old) /\ PositionsTell(v, past, now)
  BY DEF SyncTells, IdleSync
<1>2. /\ Walks(v.fills)
      /\ v.whole /\ FitsIn(past) /\ AllButLast(past) => v.fills = Told(past)
      /\ Simple(v, past, now) => RowsOf(v.fills) \subseteq RowsOf(past)
  BY <1>1 DEF PositionsTell
<1>3. whole \in BOOLEAN /\ (whole => v.whole) /\ (v.whole => v.life = now.resets)
  BY <1>1 DEF IdsTell
<1>4. Walks(fills) /\ OrdersOf(fills) = OrdersOf(v.fills)
  BY <1>2, LapsedWalks
<1>5. PICK rows : rows = RowsOf(fills)
  OBVIOUS
<1>6. w = [at |-> "upsert", whole |-> whole, life |-> v.life, rows |-> rows]
  BY <1>5
<1>7. w.at = "upsert" /\ w.whole = whole /\ w.life = v.life /\ w.rows = rows /\ Shape(w)
  BY <1>6 DEF Shape
<1>8. NamesOf(v) = OrdersOf(v.fills) /\ NamesOf(w) = {r.id[1] : r \in rows}
  BY <1>7 DEF NamesOf
<1>9. NamesOf(w) \subseteq NamesOf(v)
  BY <1>4, <1>5, <1>8, RowIds
<1>10. IdsTell(w, past, now, old)
  BY <1>1, <1>3, <1>7, <1>9 DEF IdsTell
<1>11. ASSUME whole, FitsIn(past), AllButLast(past), Complete(past, now, gone)
       PROVE  rows = RowsOf(past)
  <2>1. v.whole /\ v.life = now.resets /\ v.fills = Told(past)
    BY <1>2, <1>3, <1>11
  <2>2. fills = (IF lapsed THEN WithLapsed(v.fills) ELSE v.fills)
    BY <1>11
  <2>3. CASE AllBooked(past)
    <3>1. v.fills = past
      BY <2>1, <2>3 DEF Told
    <3>2. ~lapsed
      BY <2>1, <3>1
    <3>3. QED
      BY <1>5, <2>2, <3>1, <3>2
  <2>4. CASE ~AllBooked(past) /\ NetOf(past) # 0
    <3>1. ~lapsed
      BY <2>1, <2>4
    <3>2. RowsOf(past) = RowsOf(Told(past))
      BY <1>11, <2>4, LastIsLapsed
    <3>3. QED
      BY <1>5, <2>1, <2>2, <3>1, <3>2
  <2>5. CASE ~AllBooked(past) /\ NetOf(past) = 0
    <3>1. NetOf(Told(past)) # 0 /\ WithLapsed(Told(past)) = past
      BY <1>11, <2>5, LastIsLapsed
    <3>2. now.resets \in gone
      BY <1>11, <2>5 DEF Complete
    <3>3. lapsed
      <4>1. NetOf(v.fills) # 0 /\ v.life \in gone
        BY ONLY <2>1, <3>1, <3>2
      <4>2. ~held
        BY <2>5
      <4>3. QED
        BY <4>1, <4>2
    <3>4. QED
      BY <1>5, <2>1, <2>2, <3>1, <3>3
  <2>6. QED
    BY <2>3, <2>4, <2>5
<1>12. ASSUME Simple(w, past, now)
       PROVE  rows \subseteq RowsOf(past)
  <2>1. Simple(v, past, now) /\ v.life = now.resets /\ OrdersOnly(past)
    BY <1>7, <1>12 DEF Simple
  <2>2. ~lapsed
    BY <2>1 DEF LifeTells
  <2>3. fills = v.fills
    BY <2>2
  <2>4. QED
    BY <1>2, <1>5, <2>1, <2>3
<1>13. UpsertTells(w, past, now, gone)
  BY <1>7, <1>11, <1>12 DEF UpsertTells
<1>14. QED
  BY <1>7, <1>10, <1>13 DEF SyncTells

-----------------------------------------------------------------------------
(* A sync writes.                                                          *)

\* The rows of was, written over by rows.
WrittenOver(was, rows) == {r \in was : \A x \in rows : r.id # x.id} \cup rows

\* Rows of other lives, and of trips this sync does not have, stay.
LEMMA Written ==
  ASSUME NEW past, NEW now, NEW gone, NEW old, NEW v, SyncTells(v, past, now, gone, old), v.at = "upsert",
         NEW rows, NEW was, RecordTells(rows, past, now, old, was),
         NEW more, more = WrittenOver(rows, v.rows)
  PROVE  /\ RecordTells(more, past, now, old, FALSE)
         /\ v.whole /\ AllButLast(past) /\ Complete(past, now, gone) /\ FitsIn(past) => RowsOf(past) \subseteq more
<1>0. more = {r \in rows : \A x \in v.rows : r.id # x.id} \cup v.rows
  BY DEF WrittenOver
<1>1. IdsTell(v, past, now, old) /\ UpsertTells(v, past, now, gone)
  BY DEF SyncTells, IdleSync
<1>2. NamesOf(v) = {x.id[1] : x \in v.rows}
  BY DEF NamesOf
<1>3. /\ \A x \in v.rows : x.id[1] \in 1..now.events
      /\ \A r \in old, x \in v.rows : r.id # x.id
      /\ v.life # now.resets => \A x \in v.rows : x.id[1] \notin OrdersOf(past)
  BY <1>1, <1>2 DEF IdsTell
<1>4. old \subseteq more
  BY <1>0, <1>3 DEF RecordTells
<1>5. \A r \in more : r.id[1] \in 1..now.events
  BY <1>0, <1>3 DEF RecordTells
<1>6. v.whole /\ AllButLast(past) /\ Complete(past, now, gone) /\ FitsIn(past) => RowsOf(past) \subseteq more
  BY <1>0, <1>1 DEF UpsertTells
<1>7. ASSUME FitsIn(past), OrdersOnly(past), NEW r \in more, r.id[1] \in OrdersOf(past)
      PROVE  r \in RowsOf(past)
  <2>1. CASE r \in rows
    BY <1>7, <2>1 DEF RecordTells
  <2>2. CASE r \in v.rows
    <3>1. v.life = now.resets
      BY <1>3, <1>7, <2>2
    <3>2. Simple(v, past, now)
      BY <1>7, <3>1 DEF Simple
    <3>3. QED
      BY <1>1, <2>2, <3>2 DEF UpsertTells
  <2>3. QED
    BY <1>0, <1>7, <2>1, <2>2
<1>8. \A r \in old : r.id[1] \notin OrdersOf(past)
  BY DEF RecordTells
<1>9. QED
  BY <1>4, <1>5, <1>6, <1>7, <1>8 DEF RecordTells

\* Past the expiry no more can be completed than before.
LEMMA ExpiryPassed ==
  ASSUME NEW past, NEW now, NEW gone, LifeTells(past, now, gone), NetOf(past) # 0,
         NEW more, more = gone \cup {now.resets}
  PROVE  /\ LifeTells(past, now, more)
         /\ \A old, v : SyncTells(v, past, now, gone, old) => SyncTells(v, past, now, more, old)
<1>1. LifeTells(past, now, more)
  <2>1. \A x \in more : x \in Nat /\ x <= now.resets
    BY DEF LifeTells
  <2>2. QED
    BY <2>1 DEF LifeTells
<1>2. Complete(past, now, gone)
  BY DEF Complete
<1>3. ASSUME NEW old, NEW v, SyncTells(v, past, now, gone, old)
      PROVE  SyncTells(v, past, now, more, old)
  <2>1. UpsertTells(v, past, now, gone) => UpsertTells(v, past, now, more)
    BY <1>2 DEF UpsertTells
  <2>2. QED
    BY <1>3, <2>1 DEF SyncTells
<1>4. QED
  BY <1>1, <1>3

-----------------------------------------------------------------------------
(* The invariant.                                                          *)

LEMMA JournalInvAtFirst ==
  ASSUME JournalInit
  PROVE  JournalInv
<1>1. /\ life = <<>> /\ tally = [resets |-> 0, events |-> 0] /\ expired = {}
      /\ sync = [s \in Syncs |-> IdleSync] /\ journal = {} /\ kept = {}
  BY DEF JournalInit
<1>2. PICK none : none = <<>> /\ OrdersOf(none) = {} /\ RowsOf(none) = {} /\ Lives(none) /\ DOMAIN none = {}
  <2>1. DOMAIN <<>> = {}
    OBVIOUS
  <2>2. Lives(<<>>)
    BY <2>1, EmptySeq DEF Lives
  <2>3. OrdersOf(<<>>) = {}
    BY <2>1 DEF OrdersOf
  <2>4. RowsOf(<<>>) = {}
    BY WalksNothing
  <2>5. QED
    BY <2>1, <2>2, <2>3, <2>4
<1>3. tally \in [resets : Nat, events : 0..MaxEvents]
  <2>1. MaxEvents \in Nat
    BY JournalAssumption, PairingAssumption
  <2>2. QED
    BY <1>1, <2>1
<1>4. life = none
  BY <1>1, <1>2
<1>5. LifeTells(life, tally, expired)
  BY ONLY <1>1, <1>2, <1>3, <1>4 DEF LifeTells
<1>6. \A s \in Syncs : SyncTells(sync[s], life, tally, expired, kept)
  BY <1>1 DEF SyncTells
<1>7. RecordTells(journal, life, tally, kept, inSync)
  BY ONLY <1>1, <1>2, <1>4 DEF RecordTells
<1>8. sync = [s \in Syncs |-> sync[s]]
  BY <1>1
<1>9. QED
  BY ONLY <1>5, <1>6, <1>7, <1>8 DEF JournalInv

\* A step that no sync under way saw.
LEMMA UnseenIs ==
  ASSUME Unseen
  PROVE  /\ sync' = [s \in Syncs |-> sync'[s]] /\ inSync' = FALSE
         /\ \A s \in Syncs : sync'[s] = Blind(sync[s])
<1>1. sync' = [s \in Syncs |-> Blind(sync[s])] /\ inSync' = FALSE
  BY DEF Unseen, Blind
<1>2. QED
  BY ONLY <1>1

LEMMA EventKeepsInv ==
  ASSUME JournalInv, NEW e, Happened(life, e, life', tally, tally'),
         tally.resets \notin expired \/ ~IsOrder(e),
         Unseen, UNCHANGED <<expired, journal, kept>>
  PROVE  JournalInv'
<1>1. /\ LifeTells(life, tally, expired) /\ RecordTells(journal, life, tally, kept, inSync)
      /\ \A s \in Syncs : SyncTells(sync[s], life, tally, expired, kept)
  BY DEF JournalInv
<1>2. PICK more : more = life'
  OBVIOUS
<1>3. PICK next : next = tally'
  OBVIOUS
<1>4. /\ LifeTells(more, next, expired) /\ Later(life, more, tally, next)
      /\ tally.resets \in Nat /\ tally.events \in Nat /\ next.events \in Nat
      /\ life \in Seq(JFill) /\ more \in Seq(JFill)
  <2>1. Happened(life, e, more, tally, next)
    BY <1>2, <1>3
  <2>2. LifeTells(more, next, expired)
    BY <1>1, <2>1, LifeHappens
  <2>3. Later(life, more, tally, next)
    BY <1>1, <2>1, HappenedLater
  <2>4. /\ tally.resets \in Nat /\ tally.events \in Nat /\ next.events \in 0..MaxEvents
        /\ life \in Seq(JFill) /\ more \in Seq(JFill)
    BY ONLY <1>1, <2>1, HappenedIs
  <2>5. QED
    BY <2>2, <2>3, <2>4
<1>5. \A s \in Syncs : SyncTells(Blind(sync[s]), more, next, expired, kept)
  <2>1. SUFFICES ASSUME NEW s \in Syncs
                 PROVE  SyncTells(Blind(sync[s]), more, next, expired, kept)
    OBVIOUS
  <2>2. SyncTells(sync[s], life, tally, expired, kept)
    BY <1>1
  <2>3. QED
    BY ONLY <1>4, <2>2, SyncLater
<1>6. RecordTells(journal, more, next, kept, FALSE)
  BY ONLY <1>1, <1>4, RecordLater
<1>7. /\ sync' = [s \in Syncs |-> sync'[s]] /\ inSync' = FALSE
      /\ \A s \in Syncs : sync'[s] = Blind(sync[s])
  BY UnseenIs
<1>8. expired' = expired /\ journal' = journal /\ kept' = kept
  OBVIOUS
<1>9. QED
  BY ONLY <1>2, <1>3, <1>4, <1>5, <1>6, <1>7, <1>8 DEF JournalInv

\* What Happens adds.
LEMMA HappensIs ==
  ASSUME JournalInv, NEW side \in {"buy", "sell"}, NEW qty \in Nat \ {0}, NEW price \in Nat, NEW order \in Nat,
         Happens(side, qty, price, order),
         \/ order = tally.events + 1 /\ tally.resets \notin expired
         \/ /\ order = ActivityId /\ price = 0
            /\ NetOf(life) # 0 /\ side = Flattening(NetOf(life)) /\ qty <= SizeOf(NetOf(life))
  PROVE  JournalInv'
<1>1. PICK booked \in BOOLEAN : booked = (order # ActivityId)
  OBVIOUS
<1>2. PICK e : e = [order |-> order, side |-> side, qty |-> qty, price |-> price, booked |-> booked]
  OBVIOUS
<1>3. e \in JFill /\ e.order = order /\ e.side = side /\ e.qty = qty /\ e.price = price /\ e.booked = booked
  BY <1>2 DEF JFill
<1>4. tally.events \in Nat /\ tally.events < MaxEvents /\ MaxEvents <= MaxFills /\ MaxEvents \in Nat /\ MaxFills \in Nat
  <2>1. LifeTells(life, tally, expired)
    BY DEF JournalInv
  <2>2. tally \in [resets : Nat, events : 0..MaxEvents]
    BY <2>1 DEF LifeTells
  <2>3. MaxEvents \in 0..MaxFills /\ MaxFills \in Nat /\ MaxEvents \in Nat
    BY JournalAssumption, PairingAssumption
  <2>4. QED
    BY <2>2, <2>3 DEF Happens
<1>5. Follows(life, e)
  <2>1. CASE order = tally.events + 1
    <3>1. order \in Orders
      BY <1>4, <2>1 DEF Orders
    <3>2. QED
      BY <1>3, <3>1 DEF Follows
  <2>2. CASE /\ order = ActivityId
             /\ NetOf(life) # 0 /\ side = Flattening(NetOf(life)) /\ qty <= SizeOf(NetOf(life))
    BY ONLY <1>3, <2>2 DEF Follows, Flattens
  <2>3. QED
    BY <2>1, <2>2
<1>6. life' = Append(life, e) /\ tally' = [tally EXCEPT !.events = @ + 1]
  BY <1>1, <1>2 DEF Happens
<1>7. Happened(life, e, life', tally, tally')
  <2>1. e.order = ActivityId \/ e.order = tally.events + 1
    BY <1>3
  <2>2. (IsOrder(e) => e.booked) /\ (~IsOrder(e) => e.price = 0)
    <3>1. tally.events + 1 # ActivityId
      BY <1>4 DEF ActivityId
    <3>2. QED
      BY <1>1, <1>3, <3>1 DEF IsOrder
  <2>3. QED
    BY ONLY <1>3, <1>4, <1>5, <1>6, <2>1, <2>2 DEF Happened
<1>8. tally.resets \notin expired \/ ~IsOrder(e)
  BY <1>3 DEF IsOrder
<1>9. Unseen /\ UNCHANGED <<expired, journal, kept>>
  BY DEF Happens
<1>10. QED
  BY ONLY JournalInv, <1>7, <1>8, <1>9, EventKeepsInv

LEMMA BrokerKeepsInv ==
  ASSUME JournalInv,
         \/ \E side \in {"buy", "sell"}, qty \in 1..JournalQty : OrderIsFilled(side, qty)
         \/ \E qty \in 1..JournalQty : Assigned(qty)
         \/ IsTakenOff
  PROVE  JournalInv'
<1>1. LifeTells(life, tally, expired)
  BY DEF JournalInv
<1>2. Walks(life) /\ life \in Seq(JFill) /\ tally.events \in Nat
  BY <1>1, LifeWalksAll DEF LifeTells
<1>3. PICK n \in Int : n = NetOf(life)
  BY <1>2, WalkedIn
<1>4. JournalQty \in Nat /\ JournalPrice \in Nat
  BY JournalAssumption
<1>5. ASSUME NEW side \in {"buy", "sell"}, NEW qty \in 1..JournalQty, OrderIsFilled(side, qty)
      PROVE  JournalInv'
  <2>1. PICK order \in Nat : order = tally.events + 1
    BY <1>2
  <2>2. Happens(side, qty, JournalPrice, order) /\ tally.resets \notin expired
    BY <1>5, <2>1 DEF OrderIsFilled
  <2>3. qty \in Nat \ {0}
    BY <1>4
  <2>4. QED
    BY ONLY JournalInv, <1>4, <1>5, <2>1, <2>2, <2>3, HappensIs
<1>6. ASSUME NEW qty \in 1..JournalQty, Assigned(qty)
      PROVE  JournalInv'
  <2>1. Happens("buy", qty, 0, ActivityId) /\ qty <= -n
    BY <1>3, <1>6 DEF Assigned
  <2>2. qty \in Nat \ {0}
    BY <1>4
  <2>3. n # 0 /\ "buy" = Flattening(n) /\ qty <= SizeOf(n)
    BY <1>3, <2>1, <2>2 DEF Flattening, SizeOf
  <2>4. 0 \in Nat /\ ActivityId \in Nat /\ "buy" \in {"buy", "sell"}
    BY DEF ActivityId
  <2>5. QED
    BY ONLY JournalInv, <1>3, <2>1, <2>2, <2>3, <2>4, HappensIs
<1>7. ASSUME IsTakenOff
      PROVE  JournalInv'
  <2>1. Happens(Flattening(n), SizeOf(n), 0, ActivityId) /\ n # 0
    BY <1>3, <1>7 DEF IsTakenOff
  <2>2. SizeOf(n) \in Nat \ {0} /\ SizeOf(n) <= SizeOf(n) /\ Flattening(n) \in {"buy", "sell"}
    BY <1>3, <2>1 DEF SizeOf, Flattening
  <2>3. 0 \in Nat /\ ActivityId \in Nat
    BY DEF ActivityId
  <2>4. QED
    BY ONLY JournalInv, <1>3, <2>1, <2>2, <2>3, HappensIs
<1>8. QED
  BY <1>5, <1>6, <1>7

LEMMA PassesExpiryKeepsInv ==
  ASSUME JournalInv, PassesExpiry
  PROVE  JournalInv'
<1>1. /\ LifeTells(life, tally, expired) /\ RecordTells(journal, life, tally, kept, inSync)
      /\ \A s \in Syncs : SyncTells(sync[s], life, tally, expired, kept)
      /\ sync = [s \in Syncs |-> sync[s]]
  BY DEF JournalInv
<1>2. /\ NetOf(life) # 0 /\ expired' = expired \cup {tally.resets}
      /\ life' = life /\ tally' = tally /\ sync' = sync /\ journal' = journal /\ kept' = kept /\ inSync' = inSync
  BY DEF PassesExpiry
<1>3. PICK more : more = expired'
  OBVIOUS
<1>4. /\ LifeTells(life, tally, more)
      /\ \A old, v : SyncTells(v, life, tally, expired, old) => SyncTells(v, life, tally, more, old)
  BY ONLY <1>1, <1>2, <1>3, ExpiryPassed
<1>5. QED
  BY ONLY <1>1, <1>2, <1>3, <1>4 DEF JournalInv

LEMMA IsBookedKeepsInv ==
  ASSUME JournalInv, NEW n \in DOMAIN life, IsBooked(n)
  PROVE  JournalInv'
<1>1. /\ LifeTells(life, tally, expired) /\ RecordTells(journal, life, tally, kept, inSync)
      /\ \A s \in Syncs : SyncTells(sync[s], life, tally, expired, kept)
  BY DEF JournalInv
<1>2. /\ ~life[n].booked /\ life' = [life EXCEPT ![n].booked = TRUE] /\ Unseen
      /\ tally' = tally /\ expired' = expired /\ journal' = journal /\ kept' = kept
  BY DEF IsBooked
<1>3. PICK more : more = life'
  OBVIOUS
<1>4. LifeTells(more, tally, expired) /\ Later(life, more, tally, tally)
  <2>1. more = [life EXCEPT ![n].booked = TRUE]
    BY <1>2, <1>3
  <2>2. QED
    BY ONLY <1>1, <1>2, <2>1, n \in DOMAIN life, Booked
<1>5. tally.resets \in Nat /\ tally.events \in Nat /\ life \in Seq(JFill) /\ more \in Seq(JFill)
  <2>1. life \in Seq(JFill) /\ tally.resets \in Nat /\ tally.events \in Nat
    BY <1>1 DEF LifeTells, Lives
  <2>2. more \in Seq(JFill)
    BY <1>4 DEF LifeTells, Lives
  <2>3. QED
    BY <2>1, <2>2
<1>6. \A s \in Syncs : SyncTells(Blind(sync[s]), more, tally, expired, kept)
  <2>1. SUFFICES ASSUME NEW s \in Syncs
                 PROVE  SyncTells(Blind(sync[s]), more, tally, expired, kept)
    OBVIOUS
  <2>2. SyncTells(sync[s], life, tally, expired, kept)
    BY <1>1
  <2>3. QED
    BY ONLY <1>4, <1>5, <2>2, SyncLater
<1>7. RecordTells(journal, more, tally, kept, FALSE)
  BY ONLY <1>1, <1>4, <1>5, RecordLater
<1>8. /\ sync' = [s \in Syncs |-> sync'[s]] /\ inSync' = FALSE
      /\ \A s \in Syncs : sync'[s] = Blind(sync[s])
  BY <1>2, UnseenIs
<1>9. QED
  BY ONLY <1>2, <1>3, <1>4, <1>6, <1>7, <1>8 DEF JournalInv

LEMMA ResetsAccountKeepsInv ==
  ASSUME JournalInv, ResetsAccount
  PROVE  JournalInv'
<1>1. /\ LifeTells(life, tally, expired) /\ RecordTells(journal, life, tally, kept, inSync)
      /\ \A s \in Syncs : SyncTells(sync[s], life, tally, expired, kept)
  BY DEF JournalInv
<1>2. /\ life' = <<>> /\ tally' = [tally EXCEPT !.resets = @ + 1] /\ Unseen
      /\ kept' = (IF inSync /\ Fits /\ \A s \in Syncs : sync[s] = IdleSync
                  THEN kept \cup RowsOf(life) ELSE kept)
      /\ expired' = expired /\ journal' = journal
  BY DEF ResetsAccount
<1>3. PICK next : next = tally' /\ next = [tally EXCEPT !.resets = @ + 1]
  BY <1>2
<1>4. PICK old : old = kept'
  OBVIOUS
<1>5. PICK none : none = <<>> /\ none = life'
  BY <1>2
<1>6. LifeTells(none, next, expired) /\ next.events = tally.events
  BY ONLY <1>1, <1>3, <1>5, LifeResets
<1>7. \/ old = kept
      \/ /\ old = kept \cup RowsOf(life) /\ inSync /\ FitsIn(life)
         /\ \A s \in Syncs : sync[s] = IdleSync
  BY <1>2, <1>4 DEF Fits, FitsIn
<1>8. \A s \in Syncs : SyncTells(Blind(sync[s]), none, next, expired, old)
  <2>1. CASE old = kept
    <3>1. SUFFICES ASSUME NEW s \in Syncs
                   PROVE  SyncTells(Blind(sync[s]), none, next, expired, old)
      OBVIOUS
    <3>2. SyncTells(sync[s], life, tally, expired, old)
      BY <1>1, <2>1
    <3>3. QED
      BY ONLY <1>1, <1>3, <1>5, <3>2, SyncResets
  <2>2. CASE \A s \in Syncs : sync[s] = IdleSync
    BY <2>2 DEF SyncTells, Blind
  <2>3. QED
    BY <1>7, <2>1, <2>2
<1>9. RecordTells(journal, none, next, old, FALSE)
  <2>1. old = kept \/ (inSync /\ FitsIn(life) /\ old = kept \cup RowsOf(life))
    BY <1>7
  <2>2. PICK fresh : fresh = inSync
    OBVIOUS
  <2>3. /\ RecordTells(journal, life, tally, kept, fresh)
        /\ old = kept \/ (fresh /\ FitsIn(life) /\ old = kept \cup RowsOf(life))
    BY ONLY <1>1, <2>1, <2>2
  <2>4. RecordTells(journal, <<>>, next, old, FALSE)
    BY ONLY <1>6, <2>3, RecordResets
  <2>5. QED
    BY ONLY <1>5, <2>4
<1>10. /\ sync' = [s \in Syncs |-> sync'[s]] /\ inSync' = FALSE
       /\ \A s \in Syncs : sync'[s] = Blind(sync[s])
  BY <1>2, UnseenIs
<1>11. expired' = expired /\ journal' = journal
  BY <1>2
<1>12. QED
  BY ONLY <1>3, <1>4, <1>5, <1>6, <1>8, <1>9, <1>10, <1>11 DEF JournalInv

\* A step of one sync that writes nothing.
LEMMA SyncKeepsInv ==
  ASSUME JournalInv, NEW s \in Syncs, NEW w, SyncTells(w, life, tally, expired, kept),
         sync' = [sync EXCEPT ![s] = w], UNCHANGED <<life, tally, expired, journal, kept, inSync>>
  PROVE  JournalInv'
<1>1. /\ LifeTells(life, tally, expired) /\ RecordTells(journal, life, tally, kept, inSync)
      /\ \A x \in Syncs : SyncTells(sync[x], life, tally, expired, kept)
      /\ sync = [x \in Syncs |-> sync[x]]
  BY DEF JournalInv
<1>2. /\ life' = life /\ tally' = tally /\ expired' = expired /\ journal' = journal /\ kept' = kept
      /\ inSync' = inSync
  OBVIOUS
<1>3. sync' = [x \in Syncs |-> sync'[x]] /\ \A x \in Syncs : sync'[x] = IF x = s THEN w ELSE sync[x]
  BY <1>1
<1>4. \A x \in Syncs : SyncTells(sync'[x], life, tally, expired, kept)
  BY ONLY <1>1, <1>3, SyncTells(w, life, tally, expired, kept)
<1>5. QED
  BY ONLY <1>1, <1>2, <1>3, <1>4 DEF JournalInv

LEMMA FetchOrdersKeepsInv ==
  ASSUME JournalInv, NEW s \in Syncs, FetchOrders(s)
  PROVE  JournalInv'
<1>1. PICK w : w = [at |-> "activities", whole |-> TRUE, life |-> tally.resets,
                    events |-> life, orders |-> NewestOrders(life)]
  OBVIOUS
<1>2. sync' = [sync EXCEPT ![s] = w] /\ UNCHANGED <<life, tally, expired, journal, kept, inSync>>
  BY <1>1 DEF FetchOrders
<1>3. LifeTells(life, tally, expired) /\ \A r \in kept : r.id[1] \notin OrdersOf(life)
  BY DEF JournalInv, RecordTells
<1>4. SyncTells(w, life, tally, expired, kept)
  BY ONLY <1>1, <1>3, OrdersFetched
<1>5. QED
  BY ONLY JournalInv, <1>2, <1>4, s \in Syncs, SyncKeepsInv

LEMMA FetchActivitiesKeepsInv ==
  ASSUME JournalInv, NEW s \in Syncs, FetchActivities(s)
  PROVE  JournalInv'
<1> DEFINE same == sync[s].life = tally.resets
           fetched == IF same THEN life ELSE sync[s].events
           there == {n \in DOMAIN fetched : same /\ ~IsOrder(fetched[n]) /\ fetched[n].booked}
<1>1. \E got \in {{m \in there : m < n} : n \in 1..(Len(fetched) + 1)} :
        sync' = [sync EXCEPT ![s] = [at |-> "positions", whole |-> sync[s].whole /\ got = there,
                                     life |-> sync[s].life,
                                     fills |-> Fills(fetched, sync[s].orders, got)]]
  BY DEF FetchActivities
<1>2. PICK v : v = sync[s] /\ v.at = "activities"
  BY DEF FetchActivities, SyncAt
<1>3. PICK timeline : timeline = fetched /\ timeline = IF v.life = tally.resets THEN life ELSE v.events
  BY <1>2
<1>4. PICK booked : /\ booked = there
                    /\ booked = {n \in DOMAIN timeline : /\ v.life = tally.resets
                                                         /\ ~IsOrder(timeline[n]) /\ timeline[n].booked}
  <2>1. same <=> v.life = tally.resets
    BY <1>2
  <2> HIDE DEF same, fetched
  <2>2. QED
    BY ONLY <1>3, <2>1 DEF there
<1> HIDE DEF same, fetched, there
<1>5. PICK got : /\ got \subseteq booked
                 /\ sync' = [sync EXCEPT ![s] = [at |-> "positions", whole |-> v.whole /\ got = booked,
                                                 life |-> v.life, fills |-> Fills(timeline, v.orders, got)]]
  BY ONLY <1>1, <1>2, <1>3, <1>4
<1>6. PICK all : all = (v.whole /\ got = booked)
  OBVIOUS
<1>7. PICK w : w = [at |-> "positions", whole |-> all, life |-> v.life, fills |-> Fills(timeline, v.orders, got)]
  OBVIOUS
<1>8. sync' = [sync EXCEPT ![s] = w] /\ UNCHANGED <<life, tally, expired, journal, kept, inSync>>
  BY <1>5, <1>6, <1>7 DEF FetchActivities
<1>9. LifeTells(life, tally, expired) /\ SyncTells(v, life, tally, expired, kept)
  BY <1>2 DEF JournalInv
<1>10. SyncTells(w, life, tally, expired, kept)
  <2>1. Reaches(v, life, tally, timeline, booked)
    BY ONLY <1>3, <1>4 DEF Reaches
  <2>2. got \subseteq booked
    BY ONLY <1>5
  <2>3. v.at = "activities"
    BY ONLY <1>2
  <2>4. QED
    BY ONLY <1>6, <1>7, <1>9, <2>1, <2>2, <2>3, ActivitiesFetched
<1>11. QED
  BY ONLY JournalInv, <1>8, <1>10, s \in Syncs, SyncKeepsInv

LEMMA ReadPositionsKeepsInv ==
  ASSUME JournalInv, NEW s \in Syncs, ReadPositions(s)
  PROVE  JournalInv'
<1>1. PICK v : v = sync[s] /\ v.at = "positions"
  BY DEF ReadPositions, SyncAt
<1>2. PICK held : held = (v.life = tally.resets /\ NetOf(life) # 0)
  OBVIOUS
<1>3. PICK lapsed : lapsed = (v.life \in expired /\ NetOf(v.fills) # 0 /\ ~held)
  OBVIOUS
<1>4. \E fills, whole :
        /\ \/ fills = (IF lapsed THEN WithLapsed(v.fills) ELSE v.fills) /\ whole = v.whole
           \/ lapsed /\ fills = v.fills /\ whole = FALSE
        /\ Closed(s, fills, whole)
  BY <1>1, <1>2, <1>3 DEF ReadPositions
<1>5. PICK fills, whole :
        /\ \/ fills = (IF lapsed THEN WithLapsed(v.fills) ELSE v.fills) /\ whole = v.whole
           \/ lapsed /\ fills = v.fills /\ whole = FALSE
        /\ Closed(s, fills, whole)
  BY <1>4
<1>6. PICK w : w = [at |-> "upsert", whole |-> whole, life |-> v.life, rows |-> RowsOf(fills)]
  OBVIOUS
<1>7. sync' = [sync EXCEPT ![s] = w] /\ UNCHANGED <<life, tally, expired, journal, kept, inSync>>
  BY <1>1, <1>5, <1>6 DEF ReadPositions, Closed
<1>8. LifeTells(life, tally, expired) /\ SyncTells(v, life, tally, expired, kept)
  BY <1>1 DEF JournalInv
<1>9. SyncTells(w, life, tally, expired, kept)
  BY ONLY <1>1, <1>2, <1>3, <1>5, <1>6, <1>8, PositionsRead
<1>10. QED
  BY ONLY JournalInv, <1>7, <1>9, s \in Syncs, SyncKeepsInv

LEMMA UpsertKeepsInv ==
  ASSUME JournalInv, NEW s \in Syncs, Upsert(s)
  PROVE  JournalInv'
<1>1. PICK v : v = sync[s] /\ v.at = "upsert"
  BY DEF Upsert, SyncAt
<1>2. /\ LifeTells(life, tally, expired) /\ RecordTells(journal, life, tally, kept, inSync)
      /\ \A x \in Syncs : SyncTells(sync[x], life, tally, expired, kept)
      /\ sync = [x \in Syncs |-> sync[x]]
  BY DEF JournalInv
<1>3. /\ sync' = [sync EXCEPT ![s] = IdleSync]
      /\ life' = life /\ tally' = tally /\ expired' = expired /\ kept' = kept
  BY DEF Upsert
<1>4. PICK fresh : fresh = inSync'
  OBVIOUS
<1>5. PICK more : more = journal'
  OBVIOUS
<1>6. fresh => v.whole /\ Accounted
  BY <1>1, <1>4 DEF Upsert
<1>7. Accounted => AllButLast(life) /\ Complete(life, tally, expired)
  <2>1. PICK k \in Nat : k = Len(life) /\ DOMAIN life = 1..k
    BY <1>2, Indices DEF LifeTells, Lives
  <2>2. QED
    BY <2>1 DEF Accounted, AllButLast, AllBooked, Complete
<1>8. more = {r \in journal : \A x \in v.rows : r.id # x.id} \cup v.rows
  BY <1>1, <1>5 DEF Upsert, Upserted
<1>9. SyncTells(v, life, tally, expired, kept)
  BY <1>1, <1>2
<1>10. RecordTells(more, life, tally, kept, fresh)
  <2>1. fresh => v.whole /\ AllButLast(life) /\ Complete(life, tally, expired)
    BY <1>6, <1>7
  <2>2. PICK was : was = inSync
    OBVIOUS
  <2>3. RecordTells(journal, life, tally, kept, was)
    BY <1>2, <2>2
  <2>4. more = WrittenOver(journal, v.rows)
    BY ONLY <1>8 DEF WrittenOver
  <2>5. /\ RecordTells(more, life, tally, kept, FALSE)
        /\ v.whole /\ AllButLast(life) /\ Complete(life, tally, expired) /\ FitsIn(life)
           => RowsOf(life) \subseteq more
    BY ONLY <1>1, <1>9, <2>3, <2>4, Written
  <2>6. QED
    BY ONLY <2>1, <2>5 DEF RecordTells
<1>11. \A x \in Syncs : SyncTells(sync'[x], life, tally, expired, kept)
  <2>1. \A x \in Syncs : sync'[x] = IF x = s THEN IdleSync ELSE sync[x]
    BY <1>2, <1>3
  <2>2. QED
    BY <1>2, <2>1 DEF SyncTells
<1>12. sync' = [x \in Syncs |-> sync'[x]]
  BY <1>2, <1>3
<1>13. QED
  BY ONLY <1>2, <1>3, <1>4, <1>5, <1>10, <1>11, <1>12 DEF JournalInv

\* Every step of the broker and of the syncs keeps the invariant.
LEMMA JournalInvKept ==
  ASSUME JournalInv, [JournalNext]_journalVars
  PROVE  JournalInv'
<1>1. ASSUME \/ \E side \in {"buy", "sell"}, qty \in 1..JournalQty : OrderIsFilled(side, qty)
             \/ \E qty \in 1..JournalQty : Assigned(qty)
             \/ IsTakenOff
      PROVE  JournalInv'
  BY ONLY JournalInv, <1>1, BrokerKeepsInv
<1>2. ASSUME PassesExpiry
      PROVE  JournalInv'
  BY ONLY JournalInv, <1>2, PassesExpiryKeepsInv
<1>3. ASSUME ResetsAccount
      PROVE  JournalInv'
  BY ONLY JournalInv, <1>3, ResetsAccountKeepsInv
<1>4. ASSUME NEW n \in DOMAIN life, IsBooked(n)
      PROVE  JournalInv'
  BY ONLY JournalInv, <1>4, IsBookedKeepsInv
<1>5. ASSUME NEW s \in Syncs, FetchOrders(s) \/ FetchActivities(s) \/ ReadPositions(s) \/ Upsert(s)
      PROVE  JournalInv'
  <2>1. CASE FetchOrders(s)
    BY ONLY JournalInv, s \in Syncs, <2>1, FetchOrdersKeepsInv
  <2>2. CASE FetchActivities(s)
    BY ONLY JournalInv, s \in Syncs, <2>2, FetchActivitiesKeepsInv
  <2>3. CASE ReadPositions(s)
    BY ONLY JournalInv, s \in Syncs, <2>3, ReadPositionsKeepsInv
  <2>4. CASE Upsert(s)
    BY ONLY JournalInv, s \in Syncs, <2>4, UpsertKeepsInv
  <2>5. QED
    BY ONLY <1>5, <2>1, <2>2, <2>3, <2>4
<1>6. CASE UNCHANGED journalVars
  <2>1. /\ life' = life /\ tally' = tally /\ expired' = expired /\ sync' = sync
        /\ journal' = journal /\ kept' = kept /\ inSync' = inSync
    BY <1>6 DEF journalVars
  <2>2. QED
    BY ONLY JournalInv, <2>1 DEF JournalInv
<1>7. QED
  BY ONLY [JournalNext]_journalVars, <1>1, <1>2, <1>3, <1>4, <1>5, <1>6 DEF JournalNext

LEMMA InvIsTheRecord ==
  ASSUME JournalInv
  PROVE  JournalIsTheRecord
<1>1. LifeTells(life, tally, expired) /\ RecordTells(journal, life, tally, kept, inSync)
  BY DEF JournalInv
<1>2. (Fits <=> FitsIn(life)) /\ (NothingButOrders <=> OrdersOnly(life))
  BY DEF Fits, FitsIn, NothingButOrders, OrdersOnly
<1>3. RowsHere = {r \in journal : r.id[1] \in OrdersOf(life)}
  BY DEF RowsHere, OrdersOf, IsOrder
<1>4. \A r \in RowsOf(life) : r.id[1] \in OrdersOf(life)
  BY <1>1, LifeWalksAll, RowIds DEF LifeTells
<1>5. QED
  BY ONLY <1>1, <1>2, <1>3, <1>4 DEF RecordTells, JournalIsTheRecord

-----------------------------------------------------------------------------
\* "The store is the record" (sync_trades), for any number of events, of syncs
\* that overlap and of account resets: once a sync has seen everything and none
\* that began earlier is still to write, every round trip that closed is a row
\* with the right side, size and profit, however late the broker booked an
\* assignment or the expiry; of orders alone there is no row that is not a trip;
\* and the rows of an account that was reset stay.
THEOREM RecordIsComplete == JournalSpec => []JournalIsTheRecord
<1>1. JournalInit => JournalInv
  BY JournalInvAtFirst
<1>2. JournalInv /\ [JournalNext]_journalVars => JournalInv'
  BY JournalInvKept
<1>3. JournalInv => JournalIsTheRecord
  BY InvIsTheRecord
<1>4. QED
  BY <1>1, <1>2, <1>3, PTL DEF JournalSpec
=============================================================================

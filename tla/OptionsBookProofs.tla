------------------------- MODULE OptionsBookProofs --------------------------
(***************************************************************************)
(* Theorems about OptionsBook, for every set of contracts, tickets, prices *)
(* and bounds: the books keep their types, settlement keeps the equity, no *)
(* share is called away that is not there, and what rests to close a       *)
(* contract is never more than is held of it.                              *)
(***************************************************************************)
EXTENDS OptionsBook, SumLemmas, TLAPS

\* What is assumed of the constants, in one formula.
Assumptions ==
  /\ Contracts \subseteq Contract
  /\ Multiplier \in Nat \ {0}
  /\ Spots \subseteq Nat
  /\ Nets \subseteq Int
  /\ PackageTickets \subseteq [legs : [Contracts -> Int], strategy : Strategies]
  /\ ShareCounts \subseteq Int /\ OptionsStartingCash \in Int
  /\ MaxQty \in Nat /\ MaxRatio \in Nat

\* The assumptions OptionsBook names come to that.
LEMMA AssumptionsHold == Assumptions
  BY ContractsAssumption, MultiplierAssumption, QuotesAssumption, TicketsAssumption,
     AccountAssumption, BoundsAssumption DEF Assumptions

\* A fill moves positions and cash by integers and changes no row but its own,
\* of which it changes the status.
LEMMA FillTypes ==
  ASSUME Assumptions, OptionsTypeOK, NEW rows \in Seq(Package), NEW i \in DOMAIN rows,
         NEW net \in Nets, Fill(rows, i, net)
  PROVE  /\ held' \in [Contracts -> Int]
         /\ orders' \in Seq(Package)
         /\ cash' \in Int
<1>1. rows[i] \in Package
  OBVIOUS
<1>2. rows[i].qty \in Int /\ rows[i].legs \in [Contracts -> Int]
  BY <1>1 DEF Assumptions, Package
<1>3. held' \in [Contracts -> Int]
  BY <1>2 DEF Fill, OptionsTypeOK
<1>4. [rows[i] EXCEPT !.status = "filled"] \in Package
  BY <1>1 DEF Package
<1>5. orders' \in Seq(Package)
  BY <1>4 DEF Fill
<1>6. Multiplier * rows[i].qty * net \in Int
  BY <1>2 DEF Assumptions
<1>7. cash' \in Int
  BY <1>6 DEF Fill, OptionsTypeOK
<1> QED BY <1>3, <1>5, <1>7

\* Submitting a package keeps the types, whether it fills or rests.
LEMMA PlaceTypes ==
  ASSUME Assumptions, OptionsTypeOK, NEW legs \in [Contracts -> Int], NEW closes \in SUBSET Contracts,
         NEW qty \in 1..MaxQty, NEW lim \in Limits \cup {NoLimit},
         Place(legs, closes, qty, lim)
  PROVE  OptionsTypeOK'
<1> DEFINE p == [legs |-> legs, closes |-> closes, qty |-> qty, limit |-> lim, status |-> "new"]
           rows == Append(orders, p)
<1>1. p \in Package
  BY DEF Package
<1>2. rows \in Seq(Package) /\ Len(rows) \in DOMAIN rows
  BY <1>1 DEF OptionsTypeOK
<1>3. UNCHANGED <<shares, spot, day, settling, trades>>
  BY DEF Place
<1>4. PICK net \in Nets \cup {NoPrice} :
        IF LimitAllows(p, net) THEN Fill(rows, Len(rows), net)
                               ELSE orders' = rows /\ UNCHANGED <<held, cash>>
  BY DEF Place
<1>5. /\ held' \in [Contracts -> Int]
      /\ orders' \in Seq(Package)
      /\ cash' \in Int
  <2>1. CASE LimitAllows(p, net)
    <3>1. net \in Nets /\ Fill(rows, Len(rows), net)
      BY <1>4, <2>1 DEF LimitAllows
    <3> HIDE DEF rows
    <3> QED BY <3>1, <1>2, FillTypes
  <2>2. CASE ~LimitAllows(p, net)
    <3>1. orders' = rows /\ UNCHANGED <<held, cash>>
      BY <1>4, <2>2
    <3> QED BY <3>1, <1>2 DEF OptionsTypeOK
  <2> QED BY <2>1, <2>2
<1> QED BY <1>3, <1>5 DEF OptionsTypeOK

\* The legs of a close are a package of the contracts held.
LEMMA ClosingLegsTypes ==
  ASSUME Assumptions, OptionsTypeOK, NEW ratio \in HeldRatios
  PROVE  DOMAIN ratio \subseteq Contracts /\ ClosingLegs(ratio) \in [Contracts -> Int]
<1>1. PICK S \in SUBSET Contracts : ratio \in [S -> 1..MaxRatio]
  BY DEF HeldRatios
<1>2. \A c \in S : ratio[c] \in Int
  BY <1>1 DEF Assumptions
<1> QED BY <1>1, <1>2 DEF ClosingLegs, OptionsTypeOK

\* How a position of n contracts settles, in whole contracts.
LEMMA SettlementTypes ==
  ASSUME Assumptions, OptionsTypeOK, NEW c \in Contracts, NEW n \in Int
  PROVE  /\ Intrinsic(c) \in Nat /\ c.strike \in Nat
         /\ Assigned(c, n) \in Nat
         /\ CalledAway(c, n) \in Nat
         /\ CashSettled(c, n) = n + Assigned(c, n) + CalledAway(c, n)
<1>1. c \in Contract /\ spot \in Nat
  BY DEF Assumptions, OptionsTypeOK
<1>2. c.strike \in Nat
  BY <1>1 DEF Contract
<1>3. Intrinsic(c) \in Nat
  BY <1>1, <1>2 DEF Intrinsic, Positive
<1>4. Positive(shares) \div Multiplier \in Nat
  BY DEF Assumptions, OptionsTypeOK, Positive
<1>5. Assigned(c, n) \in Nat /\ CalledAway(c, n) \in Nat
  BY <1>3, <1>4 DEF Assigned, CalledAway, Least
<1> QED BY <1>2, <1>3, <1>5 DEF CashSettled

\* A settlement moves whole positions, shares and cash by integers.
LEMMA SettleNextTypes ==
  ASSUME Assumptions, OptionsTypeOK, SettleNext
  PROVE  OptionsTypeOK'
<1>1. PICK c \in settling :
        /\ Settle(c, held[c])
        /\ settling' = settling \ {c}
  BY DEF SettleNext
<1>2. c \in Contracts /\ held[c] \in Int
  BY DEF OptionsTypeOK
<1> DEFINE n == held[c]
<1>3. /\ Intrinsic(c) \in Int /\ c.strike \in Int /\ Assigned(c, n) \in Int
      /\ CalledAway(c, n) \in Int /\ CashSettled(c, n) \in Int
  BY <1>2, SettlementTypes
<1>4. Multiplier \in Int
  BY DEF Assumptions
<1>5. held' \in [Contracts -> Int]
  BY <1>1, <1>2 DEF Settle, OptionsTypeOK
<1>6. Multiplier * (Assigned(c, n) - CalledAway(c, n)) \in Int
  BY <1>3, <1>4
<1>7. Multiplier * (CashSettled(c, n) * Intrinsic(c) + c.strike * (CalledAway(c, n) - Assigned(c, n))) \in Int
  BY <1>3, <1>4
<1>8. shares' \in Int /\ cash' \in Int
  BY <1>1, <1>6, <1>7 DEF Settle, OptionsTypeOK
<1>9. UNCHANGED <<orders, spot, day, trades>>
  BY DEF SettleNext
<1> QED BY <1>1, <1>5, <1>8, <1>9 DEF OptionsTypeOK

\* Every handler keeps the types of the books.
LEMMA StepTypes ==
  ASSUME Assumptions, OptionsTypeOK, [OptionsNext]_optionVars
  PROVE  OptionsTypeOK'
<1>1. CASE SubmitPackage
  <2>1. PICK t \in PackageTickets, qty \in 1..MaxQty, lim \in Limits \cup {NoLimit} :
          Place(t.legs, {}, qty, lim)
    BY <1>1 DEF SubmitPackage
  <2>2. t.legs \in [Contracts -> Int]
    BY DEF Assumptions
  <2> QED BY <2>1, <2>2, PlaceTypes
<1>2. CASE CloseSpread
  <2>1. PICK ratio \in HeldRatios, qty \in 1..MaxQty, lim \in Limits \cup {NoLimit} :
          Place(ClosingLegs(ratio), DOMAIN ratio, qty, lim)
    BY <1>2 DEF CloseSpread
  <2> QED BY <2>1, ClosingLegsTypes, PlaceTypes
<1>3. CASE Roll
  <2>1. PICK ratio \in HeldRatios, t \in PackageTickets, qty \in 1..MaxQty, lim \in Limits \cup {NoLimit} :
          Place([c \in Contracts |-> ClosingLegs(ratio)[c] + t.legs[c]], DOMAIN ratio, qty, lim)
    BY <1>3 DEF Roll
  <2>2. t.legs \in [Contracts -> Int]
    BY DEF Assumptions
  <2>3. ClosingLegs(ratio) \in [Contracts -> Int] /\ DOMAIN ratio \in SUBSET Contracts
    BY ClosingLegsTypes
  <2>4. [c \in Contracts |-> ClosingLegs(ratio)[c] + t.legs[c]] \in [Contracts -> Int]
    BY <2>2, <2>3
  <2> QED BY <2>1, <2>3, <2>4, PlaceTypes
<1>4. CASE TryFill
  <2>1. PICK i \in WorkingPackages, net \in Nets : Fill(orders, i, net)
    BY <1>4 DEF TryFill
  <2>2. orders \in Seq(Package) /\ i \in DOMAIN orders
    BY DEF OptionsTypeOK, WorkingPackages
  <2>3. held' \in [Contracts -> Int] /\ orders' \in Seq(Package) /\ cash' \in Int
    BY <2>1, <2>2, FillTypes
  <2> QED BY <1>4, <2>3 DEF TryFill, OptionsTypeOK
<1>5. CASE CancelPackage
  <2>1. PICK i \in WorkingPackages : orders' = [orders EXCEPT ![i].status = "canceled"]
    BY <1>5 DEF CancelPackage
  <2>2. orders[i] \in Package
    BY DEF OptionsTypeOK, WorkingPackages
  <2>3. [orders[i] EXCEPT !.status = "canceled"] \in Package
    BY <2>2 DEF Package
  <2>4. orders' \in Seq(Package)
    BY <2>1, <2>3 DEF OptionsTypeOK, WorkingPackages
  <2> QED BY <1>5, <2>4 DEF CancelPackage, OptionsTypeOK
<1>6. CASE BeginSettle
  BY <1>6 DEF BeginSettle, OptionsTypeOK, Positive
<1>7. CASE SettleNext
  BY <1>7, SettleNextTypes
<1>8. CASE SkipUnpriced
  BY <1>8 DEF SkipUnpriced, OptionsTypeOK
<1>9. CASE MoveSpot
  BY <1>9 DEF MoveSpot, OptionsTypeOK
<1>10. CASE MarketClose
  BY <1>10 DEF MarketClose, OptionsTypeOK
<1>11. CASE TradeShares
  <2>1. PICK n \in ShareCounts : shares' = n /\ cash' = cash - (n - shares) * spot
    BY <1>11 DEF TradeShares
  <2>2. n \in Int /\ spot \in Int
    BY DEF Assumptions, OptionsTypeOK
  <2>3. (n - shares) * spot \in Int
    BY <2>2 DEF OptionsTypeOK
  <2>4. shares' \in Int /\ cash' \in Int
    BY <2>1, <2>2, <2>3 DEF OptionsTypeOK
  <2> QED BY <1>11, <2>4 DEF TradeShares, OptionsTypeOK
<1>12. CASE UNCHANGED optionVars
  BY <1>12 DEF optionVars, OptionsTypeOK
<1>13. CASE ResetBook
  BY <1>13 DEF ResetBook, OptionsTypeOK, Assumptions
<1> QED
  BY <1>1, <1>2, <1>3, <1>4, <1>5, <1>6, <1>7, <1>8, <1>9, <1>10, <1>11, <1>12, <1>13 DEF OptionsNext

\* The books keep their types: positions, shares and cash stay whole numbers,
\* and every row is a package that works, is filled or is canceled.
THEOREM OptionsTypeCorrect == OptionsSpec => []OptionsTypeOK
<1>1. Assumptions
  BY AssumptionsHold
<1>2. OptionsInit => OptionsTypeOK
  BY <1>1 DEF OptionsInit, OptionsTypeOK, Assumptions, Package
<1>3. OptionsTypeOK /\ [OptionsNext]_optionVars => OptionsTypeOK'
  BY <1>1, StepTypes
<1> QED BY <1>2, <1>3, PTL DEF OptionsSpec

\* Settling one position leaves the account worth what it was, at the price
\* it settled at, for every strike, price, multiplier and position.
LEMMA SettleNextKeepsEquity ==
  ASSUME Assumptions, OptionsTypeOK, SettleNext, NEW c \in Contracts, held'[c] # held[c]
  PROVE  /\ cash' + spot * shares' + Multiplier * Intrinsic(c) * held'[c]
              = cash + spot * shares + Multiplier * Intrinsic(c) * held[c]
         /\ \A d \in Contracts \ {c} : held'[d] = held[d]
<1>1. PICK s \in settling : Settle(s, held[s])
  BY DEF SettleNext
<1>2. held' = [held EXCEPT ![s] = held[s] - held[s]]
  BY <1>1 DEF Settle
<1>3. s = c
  BY <1>2 DEF OptionsTypeOK
<1>4. /\ held'[c] = 0
      /\ \A d \in Contracts \ {c} : held'[d] = held[d]
  BY <1>2, <1>3 DEF OptionsTypeOK
<1> DEFINE n == held[c]
           A == Assigned(c, n)
           CA == CalledAway(c, n)
           I == Intrinsic(c)
<1>5. /\ shares' = shares + Multiplier * (A - CA)
      /\ cash' = cash + Multiplier * (CashSettled(c, n) * I + c.strike * (CA - A))
  BY <1>1, <1>3 DEF Settle
<1>6. n \in Int
  BY DEF OptionsTypeOK
<1>7. /\ I \in Int /\ c.strike \in Int /\ A \in Int /\ CA \in Int
      /\ CashSettled(c, n) = n + A + CA
  BY <1>6, SettlementTypes
<1>8. Multiplier \in Int /\ spot \in Int /\ shares \in Int /\ cash \in Int
  BY DEF Assumptions, OptionsTypeOK
<1>9. \/ A = 0 /\ CA = 0
      \/ A = 0 /\ I = spot - c.strike
      \/ CA = 0 /\ I = c.strike - spot
  BY <1>7, <1>8 DEF Assigned, CalledAway, Intrinsic, Positive
<1>10. (cash + Multiplier * ((n + A + CA) * I + c.strike * (CA - A))) + spot * (shares + Multiplier * (A - CA))
         = cash + spot * shares + Multiplier * I * n
  <2> DEFINE K == c.strike
  <2> HIDE DEF n, A, CA, I, K
  <2>1. /\ n \in Int /\ A \in Int /\ CA \in Int /\ I \in Int /\ K \in Int
        /\ Multiplier \in Int /\ spot \in Int /\ shares \in Int /\ cash \in Int
    BY <1>6, <1>7, <1>8 DEF K
  <2>2. (cash + Multiplier * ((n + A + CA) * I + K * (CA - A))) + spot * (shares + Multiplier * (A - CA))
          = cash + spot * shares + Multiplier * I * n
    <3>1. CASE A = 0 /\ CA = 0
      BY <3>1, <2>1
    <3>2. CASE A = 0 /\ I = spot - K
      BY <3>2, <2>1
    <3>3. CASE CA = 0 /\ I = K - spot
      BY <3>3, <2>1
    <3> QED BY <3>1, <3>2, <3>3, <1>9 DEF K
  <2> QED BY <2>2 DEF K
<1>11. cash' + spot * shares' = cash + spot * shares + Multiplier * I * n
  BY <1>5, <1>7, <1>10
<1>12. cash' + spot * shares' \in Int /\ Multiplier * I * 0 = 0
  <2> HIDE DEF n, A, CA, I
  <2>1. Multiplier * I * n \in Int
    BY <1>6, <1>7, <1>8
  <2>2. cash + spot * shares + Multiplier * I * n \in Int
    BY <2>1, <1>8
  <2> QED BY <2>2, <1>7, <1>8, <1>11
<1> QED BY <1>4, <1>11, <1>12

\* Settlement keeps the equity of the account, position by position.
THEOREM SettlementAlwaysKeepsEquity == OptionsSpec => SettlementKeepsEquity
<1>1. Assumptions
  BY AssumptionsHold
<1>2. OptionsTypeOK /\ [OptionsNext]_optionVars =>
        [SettleNext =>
           \A c \in Contracts : held'[c] # held[c] =>
             /\ cash' + spot * shares' + Multiplier * Intrinsic(c) * held'[c]
                  = cash + spot * shares + Multiplier * Intrinsic(c) * held[c]
             /\ \A d \in Contracts \ {c} : held'[d] = held[d]]_optionVars
  BY <1>1, SettleNextKeepsEquity
<1> QED BY <1>2, OptionsTypeCorrect, PTL DEF OptionsSpec, SettlementKeepsEquity

\* Settlement that takes shares leaves none short.
LEMMA CallsTakeHeldShares ==
  ASSUME Assumptions, OptionsTypeOK, SettleNext, shares' < shares
  PROVE  shares' >= 0
<1>1. PICK c \in settling : Settle(c, held[c])
  BY DEF SettleNext
<1> DEFINE n == held[c]
           CA == CalledAway(c, n)
           q == Positive(shares) \div Multiplier
<1>2. c \in Contracts /\ n \in Int
  BY DEF OptionsTypeOK
<1>3. Assigned(c, n) \in Nat /\ CA \in Nat
  BY <1>2, SettlementTypes
<1>4. shares' = shares + Multiplier * (Assigned(c, n) - CA)
  BY <1>1 DEF Settle
<1>5. Multiplier \in Nat \ {0} /\ shares \in Int
  BY DEF Assumptions, OptionsTypeOK
<1>6. CA # 0
  <2>1. SUFFICES ASSUME CA = 0 PROVE FALSE
    OBVIOUS
  <2>2. shares' = shares + Multiplier * Assigned(c, n) /\ Multiplier * Assigned(c, n) >= 0
    BY <2>1, <1>3, <1>4, <1>5
  <2>3. Multiplier * Assigned(c, n) \in Int
    BY <1>3, <1>5
  <2> QED BY <2>2, <2>3, <1>5
<1>7. Assigned(c, n) = 0 /\ CA <= q /\ q \in Nat
  BY <1>2, <1>5, <1>6 DEF CalledAway, Assigned, Least, Positive
<1>8. Multiplier * q <= Positive(shares)
  BY <1>5 DEF Positive
<1>9. Multiplier * CA <= Multiplier * q /\ CA > 0
  BY <1>3, <1>5, <1>6, <1>7
<1>10. shares > 0
  BY <1>3, <1>5, <1>6, <1>7 DEF Positive
<1>11. shares' = shares - Multiplier * CA
  BY <1>3, <1>4, <1>5, <1>7
<1> QED BY <1>3, <1>5, <1>7, <1>8, <1>9, <1>10, <1>11 DEF Positive

\* No share is called away that is not held, whatever calls settle before.
THEOREM CalledAwaySharesAreHeld == OptionsSpec => CalledAwayAreHeld
<1>1. Assumptions
  BY AssumptionsHold
<1>2. OptionsTypeOK /\ [OptionsNext]_optionVars => [SettleNext /\ shares' < shares => shares' >= 0]_optionVars
  BY <1>1, CallsTakeHeldShares
<1> QED BY <1>2, OptionsTypeCorrect, PTL DEF OptionsSpec, CalledAwayAreHeld

-----------------------------------------------------------------------------
(***************************************************************************)
(* Closing packages.  What packages rest to close a contract is a sum over *)
(* the book, so the lemmas on sums say how it moves when a package comes   *)
(* to rest, fills or is canceled.  ClosesInv keeps, of every contract not  *)
(* yet past its expiry, which way it is held, which way each package that  *)
(* rests goes, and that the sum is no more than what is held.  An opening  *)
(* package that sold a contract held long would shrink the holding under   *)
(* the closes that rest on it, which nothing in the code prevents: so the  *)
(* theorem is about contracts that are opened on one side only.            *)
(***************************************************************************)

\* The packages among some rows that rest and close c, and by how many.
ClosersIn(rows, c) == {i \in DOMAIN rows : rows[i].status = "new" /\ c \in rows[i].closes}
\* What each of those commits to.
CloseQtys(rows, c) == [i \in ClosersIn(rows, c) |-> rows[i].qty * Size(rows[i].legs[c])]
\* What they commit to together.
ClosesIn(rows, c) == SumFunctionOnSet(CloseQtys(rows, c), ClosersIn(rows, c))

\* WorkingCloses is that sum over the book, before a step and after it.
LEMMA WorkingClosesAre ==
  ASSUME NEW c
  PROVE  WorkingCloses(c) = ClosesIn(orders, c) /\ WorkingCloses(c)' = ClosesIn(orders', c)
<1>1. {i \in WorkingPackages : c \in orders[i].closes} = ClosersIn(orders, c)
  BY DEF WorkingPackages, ClosersIn
<1>2. {i \in WorkingPackages' : c \in orders'[i].closes} = ClosersIn(orders', c)
  BY DEF WorkingPackages, ClosersIn
<1>3. QED
  BY <1>1, <1>2, Zenon DEF WorkingCloses, SumOver, ClosesIn, CloseQtys

\* What rows commit to closing is a number, and as much as any one of them.
LEMMA ClosesAreCounted ==
  ASSUME NEW rows \in Seq(Package), NEW c \in Contracts
  PROVE  /\ IsFiniteSet(ClosersIn(rows, c))
         /\ \A i \in ClosersIn(rows, c) : CloseQtys(rows, c)[i] = rows[i].qty * Size(rows[i].legs[c])
                                          /\ CloseQtys(rows, c)[i] \in Nat
         /\ ClosesIn(rows, c) \in Nat
         /\ \A i \in ClosersIn(rows, c) : rows[i].qty * Size(rows[i].legs[c]) <= ClosesIn(rows, c)
<1>1. IsFiniteSet(ClosersIn(rows, c))
  <2>1. IsFiniteSet(1..Len(rows))
    BY FS_Interval
  <2>2. ClosersIn(rows, c) \subseteq 1..Len(rows)
    BY DEF ClosersIn
  <2>3. QED
    BY <2>1, <2>2, FS_Subset
<1>2. ASSUME NEW i \in ClosersIn(rows, c)
      PROVE  /\ CloseQtys(rows, c)[i] = rows[i].qty * Size(rows[i].legs[c])
             /\ CloseQtys(rows, c)[i] \in Nat
  <2>1. rows[i] \in Package
    BY DEF ClosersIn
  <2>2. rows[i].qty \in Nat /\ rows[i].legs[c] \in Int
    BY <2>1, BoundsAssumption DEF Package
  <2>3. Size(rows[i].legs[c]) \in Nat
    BY <2>2 DEF Size
  <2>4. rows[i].qty * Size(rows[i].legs[c]) \in Nat
    BY <2>2, <2>3
  <2>5. QED
    BY <2>4 DEF CloseQtys
<1>3. ClosesIn(rows, c) \in Nat /\ \A i \in ClosersIn(rows, c) : CloseQtys(rows, c)[i] <= ClosesIn(rows, c)
  BY <1>1, <1>2, SumGrows DEF ClosesIn
<1>4. QED
  BY <1>1, <1>2, <1>3

\* Rows with the same closers commit to the same.
LEMMA SameClosers ==
  ASSUME NEW rows \in Seq(Package), NEW more \in Seq(Package), NEW c \in Contracts,
         ClosersIn(rows, c) = ClosersIn(more, c),
         \A i \in ClosersIn(rows, c) : more[i].qty = rows[i].qty /\ more[i].legs = rows[i].legs
  PROVE  ClosesIn(more, c) = ClosesIn(rows, c)
<1>1. CloseQtys(more, c) = CloseQtys(rows, c)
  BY DEF CloseQtys
<1>2. QED
  BY <1>1 DEF ClosesIn

\* More is rows with j as one closer more.
AddsCloser(rows, more, c, j) ==
  /\ j \in ClosersIn(more, c) /\ ClosersIn(rows, c) = ClosersIn(more, c) \ {j}
  /\ \A i \in ClosersIn(rows, c) : more[i].qty = rows[i].qty /\ more[i].legs = rows[i].legs

\* Rows with one closer more commit to that much more.
LEMMA OneCloserMore ==
  ASSUME NEW rows \in Seq(Package), NEW more \in Seq(Package), NEW c \in Contracts, NEW j,
         AddsCloser(rows, more, c, j)
  PROVE  ClosesIn(more, c) = more[j].qty * Size(more[j].legs[c]) + ClosesIn(rows, c)
<1>1. /\ IsFiniteSet(ClosersIn(more, c)) /\ IsFiniteSet(ClosersIn(rows, c))
      /\ \A i \in ClosersIn(more, c) : CloseQtys(more, c)[i] \in Int
      /\ CloseQtys(more, c)[j] = more[j].qty * Size(more[j].legs[c])
  <2>0. j \in ClosersIn(more, c)
    BY DEF AddsCloser
  <2>1. /\ IsFiniteSet(ClosersIn(more, c))
        /\ \A i \in ClosersIn(more, c) : CloseQtys(more, c)[i] \in Nat
    BY ClosesAreCounted
  <2>2. IsFiniteSet(ClosersIn(rows, c))
    BY ClosesAreCounted
  <2>3. CloseQtys(more, c)[j] = more[j].qty * Size(more[j].legs[c])
    BY <2>0 DEF CloseQtys
  <2>4. QED
    BY <2>1, <2>2, <2>3
<1>2. ClosesIn(more, c)
        = CloseQtys(more, c)[j] + SumFunctionOnSet(CloseQtys(more, c), ClosersIn(more, c) \ {j})
  BY <1>1, SumTakeOut DEF ClosesIn, AddsCloser
<1>3. \A i \in ClosersIn(rows, c) : CloseQtys(more, c)[i] = CloseQtys(rows, c)[i]
  BY DEF CloseQtys, AddsCloser
<1>4. SumFunctionOnSet(CloseQtys(more, c), ClosersIn(rows, c)) = ClosesIn(rows, c)
  BY <1>1, <1>3, SumSame DEF ClosesIn
<1>5. QED
  BY <1>1, <1>2, <1>4 DEF AddsCloser

-----------------------------------------------------------------------------

\* A count of c is one of contracts bought, for those in longs, or sold.
Way(n, c, longs) == IF c \in longs THEN n >= 0 ELSE n <= 0

\* Opening packages only ever buy a contract in longs and only sell any other.
OpenedOneWay(longs) == \A t \in PackageTickets : \A c \in Contracts : Way(t.legs[c], c, longs)

\* A package closes c against the way it is held, and opens it along with it.
PackageGoesItsWay(p, c, longs) ==
  IF c \in p.closes THEN p.legs[c] # 0 /\ Way(-p.legs[c], c, longs) ELSE Way(p.legs[c], c, longs)

\* What rows rest against a book of these holdings, as far as c goes.
Orderly(rows, holdings, c, longs) ==
  /\ Way(holdings[c], c, longs)
  /\ \A i \in DOMAIN rows : rows[i].status = "new" => PackageGoesItsWay(rows[i], c, longs)
  /\ ClosesIn(rows, c) <= Size(holdings[c])

\* A package that closes no more than is left to close may rest.
LEMMA RestKeepsOrder ==
  ASSUME NEW longs, NEW rows \in Seq(Package), NEW holdings \in [Contracts -> Int], NEW c \in Contracts,
         Orderly(rows, holdings, c, longs),
         NEW p \in Package, p.status = "new", PackageGoesItsWay(p, c, longs),
         c \in p.closes => p.qty * Size(p.legs[c]) <= Size(holdings[c]) - ClosesIn(rows, c)
  PROVE  Orderly(Append(rows, p), holdings, c, longs)
<1> DEFINE more == Append(rows, p)
           n == Len(rows) + 1
<1>1. /\ more \in Seq(Package) /\ DOMAIN more = DOMAIN rows \cup {n} /\ n \notin DOMAIN rows
      /\ more[n] = p /\ \A i \in DOMAIN rows : more[i] = rows[i]
  OBVIOUS
<1> HIDE DEF more, n
<1>2. /\ Way(holdings[c], c, longs)
      /\ \A i \in DOMAIN more : more[i].status = "new" => PackageGoesItsWay(more[i], c, longs)
  BY <1>1 DEF Orderly
<1>3. ClosesIn(more, c) <= Size(holdings[c])
  <2>1. CASE c \in p.closes
    <3>1. n \in ClosersIn(more, c) /\ ClosersIn(rows, c) = ClosersIn(more, c) \ {n}
      BY <1>1, <2>1 DEF ClosersIn
    <3>2. \A i \in ClosersIn(rows, c) : more[i].qty = rows[i].qty /\ more[i].legs = rows[i].legs
      BY <1>1 DEF ClosersIn
    <3>3. ClosesIn(more, c) = p.qty * Size(p.legs[c]) + ClosesIn(rows, c)
      <4>1. AddsCloser(rows, more, c, n)
        BY <3>1, <3>2 DEF AddsCloser
      <4>2. QED
        BY <1>1, <4>1, OneCloserMore
    <3>4. ClosesIn(rows, c) \in Nat
      BY ClosesAreCounted
    <3>5. p.qty * Size(p.legs[c]) \in Int /\ Size(holdings[c]) \in Int
      <4>1. p.qty \in Int /\ p.legs[c] \in Int
        BY BoundsAssumption DEF Package
      <4>2. QED
        BY <4>1 DEF Size
    <3>6. QED
      BY <2>1, <3>3, <3>4, <3>5
  <2>2. CASE c \notin p.closes
    <3>1. ClosersIn(rows, c) = ClosersIn(more, c)
      BY <1>1, <2>2 DEF ClosersIn
    <3>2. \A i \in ClosersIn(rows, c) : more[i].qty = rows[i].qty /\ more[i].legs = rows[i].legs
      BY <1>1 DEF ClosersIn
    <3>3. ClosesIn(more, c) = ClosesIn(rows, c)
      BY <1>1, <3>1, <3>2, SameClosers
    <3>4. QED
      BY <3>3 DEF Orderly
  <2>3. QED
    BY <2>1, <2>2
<1>4. QED
  BY <1>2, <1>3 DEF Orderly, more

\* Less is rows with j filled or canceled.
Done(rows, less, j, s) ==
  /\ j \in DOMAIN rows /\ rows[j].status = "new" /\ s \in {"filled", "canceled"}
  /\ less = [rows EXCEPT ![j].status = s]

\* A package that is done commits to nothing any more.
LEMMA DoneIsNoCloser ==
  ASSUME NEW rows \in Seq(Package), NEW less, NEW j, NEW s, Done(rows, less, j, s),
         NEW c \in Contracts
  PROVE  /\ less \in Seq(Package) /\ DOMAIN less = DOMAIN rows /\ less[j].status = s
         /\ \A i \in DOMAIN rows \ {j} : less[i] = rows[i]
         /\ ClosesIn(less, c) \in Nat
         /\ c \in rows[j].closes =>
              ClosesIn(rows, c) = rows[j].qty * Size(rows[j].legs[c]) + ClosesIn(less, c)
         /\ c \notin rows[j].closes => ClosesIn(less, c) = ClosesIn(rows, c)
<1>0. /\ j \in DOMAIN rows /\ rows[j].status = "new" /\ s \in {"filled", "canceled"}
      /\ less = [rows EXCEPT ![j].status = s]
  BY DEF Done
<1>1. [rows[j] EXCEPT !.status = s] \in Package
  <2>1. rows[j] \in Package
    BY <1>0
  <2>2. QED
    BY <1>0, <2>1 DEF Package
<1>2. /\ less \in Seq(Package) /\ DOMAIN less = DOMAIN rows /\ less[j].status = s
      /\ \A i \in DOMAIN rows \ {j} : less[i] = rows[i]
  <2>1. rows[j] \in Package
    BY <1>0
  <2>2. less[j] = [rows[j] EXCEPT !.status = s]
    BY <1>0
  <2>3. less[j].status = s
    BY <2>1, <2>2 DEF Package
  <2>4. less \in Seq(Package) /\ DOMAIN less = DOMAIN rows
    BY <1>0, <1>1
  <2>5. QED
    BY <1>0, <2>3, <2>4
<1>3. ClosersIn(less, c) = ClosersIn(rows, c) \ {j}
  BY <1>0, <1>2 DEF ClosersIn
<1>4. \A i \in ClosersIn(less, c) : rows[i].qty = less[i].qty /\ rows[i].legs = less[i].legs
  BY <1>2, <1>3 DEF ClosersIn
<1>5. ClosesIn(less, c) \in Nat
  BY <1>2, ClosesAreCounted
<1>6. ASSUME c \in rows[j].closes
      PROVE  ClosesIn(rows, c) = rows[j].qty * Size(rows[j].legs[c]) + ClosesIn(less, c)
  <2>1. j \in ClosersIn(rows, c)
    BY <1>0, <1>6 DEF ClosersIn
  <2>2. AddsCloser(less, rows, c, j)
    BY <1>3, <1>4, <2>1 DEF AddsCloser
  <2>3. QED
    BY <1>2, <2>2, OneCloserMore
<1>7. ASSUME c \notin rows[j].closes
      PROVE  ClosesIn(less, c) = ClosesIn(rows, c)
  <2>1. ClosersIn(less, c) = ClosersIn(rows, c)
    BY <1>3, <1>7 DEF ClosersIn
  <2>2. QED
    BY <1>2, <1>4, <2>1, SameClosers
<1>8. QED
  BY <1>2, <1>5, <1>6, <1>7

\* A cancel frees what its package committed to, and no holding moves.
LEMMA CancelKeepsOrder ==
  ASSUME NEW longs, NEW rows \in Seq(Package), NEW holdings \in [Contracts -> Int], NEW c \in Contracts,
         Orderly(rows, holdings, c, longs), NEW j \in DOMAIN rows, rows[j].status = "new"
  PROVE  Orderly([rows EXCEPT ![j].status = "canceled"], holdings, c, longs)
<1> DEFINE less == [rows EXCEPT ![j].status = "canceled"]
<1>0. Done(rows, less, j, "canceled")
  BY DEF Done
<1> HIDE DEF less
<1>1. /\ less \in Seq(Package) /\ DOMAIN less = DOMAIN rows /\ less[j].status = "canceled"
      /\ \A i \in DOMAIN rows \ {j} : less[i] = rows[i]
      /\ ClosesIn(less, c) \in Nat
      /\ c \in rows[j].closes =>
           ClosesIn(rows, c) = rows[j].qty * Size(rows[j].legs[c]) + ClosesIn(less, c)
      /\ c \notin rows[j].closes => ClosesIn(less, c) = ClosesIn(rows, c)
  BY <1>0, DoneIsNoCloser
<1>2. rows[j].qty * Size(rows[j].legs[c]) \in Nat /\ Size(holdings[c]) \in Int
  <2>1. rows[j] \in Package
    OBVIOUS
  <2>2. rows[j].qty \in Nat /\ Size(rows[j].legs[c]) \in Nat
    BY <2>1, BoundsAssumption DEF Package, Size
  <2>3. QED
    BY <2>2 DEF Size
<1>3. ClosesIn(less, c) <= Size(holdings[c])
  BY <1>1, <1>2 DEF Orderly
<1>4. \A i \in DOMAIN less : less[i].status = "new" => PackageGoesItsWay(less[i], c, longs)
  BY <1>1 DEF Orderly
<1>5. QED
  BY <1>3, <1>4 DEF Orderly, less

\* A fill takes from a position what its package committed to, or adds to it.
LEMMA FillKeepsOrder ==
  ASSUME NEW longs, NEW rows \in Seq(Package), NEW holdings \in [Contracts -> Int], NEW c \in Contracts,
         Orderly(rows, holdings, c, longs), NEW j \in DOMAIN rows, rows[j].status = "new"
  PROVE  Orderly([rows EXCEPT ![j].status = "filled"],
                 [d \in Contracts |-> holdings[d] + rows[j].qty * rows[j].legs[d]], c, longs)
<1> DEFINE less == [rows EXCEPT ![j].status = "filled"]
           after == [d \in Contracts |-> holdings[d] + rows[j].qty * rows[j].legs[d]]
<1>0. Done(rows, less, j, "filled")
  BY DEF Done
<1> HIDE DEF less
<1>1. /\ less \in Seq(Package) /\ DOMAIN less = DOMAIN rows /\ less[j].status = "filled"
      /\ \A i \in DOMAIN rows \ {j} : less[i] = rows[i]
      /\ ClosesIn(less, c) \in Nat
      /\ c \in rows[j].closes =>
           ClosesIn(rows, c) = rows[j].qty * Size(rows[j].legs[c]) + ClosesIn(less, c)
      /\ c \notin rows[j].closes => ClosesIn(less, c) = ClosesIn(rows, c)
  BY <1>0, DoneIsNoCloser
<1> DEFINE q == rows[j].qty
           m == rows[j].legs[c]
<1>2. q \in Nat /\ q > 0 /\ m \in Int /\ holdings[c] \in Int
  <2>1. rows[j] \in Package
    OBVIOUS
  <2>2. QED
    BY <2>1, BoundsAssumption DEF Package
<1>3. after[c] = holdings[c] + q * m
  OBVIOUS
<1>4. /\ Way(holdings[c], c, longs) /\ ClosesIn(rows, c) <= Size(holdings[c])
      /\ PackageGoesItsWay(rows[j], c, longs)
  BY DEF Orderly
<1>5. /\ Size(q * m) = q * Size(m) /\ q * m \in Int
      /\ m > 0 => q * m > 0
      /\ m < 0 => q * m < 0
      /\ m = 0 => q * m = 0
  <2> HIDE DEF q, m
  <2>1. q * m \in Int /\ (m > 0 => q * m > 0) /\ (m < 0 => q * m < 0) /\ (m = 0 => q * m = 0)
    BY <1>2
  <2>2. -(q * m) = q * (-m)
    BY <1>2
  <2>3. QED
    BY <1>2, <2>1, <2>2 DEF Size
<1>6. \A i \in DOMAIN less : less[i].status = "new" => PackageGoesItsWay(less[i], c, longs)
  BY <1>1 DEF Orderly, less
<1>7. Way(after[c], c, longs) /\ ClosesIn(less, c) <= Size(after[c])
  <2>1. CASE c \in rows[j].closes
    <3>1. ClosesIn(rows, c) = q * Size(m) + ClosesIn(less, c)
      BY <1>1, <2>1
    <3>2. m # 0 /\ Way(-m, c, longs)
      BY <1>4, <2>1 DEF PackageGoesItsWay
    <3> DEFINE k == q * m
               done == ClosesIn(less, c)
               all == ClosesIn(rows, c)
    <3>3. all = Size(k) + done /\ k \in Int /\ done \in Nat
      BY <1>1, <1>5, <3>1
    <3>4. (c \in longs => k < 0) /\ (c \notin longs => k > 0)
      BY <1>2, <1>5, <3>2 DEF Way
    <3> HIDE DEF k, done, all, q, m
    <3>5. all <= Size(holdings[c])
      BY <1>4 DEF all
    <3>6. after[c] = holdings[c] + k
      BY <1>3 DEF k
    <3> HIDE DEF after
    <3>7. Way(after[c], c, longs) /\ done <= Size(after[c])
      BY <1>2, <1>4, <3>3, <3>4, <3>5, <3>6 DEF Way, Size
    <3>8. QED
      BY <3>7 DEF done
  <2>2. CASE c \notin rows[j].closes
    <3>1. ClosesIn(less, c) = ClosesIn(rows, c) /\ Way(m, c, longs)
      BY <1>1, <1>4, <2>2 DEF PackageGoesItsWay
    <3> DEFINE k == q * m
               done == ClosesIn(less, c)
    <3>2. k \in Int /\ (c \in longs => k >= 0) /\ (c \notin longs => k <= 0)
      BY <1>2, <1>5, <3>1 DEF Way
    <3>3. done \in Nat /\ done <= Size(holdings[c])
      BY <1>1, <1>4, <3>1
    <3>4. after[c] = holdings[c] + k
      BY <1>3
    <3> HIDE DEF k, done, q, m, after, less
    <3>5. Way(after[c], c, longs) /\ done <= Size(after[c])
      BY <1>2, <1>4, <3>2, <3>3, <3>4 DEF Way, Size
    <3>6. QED
      BY <3>5 DEF done
  <2>3. QED
    BY <2>1, <2>2
<1> HIDE DEF less, after
<1>8. Orderly(less, after, c, longs)
  BY <1>6, <1>7 DEF Orderly
<1>9. QED
  BY <1>8 DEF less, after

-----------------------------------------------------------------------------
(* The handlers.                                                           *)

\* The settlement of c is not due yet.
Unexpired(c) == day < c.expiry

\* Only what is past its expiry is listed for settlement, and what is not is
\* held and closed in order.
ClosesInv(longs) ==
  /\ OptionsTypeOK
  /\ \A c \in settling : Past(c)
  /\ \A c \in Contracts : Unexpired(c) => Orderly(orders, held, c, longs)

\* Every contract whose settlement is not due is in order.
ContractsOrderly(longs) == \A c \in Contracts : Unexpired(c) => Orderly(orders, held, c, longs)

\* A package as it is placed.
Placed(legs, closes, qty, lim) ==
  [legs |-> legs, closes |-> closes, qty |-> qty, limit |-> lim, status |-> "new"]

\* The package may be placed, as far as c goes.
MayPlace(legs, closes, qty, c, longs) ==
  /\ IF c \in closes THEN legs[c] # 0 /\ Way(-legs[c], c, longs) ELSE Way(legs[c], c, longs)
  /\ c \in closes => qty * Size(legs[c]) <= Size(held[c]) - ClosesIn(orders, c)

\* What is placed rests in order, and fills in order if it fills at once.
LEMMA PlaceKeepsOrder ==
  ASSUME NEW longs, ClosesInv(longs),
         NEW legs \in [Contracts -> Int], NEW closes \in SUBSET Contracts, NEW qty \in 1..MaxQty,
         NEW lim \in Limits \cup {NoLimit}, Place(legs, closes, qty, lim),
         \A c \in Contracts : Unexpired(c) => MayPlace(legs, closes, qty, c, longs)
  PROVE  ContractsOrderly(longs)' /\ UNCHANGED <<day, settling>>
<1> DEFINE p == Placed(legs, closes, qty, lim)
           rows == Append(orders, p)
           n == Len(rows)
<1>1. p \in Package /\ p.status = "new" /\ p.legs = legs /\ p.closes = closes /\ p.qty = qty
  BY DEF Placed, Package
<1>2. /\ orders \in Seq(Package) /\ held \in [Contracts -> Int]
      /\ UNCHANGED <<day, settling>>
  BY DEF ClosesInv, OptionsTypeOK, Place
<1>3. PICK net \in Nets \cup {NoPrice} :
        IF LimitAllows(p, net) THEN Fill(rows, n, net) ELSE orders' = rows /\ UNCHANGED <<held, cash>>
  BY DEF Place, Placed
<1> HIDE DEF p
<1>4. rows \in Seq(Package) /\ n \in DOMAIN rows /\ rows[n] = p
  BY <1>1, <1>2
<1>5. ASSUME NEW c \in Contracts, Unexpired(c)
      PROVE  Orderly(rows, held, c, longs)
  <2>1. Orderly(orders, held, c, longs) /\ MayPlace(legs, closes, qty, c, longs)
    BY <1>5 DEF ClosesInv
  <2>2. PackageGoesItsWay(p, c, longs)
    BY <1>1, <2>1 DEF MayPlace, PackageGoesItsWay
  <2>3. c \in p.closes => p.qty * Size(p.legs[c]) <= Size(held[c]) - ClosesIn(orders, c)
    BY <1>1, <2>1 DEF MayPlace
  <2> HIDE DEF rows, n
  <2>4. Orderly(Append(orders, p), held, c, longs)
    BY <1>1, <1>2, <2>1, <2>2, <2>3, RestKeepsOrder
  <2>5. QED
    BY <2>4 DEF rows
<1> HIDE DEF rows, n
<1>6. ASSUME NEW c \in Contracts, Unexpired(c)
      PROVE  Orderly(orders', held', c, longs)
  <2>1. CASE LimitAllows(p, net)
    <3>1. /\ orders' = [rows EXCEPT ![n].status = "filled"]
          /\ held' = [d \in Contracts |-> held[d] + rows[n].qty * rows[n].legs[d]]
      BY <1>3, <2>1 DEF Fill
    <3>2. rows[n].status = "new"
      BY <1>1, <1>4
    <3>3. QED
      BY <1>2, <1>4, <1>5, <1>6, <3>1, <3>2, FillKeepsOrder
  <2>2. CASE ~LimitAllows(p, net)
    BY <1>3, <1>5, <1>6, <2>2
  <2>3. QED
    BY <2>1, <2>2
<1>7. QED
  BY <1>2, <1>6 DEF ContractsOrderly, Unexpired

\* Nothing is asked of an opening package but its way.
LEMMA OpeningMayBePlaced ==
  ASSUME NEW longs, OpenedOneWay(longs), NEW t \in PackageTickets, NEW c \in Contracts, NEW qty
  PROVE  MayPlace(t.legs, {}, qty, c, longs)
BY DEF OpenedOneWay, MayPlace

\* What a closing leg takes is held, and it goes against it.
LEMMA ClosingMayBePlaced ==
  ASSUME NEW longs, ClosesInv(longs), OpenedOneWay(longs), NEW ratio \in HeldRatios,
         NEW qty \in 1..MaxQty, NotOverClosing(ClosingLegs(ratio), DOMAIN ratio, qty),
         NEW legs \in [Contracts -> Int], NEW c \in Contracts, Unexpired(c),
         c \in DOMAIN ratio => legs[c] = ClosingLegs(ratio)[c],
         c \notin DOMAIN ratio => Way(legs[c], c, longs)
  PROVE  MayPlace(legs, DOMAIN ratio, qty, c, longs)
<1>1. CASE c \in DOMAIN ratio
  <2>1. ratio[c] \in 1..MaxRatio /\ held[c] # 0
    BY <1>1 DEF HeldRatios
  <2>2. ratio[c] \in Nat /\ ratio[c] > 0 /\ held[c] \in Int
    BY <2>1, BoundsAssumption DEF ClosesInv, OptionsTypeOK
  <2>3. Way(held[c], c, longs)
    BY DEF ClosesInv, Orderly
  <2>4. legs[c] = IF held[c] > 0 THEN -ratio[c] ELSE ratio[c]
    BY <1>1 DEF ClosingLegs
  <2>5. legs[c] # 0 /\ Way(-legs[c], c, longs)
    BY <2>1, <2>2, <2>3, <2>4 DEF Way
  <2>6. qty * Size(legs[c]) <= Size(held[c]) - ClosesIn(orders, c)
    <3>1. qty * Size(ClosingLegs(ratio)[c]) <= Size(held[c]) - WorkingCloses(c)
      BY <1>1 DEF NotOverClosing
    <3>2. QED
      BY <1>1, <3>1, WorkingClosesAre
  <2>7. QED
    BY <1>1, <2>5, <2>6 DEF MayPlace
<1>2. CASE c \notin DOMAIN ratio
  BY <1>2 DEF MayPlace
<1>3. QED
  BY <1>1, <1>2

\* An opening package leaves the book in order.
LEMMA OpenStep ==
  ASSUME NEW longs, ClosesInv(longs), OpenedOneWay(longs), SubmitPackage
  PROVE  ContractsOrderly(longs)' /\ UNCHANGED <<day, settling>>
<1>1. PICK t \in PackageTickets, qty \in 1..MaxQty, lim \in Limits \cup {NoLimit} :
        Place(t.legs, {}, qty, lim)
  BY DEF SubmitPackage
<1>2. t.legs \in [Contracts -> Int]
  BY TicketsAssumption
<1>3. \A c \in Contracts : MayPlace(t.legs, {}, qty, c, longs)
  BY OpeningMayBePlaced
<1>4. QED
  BY <1>1, <1>2, <1>3, PlaceKeepsOrder

\* A close of a spread that is held leaves the book in order.
LEMMA CloseStep ==
  ASSUME NEW longs, ClosesInv(longs), OpenedOneWay(longs), CloseSpread
  PROVE  ContractsOrderly(longs)' /\ UNCHANGED <<day, settling>>
<1>1. PICK ratio \in HeldRatios, qty \in 1..MaxQty, lim \in Limits \cup {NoLimit} :
        /\ NotOverClosing(ClosingLegs(ratio), DOMAIN ratio, qty)
        /\ Place(ClosingLegs(ratio), DOMAIN ratio, qty, lim)
  BY DEF CloseSpread
<1> DEFINE legs == ClosingLegs(ratio)
<1>2. DOMAIN ratio \subseteq Contracts /\ legs \in [Contracts -> Int]
  BY AssumptionsHold, ClosingLegsTypes DEF ClosesInv
<1>3. \A c \in Contracts : c \notin DOMAIN ratio => Way(legs[c], c, longs)
  BY DEF ClosingLegs, Way
<1> HIDE DEF legs
<1>4. \A c \in Contracts : Unexpired(c) => MayPlace(legs, DOMAIN ratio, qty, c, longs)
  BY <1>1, <1>2, <1>3, ClosingMayBePlaced DEF legs
<1>5. QED
  BY <1>1, <1>2, <1>4, PlaceKeepsOrder DEF legs

\* A roll, which closes some contracts and opens others, leaves it in order.
LEMMA RollStep ==
  ASSUME NEW longs, ClosesInv(longs), OpenedOneWay(longs), Roll
  PROVE  ContractsOrderly(longs)' /\ UNCHANGED <<day, settling>>
<1>1. PICK ratio \in HeldRatios, t \in PackageTickets, qty \in 1..MaxQty,
           lim \in Limits \cup {NoLimit} :
        /\ \A c \in DOMAIN ratio : t.legs[c] = 0
        /\ NotOverClosing(ClosingLegs(ratio), DOMAIN ratio, qty)
        /\ Place([c \in Contracts |-> ClosingLegs(ratio)[c] + t.legs[c]], DOMAIN ratio, qty, lim)
  BY DEF Roll
<1> DEFINE legs == [c \in Contracts |-> ClosingLegs(ratio)[c] + t.legs[c]]
<1>2. /\ DOMAIN ratio \subseteq Contracts /\ ClosingLegs(ratio) \in [Contracts -> Int]
      /\ t.legs \in [Contracts -> Int]
  BY AssumptionsHold, ClosingLegsTypes, TicketsAssumption DEF ClosesInv
<1>3. legs \in [Contracts -> Int]
  BY <1>2
<1>4. \A c \in Contracts : c \notin DOMAIN ratio => Way(legs[c], c, longs)
  <2>1. ASSUME NEW c \in Contracts, c \notin DOMAIN ratio
        PROVE  Way(legs[c], c, longs)
    <3>1. ClosingLegs(ratio)[c] = 0
      BY <2>1 DEF ClosingLegs
    <3>2. legs[c] = t.legs[c]
      BY <1>2, <3>1
    <3>3. QED
      BY <3>2 DEF OpenedOneWay
  <2>2. QED
    BY <2>1
<1>5. \A c \in Contracts : c \in DOMAIN ratio => legs[c] = ClosingLegs(ratio)[c]
  BY <1>1, <1>2
<1> HIDE DEF legs
<1>6. \A c \in Contracts : Unexpired(c) => MayPlace(legs, DOMAIN ratio, qty, c, longs)
  BY <1>1, <1>3, <1>4, <1>5, ClosingMayBePlaced
<1>7. QED
  BY <1>1, <1>2, <1>3, <1>6, PlaceKeepsOrder DEF legs

\* A fill or a cancel of a package that rests leaves the book in order.
LEMMA RestingStep ==
  ASSUME NEW longs, ClosesInv(longs), TryFill \/ CancelPackage
  PROVE  ContractsOrderly(longs)' /\ UNCHANGED <<day, settling>>
<1>1. orders \in Seq(Package) /\ held \in [Contracts -> Int]
  BY DEF ClosesInv, OptionsTypeOK
<1>2. UNCHANGED <<day, settling>>
  BY DEF TryFill, CancelPackage
<1>3. CASE TryFill
  <2>1. PICK i \in WorkingPackages :
          /\ orders' = [orders EXCEPT ![i].status = "filled"]
          /\ held' = [d \in Contracts |-> held[d] + orders[i].qty * orders[i].legs[d]]
    BY <1>3 DEF TryFill, Fill
  <2>2. i \in DOMAIN orders /\ orders[i].status = "new"
    BY DEF WorkingPackages
  <2>3. ASSUME NEW c \in Contracts, Unexpired(c)
        PROVE  Orderly(orders', held', c, longs)
    <3>1. Orderly(orders, held, c, longs)
      BY <2>3 DEF ClosesInv
    <3>2. QED
      BY <1>1, <2>1, <2>2, <3>1, FillKeepsOrder
  <2>4. QED
    BY <1>2, <2>3 DEF ContractsOrderly, Unexpired
<1>4. CASE CancelPackage
  <2>1. PICK i \in WorkingPackages : orders' = [orders EXCEPT ![i].status = "canceled"] /\ held' = held
    BY <1>4 DEF CancelPackage
  <2>2. i \in DOMAIN orders /\ orders[i].status = "new"
    BY DEF WorkingPackages
  <2>3. ASSUME NEW c \in Contracts, Unexpired(c)
        PROVE  Orderly(orders', held', c, longs)
    <3>1. Orderly(orders, held, c, longs)
      BY <2>3 DEF ClosesInv
    <3>2. QED
      BY <1>1, <2>1, <2>2, <3>1, CancelKeepsOrder
  <2>4. QED
    BY <1>2, <2>3 DEF ContractsOrderly, Unexpired
<1>5. QED
  BY <1>3, <1>4

\* An empty book is in order.
LEMMA EmptyIsOrderly ==
  ASSUME NEW longs, NEW c \in Contracts
  PROVE  Orderly(<<>>, [d \in Contracts |-> 0], c, longs)
<1>1. ClosersIn(<<>>, c) = {}
  BY DEF ClosersIn
<1>2. ClosesIn(<<>>, c) = 0
  BY <1>1, SumOfNone DEF ClosesIn
<1>3. QED
  BY <1>2 DEF Orderly, Way, Size

\* Settlement touches only what is past its expiry.
LEMMA SettlingStep ==
  ASSUME NEW longs, ClosesInv(longs), BeginSettle \/ SettleNext \/ SkipUnpriced
  PROVE  ContractsOrderly(longs)' /\ (\A c \in settling : Past(c))'
<1>1. orders' = orders /\ day' = day
  BY DEF BeginSettle, SettleNext, SkipUnpriced
<1>2. \A c \in settling' : Past(c)
  BY DEF ClosesInv, BeginSettle, SettleNext, SkipUnpriced
<1>3. ASSUME NEW c \in Contracts, Unexpired(c)
      PROVE  held'[c] = held[c]
  <2>1. CASE SettleNext
    <3>1. PICK d \in settling : held' = [held EXCEPT ![d] = @ - held[d]]
      BY <2>1 DEF SettleNext, Settle
    <3>2. d # c
      <4>1. day \in Int /\ c.expiry \in Int
        BY ContractsAssumption DEF ClosesInv, OptionsTypeOK, Contract
      <4>2. QED
        BY <1>3, <4>1 DEF ClosesInv, Unexpired, Past
    <3>3. QED
      BY <3>1, <3>2 DEF ClosesInv, OptionsTypeOK
  <2>2. CASE BeginSettle \/ SkipUnpriced
    BY <2>2 DEF BeginSettle, SkipUnpriced
  <2>3. QED
    BY <2>1, <2>2
<1>4. QED
  BY <1>1, <1>2, <1>3 DEF ClosesInv, ContractsOrderly, Orderly, Unexpired, Past

\* What the market and the day do, and a reset, leave the book in order.
LEMMA MarketStep ==
  ASSUME NEW longs, ClosesInv(longs),
         ResetBook \/ MoveSpot \/ MarketClose \/ TradeShares \/ UNCHANGED optionVars
  PROVE  ContractsOrderly(longs)' /\ (\A c \in settling : Past(c))'
<1>1. CASE ResetBook
  <2>1. /\ orders' = <<>> /\ held' = [d \in Contracts |-> 0]
        /\ UNCHANGED <<day, settling>>
    BY <1>1 DEF ResetBook
  <2>2. QED
    BY <2>1, EmptyIsOrderly DEF ClosesInv, ContractsOrderly, Past
<1>2. CASE MarketClose
  <2>1. day' = day + 1 /\ UNCHANGED <<held, orders, settling>> /\ day \in Nat
    BY <1>2 DEF MarketClose, ClosesInv, OptionsTypeOK
  <2>2. \A c \in Contracts : c.expiry \in Nat
    BY ContractsAssumption DEF Contract
  <2>3. \A c \in settling : c \in Contracts
    BY DEF ClosesInv, OptionsTypeOK
  <2>4. QED
    BY <2>1, <2>2, <2>3 DEF ClosesInv, ContractsOrderly, Orderly, Unexpired, Past
<1>3. CASE MoveSpot \/ TradeShares \/ UNCHANGED optionVars
  <2>1. UNCHANGED <<held, orders, day, settling>>
    BY <1>3 DEF MoveSpot, TradeShares, optionVars
  <2>2. QED
    BY <2>1 DEF ClosesInv, ContractsOrderly, Orderly, Unexpired, Past
<1>4. QED
  BY <1>1, <1>2, <1>3

\* Every step keeps ClosesInv, each action by its lemma.
LEMMA ClosesInvStep ==
  ASSUME NEW longs, OpenedOneWay(longs), ClosesInv(longs), [OptionsNext]_optionVars
  PROVE  ClosesInv(longs)'
<1>1. OptionsTypeOK'
  BY AssumptionsHold, StepTypes DEF ClosesInv
<1>2. CASE SubmitPackage
  BY <1>1, <1>2, OpenStep DEF ClosesInv, ContractsOrderly, Past
<1>3. CASE CloseSpread
  BY <1>1, <1>3, CloseStep DEF ClosesInv, ContractsOrderly, Past
<1>4. CASE Roll
  BY <1>1, <1>4, RollStep DEF ClosesInv, ContractsOrderly, Past
<1>5. CASE TryFill \/ CancelPackage
  BY <1>1, <1>5, RestingStep DEF ClosesInv, ContractsOrderly, Past
<1>6. CASE BeginSettle \/ SettleNext \/ SkipUnpriced
  BY <1>1, <1>6, SettlingStep DEF ClosesInv, ContractsOrderly
<1>7. CASE ResetBook \/ MoveSpot \/ MarketClose \/ TradeShares \/ UNCHANGED optionVars
  BY <1>1, <1>7, MarketStep DEF ClosesInv, ContractsOrderly
<1>8. QED
  BY <1>2, <1>3, <1>4, <1>5, <1>6, <1>7 DEF OptionsNext

\* In an orderly book no close takes more than is held or goes the wrong way.
LEMMA InvImpliesClosesNeverReopen ==
  ASSUME NEW longs, ClosesInv(longs)
  PROVE  ClosesNeverReopen
<1> SUFFICES ASSUME NEW c \in Contracts, Unexpired(c)
             PROVE  /\ WorkingCloses(c) <= Size(held[c])
                    /\ \A i \in WorkingPackages :
                         c \in orders[i].closes => orders[i].legs[c] * held[c] < 0
  BY DEF ClosesNeverReopen, Unexpired
<1>1. Orderly(orders, held, c, longs) /\ orders \in Seq(Package) /\ held[c] \in Int
  BY DEF ClosesInv, OptionsTypeOK
<1>2. WorkingCloses(c) = ClosesIn(orders, c)
  BY WorkingClosesAre
<1>3. ASSUME NEW i \in WorkingPackages, c \in orders[i].closes
      PROVE  orders[i].legs[c] * held[c] < 0
  <2> DEFINE q == orders[i].qty
             m == orders[i].legs[c]
             h == held[c]
  <2>1. i \in ClosersIn(orders, c) /\ orders[i] \in Package /\ orders[i].status = "new"
    BY <1>1, <1>3 DEF WorkingPackages, ClosersIn
  <2>2. q * Size(m) <= ClosesIn(orders, c) /\ ClosesIn(orders, c) \in Nat
    BY <1>1, <2>1, ClosesAreCounted
  <2>3. q \in Nat /\ q > 0 /\ m \in Int
    BY <2>1, BoundsAssumption DEF Package
  <2>4. /\ m # 0 /\ Way(-m, c, longs) /\ Way(h, c, longs)
        /\ ClosesIn(orders, c) <= Size(h)
    BY <1>1, <1>3, <2>1 DEF Orderly, PackageGoesItsWay, WorkingPackages
  <2> HIDE DEF q, m, h
  <2>5. h \in Int
    BY <1>1 DEF h
  <2>6. q * Size(m) > 0
    <3>1. Size(m) \in Nat /\ Size(m) > 0
      BY <2>3, <2>4 DEF Size
    <3>2. QED
      BY <2>3, <3>1
  <2>7. Size(h) > 0
    <3>1. Size(h) \in Nat /\ q * Size(m) \in Int
      BY <2>3, <2>5 DEF Size
    <3>2. QED
      BY <2>2, <2>4, <2>6, <3>1
  <2>8. (m < 0 /\ h > 0) \/ (m > 0 /\ h < 0)
    BY <2>3, <2>4, <2>5, <2>7 DEF Way, Size
  <2>9. m * h < 0
    BY <2>3, <2>5, <2>8
  <2>10. QED
    BY <2>9 DEF m, h
<1>4. QED
  BY <1>1, <1>2, <1>3 DEF Orderly

\* However closes, rolls, fills and cancels follow each other, what rests to
\* close a contract never comes to more than is held of it, and each against
\* the side it is held on (_assert_not_over_closing): where every contract is
\* opened on one side only, by buying those in longs and by selling the others.
THEOREM ClosesAlwaysClose ==
  ASSUME NEW CONSTANT longs, OpenedOneWay(longs)
  PROVE  OptionsSpec => []ClosesNeverReopen
<1>1. OptionsInit => ClosesInv(longs)
  <2> SUFFICES ASSUME OptionsInit
               PROVE  ClosesInv(longs)
    OBVIOUS
  <2>1. OptionsTypeOK /\ orders = <<>> /\ held = [c \in Contracts |-> 0] /\ settling = {}
    BY AssumptionsHold DEF OptionsInit, OptionsTypeOK, Assumptions
  <2>2. QED
    BY <2>1, EmptyIsOrderly DEF ClosesInv
<1>2. ClosesInv(longs) /\ [OptionsNext]_optionVars => ClosesInv(longs)'
  BY ClosesInvStep
<1>3. ClosesInv(longs) => ClosesNeverReopen
  BY InvImpliesClosesNeverReopen
<1>4. QED
  BY <1>1, <1>2, <1>3, PTL DEF OptionsSpec
=============================================================================

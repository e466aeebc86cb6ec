-------------------------- MODULE SpreadTicketsProofs --------------------------
(***************************************************************************)
(* The stated risk of every named ticket holds, whatever its strikes, its  *)
(* price and the settlement: the closed forms of spread_risk bound the     *)
(* payoff of the legs, and are zero where they say so.  And what a built   *)
(* package is said to risk is right, whatever its legs: a short is bare    *)
(* only where no order of handing out cover would spare it, and the        *)
(* extremes of the payoff are found at its strikes or beyond the last.     *)
(* Then the screener: no expiry that it shows holds a report it was to     *)
(* avoid.                                                                  *)
(***************************************************************************)
EXTENDS ChainScreen, SumLemmas

LegT ==
  [kind : {"call", "put"}, strike : Nat \ {0}, expiry : Nat, side : {"buy", "sell"}, ratio : Nat \ {0}]

Positive == Nat \ {0}

\* What one contract is worth at s.
CallAt(k, s) == IF s >= k THEN s - k ELSE 0
PutAt(k, s) == IF k >= s THEN k - s ELSE 0
-----------------------------------------------------------------------------
(* The payoff of a leg and of a package.                                   *)

\* A leg of ratio one is worth its contract, or owes it (leg_value).
LEMMA LegWorthIs ==
  ASSUME NEW l \in LegT, NEW s \in Nat
  PROVE  /\ LegWorth(l, s) \in Int
         /\ l.kind = "call" => Intrinsic(l, s) = CallAt(l.strike, s)
         /\ l.kind = "put" => Intrinsic(l, s) = PutAt(l.strike, s)
         /\ l.ratio = 1 /\ l.side = "buy" => LegWorth(l, s) = Intrinsic(l, s)
         /\ l.ratio = 1 /\ l.side = "sell" => LegWorth(l, s) = -Intrinsic(l, s)
         /\ l.ratio = 2 /\ l.side = "sell" => LegWorth(l, s) = -(2 * Intrinsic(l, s))
<1>1. /\ l.strike \in Nat \ {0} /\ l.kind \in {"call", "put"} /\ l.side \in {"buy", "sell"}
      /\ l.ratio \in Nat \ {0}
  BY DEF LegT
<1>2. /\ Intrinsic(l, s) \in Nat
      /\ l.kind = "call" => Intrinsic(l, s) = CallAt(l.strike, s)
      /\ l.kind = "put" => Intrinsic(l, s) = PutAt(l.strike, s)
  BY <1>1 DEF Intrinsic, CallAt, PutAt, Larger
<1>3. l.ratio * Intrinsic(l, s) \in Int
  BY <1>1, <1>2
<1> QED BY <1>1, <1>2, <1>3 DEF LegWorth

\* A package is worth what its legs are worth together (_position_value).
LEMMA PackageWorthIs ==
  ASSUME NEW n \in 1..4, NEW legs \in [1..n -> LegT], NEW s \in Nat
  PROVE  /\ n = 1 => PackageWorth(legs, s) = LegWorth(legs[1], s)
         /\ n = 2 => PackageWorth(legs, s) = LegWorth(legs[1], s) + LegWorth(legs[2], s)
         /\ n = 3 => PackageWorth(legs, s) =
                       LegWorth(legs[1], s) + LegWorth(legs[2], s) + LegWorth(legs[3], s)
         /\ n = 4 => PackageWorth(legs, s) =
                       LegWorth(legs[1], s) + LegWorth(legs[2], s) + LegWorth(legs[3], s)
                         + LegWorth(legs[4], s)
<1>1. \A i \in 1..n : LegWorth(legs[i], s) \in Int
  BY LegWorthIs
<1>2. \A i \in 1..4 : NthWorth(legs, i, s) = IF i <= n THEN LegWorth(legs[i], s) ELSE 0
  BY DEF NthWorth
<1> QED BY <1>1, <1>2 DEF PackageWorth

\* Without shares the result is the payoff less what was paid, or plus what
\* was received (payoff_curve).
LEMMA PnlIs ==
  ASSUME NEW strategy, NEW legs, NEW k, NEW price \in Positive, NEW stock \in Positive, NEW s \in Nat,
         strategy # "custom", strategy # "covered_call", PackageWorth(legs, s) \in Int
  PROVE  Pnl(Named(strategy, legs, k, price, stock), s) =
           IF strategy \in Debits THEN PackageWorth(legs, s) - price ELSE PackageWorth(legs, s) + price
<1>1. Charted(Named(strategy, legs, k, price, stock)) = 0
  BY DEF Charted, Named
<1>2. Net(Named(strategy, legs, k, price, stock)) = IF strategy \in Debits THEN price ELSE -price
  BY DEF Net, Named
<1>3. 0 * (s - stock) = 0
  BY DEF Positive
<1> QED BY <1>1, <1>2, <1>3 DEF Pnl, Named, PositionPnl, Positive

-----------------------------------------------------------------------------
(* What the contracts of a spread are worth together.                      *)

\* Between two calls the payoff grows from nothing to their width.
LEMMA CallSpread ==
  ASSUME NEW a \in Nat, NEW b \in Nat, NEW s \in Nat, a <= b
  PROVE  CallAt(a, s) - CallAt(b, s) = IF s <= a THEN 0 ELSE IF s <= b THEN s - a ELSE b - a
  BY DEF CallAt

\* Between two puts the payoff falls from their width to nothing.
LEMMA PutSpread ==
  ASSUME NEW a \in Nat, NEW b \in Nat, NEW s \in Nat, a <= b
  PROVE  PutAt(b, s) - PutAt(a, s) = IF s <= a THEN b - a ELSE IF s <= b THEN b - s ELSE 0
  BY DEF PutAt

\* A fly of even wings grows up to its middle strike and falls after it.
LEMMA EvenFly ==
  ASSUME NEW a \in Nat, NEW b \in Nat, NEW c \in Nat, NEW s \in Nat, a < b, 2 * b = a + c
  PROVE  /\ CallAt(a, s) - 2 * CallAt(b, s) + CallAt(c, s) =
              IF s <= a THEN 0 ELSE IF s <= b THEN s - a ELSE IF s <= c THEN c - s ELSE 0
         /\ PutAt(a, s) - 2 * PutAt(b, s) + PutAt(c, s) =
              IF s <= a THEN 0 ELSE IF s <= b THEN s - a ELSE IF s <= c THEN c - s ELSE 0
  BY DEF CallAt, PutAt

-----------------------------------------------------------------------------
(* The shapes.                                                             *)

\* A vertical, bought or sold, of calls or of puts.
LEMMA VerticalHolds ==
  ASSUME NEW strategy \in Verticals, NEW k \in [1..2 -> Positive],
         NEW price \in Positive, NEW stock \in Positive, Settlements \subseteq Nat,
         FieldsFit(strategy, k), PriceFits(strategy, k, price)
  PROVE  RiskHolds(Named(strategy, FieldLegs(strategy, k), k, price, stock))
<1> DEFINE legs == FieldLegs(strategy, k)
           p == Named(strategy, legs, k, price, stock)
           kind == IF strategy \in {"bull_call", "bear_call"} THEN "call" ELSE "put"
<1>1. legs = <<Leg(kind, k[1], "buy", 1, 1), Leg(kind, k[2], "sell", 1, 1)>>
  BY DEF FieldLegs, Verticals
<1>2. /\ Leg(kind, k[1], "buy", 1, 1) \in LegT /\ Leg(kind, k[2], "sell", 1, 1) \in LegT
      /\ k[1] \in Positive /\ k[2] \in Positive
  BY DEF Leg, LegT, Positive
<1>3. ASSUME NEW s \in Nat
      PROVE  PackageWorth(legs, s) =
               IF kind = "call" THEN CallAt(k[1], s) - CallAt(k[2], s) ELSE PutAt(k[1], s) - PutAt(k[2], s)
  <2>1. legs \in [1..2 -> LegT] /\ legs[1] = Leg(kind, k[1], "buy", 1, 1) /\ legs[2] = Leg(kind, k[2], "sell", 1, 1)
    BY <1>1, <1>2
  <2>2. PackageWorth(legs, s) = LegWorth(legs[1], s) + LegWorth(legs[2], s)
    BY <2>1, PackageWorthIs
  <2>3. LegWorth(legs[1], s) = IF kind = "call" THEN CallAt(k[1], s) ELSE PutAt(k[1], s)
    BY <2>1, <1>2, LegWorthIs DEF Leg
  <2>4. LegWorth(legs[2], s) = -(IF kind = "call" THEN CallAt(k[2], s) ELSE PutAt(k[2], s))
    BY <2>1, <1>2, LegWorthIs DEF Leg
  <2> HIDE DEF legs
  <2> QED BY <2>2, <2>3, <2>4, <1>2 DEF CallAt, PutAt, Positive
<1>4. ASSUME NEW s \in Nat
      PROVE  Pnl(p, s) = (IF strategy \in Debits THEN -price ELSE price)
               + (IF kind = "call" THEN CallAt(k[1], s) - CallAt(k[2], s) ELSE PutAt(k[1], s) - PutAt(k[2], s))
  <2>1. PackageWorth(legs, s) \in Int
    BY <1>2, <1>3 DEF CallAt, PutAt, Positive
  <2>2. strategy # "custom" /\ strategy # "covered_call"
    BY DEF Verticals
  <2> HIDE DEF legs
  <2> QED BY <2>1, <2>2, <1>2, <1>3, PnlIs DEF CallAt, PutAt, Positive
<1>5. /\ p.risk.maxProfit = MaxProfit(strategy, k, price, stock)
      /\ p.risk.maxLoss = {MaxLoss(strategy, k, price, stock)}
      /\ p.risk.breakevens = Breakevens(strategy, k, price, stock)
  BY DEF Named, SpreadRisk
<1> SUFFICES RiskHolds(p)
  OBVIOUS
<1> HIDE DEF p
<1>6. CASE strategy = "bull_call"
  <2>1. k[1] < k[2] /\ price < k[2] - k[1]
    BY <1>6, <1>2 DEF FieldsFit, PriceFits, Room, SingleLegs, Verticals, LongBelowShort, Pairs, TimeStrategies, Flies, Positive
  <2>2. /\ MaxProfit(strategy, k, price, stock) = {k[2] - k[1] - price}
        /\ MaxLoss(strategy, k, price, stock) = price
        /\ Breakevens(strategy, k, price, stock) = {k[1] + price}
    BY <1>6, <1>2, <2>1 DEF MaxProfit, MaxLoss, Breakevens, Room, Debits, Verticals, Pairs, TimeStrategies, Flies, Positive
  <2>3. ASSUME NEW s \in Nat
        PROVE  Pnl(p, s) = (-price) + (CallAt(k[1], s) - CallAt(k[2], s))
    BY <1>6, <1>4 DEF Debits, Pairs, Flies, TimeStrategies
  <2>4. ASSUME NEW s \in Nat
        PROVE  /\ Pnl(p, s) >= -price /\ Pnl(p, s) <= k[2] - k[1] - price
               /\ s = k[1] + price => Pnl(p, s) = 0
    BY <2>1, <2>3, <1>2 DEF CallAt, PutAt, Positive
  <2> QED BY <1>5, <1>2, <2>2, <2>4 DEF RiskHolds, Within, Positive
<1>7. CASE strategy = "bear_put"
  <2>1. k[1] > k[2] /\ price < k[1] - k[2]
    BY <1>7, <1>2 DEF FieldsFit, PriceFits, Room, SingleLegs, Verticals, LongBelowShort, Pairs, TimeStrategies, Flies, Positive
  <2>2. /\ MaxProfit(strategy, k, price, stock) = {k[1] - k[2] - price}
        /\ MaxLoss(strategy, k, price, stock) = price
        /\ Breakevens(strategy, k, price, stock) = {k[1] - price}
    BY <1>7, <1>2, <2>1 DEF MaxProfit, MaxLoss, Breakevens, Room, Debits, Verticals, Pairs, TimeStrategies, Flies, Positive
  <2>3. ASSUME NEW s \in Nat
        PROVE  Pnl(p, s) = (-price) + (PutAt(k[1], s) - PutAt(k[2], s))
    BY <1>7, <1>4 DEF Debits, Pairs, Flies, TimeStrategies
  <2>4. ASSUME NEW s \in Nat
        PROVE  /\ Pnl(p, s) >= -price /\ Pnl(p, s) <= k[1] - k[2] - price
               /\ s = k[1] - price => Pnl(p, s) = 0
    <3>1. k[1] \in Nat /\ k[2] \in Nat /\ k[2] <= k[1]
      BY <1>2, <2>1 DEF Positive
    <3>2. PutAt(k[1], s) - PutAt(k[2], s) =
            IF s <= k[2] THEN k[1] - k[2] ELSE IF s <= k[1] THEN k[1] - s ELSE 0
      BY <3>1, PutSpread
    <3> QED BY <2>1, <2>3, <3>1, <3>2 DEF Positive
  <2> QED BY <1>5, <1>2, <2>2, <2>4 DEF RiskHolds, Within, Positive
<1>8. CASE strategy = "bull_put"
  <2>1. k[1] < k[2] /\ price < k[2] - k[1]
    BY <1>8, <1>2 DEF FieldsFit, PriceFits, Room, SingleLegs, Verticals, LongBelowShort, Pairs, TimeStrategies, Flies, Positive
  <2>2. /\ MaxProfit(strategy, k, price, stock) = {price}
        /\ MaxLoss(strategy, k, price, stock) = k[2] - k[1] - price
        /\ Breakevens(strategy, k, price, stock) = {k[2] - price}
    BY <1>8, <1>2, <2>1 DEF MaxProfit, MaxLoss, Breakevens, Room, Debits, Verticals, Pairs, TimeStrategies, Flies, Positive
  <2>3. ASSUME NEW s \in Nat
        PROVE  Pnl(p, s) = price + (PutAt(k[1], s) - PutAt(k[2], s))
    BY <1>8, <1>4 DEF Debits, Pairs, Flies, TimeStrategies
  <2>4. ASSUME NEW s \in Nat
        PROVE  /\ Pnl(p, s) >= -(k[2] - k[1] - price) /\ Pnl(p, s) <= price
               /\ s = k[2] - price => Pnl(p, s) = 0
    BY <2>1, <2>3, <1>2 DEF CallAt, PutAt, Positive
  <2> QED BY <1>5, <1>2, <2>2, <2>4 DEF RiskHolds, Within, Positive
<1>9. CASE strategy = "bear_call"
  <2>1. k[1] > k[2] /\ price < k[1] - k[2]
    BY <1>9, <1>2 DEF FieldsFit, PriceFits, Room, SingleLegs, Verticals, LongBelowShort, Pairs, TimeStrategies, Flies, Positive
  <2>2. /\ MaxProfit(strategy, k, price, stock) = {price}
        /\ MaxLoss(strategy, k, price, stock) = k[1] - k[2] - price
        /\ Breakevens(strategy, k, price, stock) = {k[2] + price}
    BY <1>9, <1>2, <2>1 DEF MaxProfit, MaxLoss, Breakevens, Room, Debits, Verticals, Pairs, TimeStrategies, Flies, Positive
  <2>3. ASSUME NEW s \in Nat
        PROVE  Pnl(p, s) = price + (CallAt(k[1], s) - CallAt(k[2], s))
    BY <1>9, <1>4 DEF Debits, Pairs, Flies, TimeStrategies
  <2>4. ASSUME NEW s \in Nat
        PROVE  /\ Pnl(p, s) >= -(k[1] - k[2] - price) /\ Pnl(p, s) <= price
               /\ s = k[2] + price => Pnl(p, s) = 0
    BY <2>1, <2>3, <1>2 DEF CallAt, PutAt, Positive
  <2> QED BY <1>5, <1>2, <2>2, <2>4 DEF RiskHolds, Within, Positive
<1> QED BY <1>6, <1>7, <1>8, <1>9 DEF Verticals

\* A lone call or put: bought, written against shares, or secured by cash.
LEMMA LoneLegHolds ==
  ASSUME NEW strategy \in SingleLegs \cup {"covered_call", "cash_secured_put"},
         NEW legs \in [1..1 -> LegT], NEW k \in [1..1 -> Positive],
         NEW price \in Positive, NEW stock \in Positive, Settlements \subseteq Nat,
         legs[1].strike = k[1], legs[1].ratio = 1,
         legs[1].kind = IF strategy \in {"long_call", "covered_call"} THEN "call" ELSE "put",
         legs[1].side = IF strategy \in SingleLegs THEN "buy" ELSE "sell",
         PriceFits(strategy, k, price)
  PROVE  RiskHolds(Named(strategy, legs, k, price, stock))
<1> DEFINE p == Named(strategy, legs, k, price, stock)
<1>1. k[1] \in Positive /\ legs[1] \in LegT
  OBVIOUS
<1>2. ASSUME NEW s \in Nat
      PROVE  PackageWorth(legs, s) =
               CASE strategy = "long_call" -> CallAt(k[1], s)
                 [] strategy = "long_put" -> PutAt(k[1], s)
                 [] strategy = "covered_call" -> -CallAt(k[1], s)
                 [] OTHER -> -PutAt(k[1], s)
  <2>1. PackageWorth(legs, s) = LegWorth(legs[1], s)
    BY PackageWorthIs
  <2> QED BY <1>1, <2>1, LegWorthIs DEF SingleLegs
<1>3. /\ p.risk.maxProfit = MaxProfit(strategy, k, price, stock)
      /\ p.risk.maxLoss = {MaxLoss(strategy, k, price, stock)}
      /\ p.risk.breakevens = Breakevens(strategy, k, price, stock)
      /\ p.strategy = strategy /\ p.legs = legs
  BY DEF Named, SpreadRisk
<1> SUFFICES RiskHolds(p)
  OBVIOUS
<1>4. CASE strategy \in SingleLegs
  <2>1. ASSUME NEW s \in Nat
        PROVE  Pnl(p, s) = (IF strategy = "long_call" THEN CallAt(k[1], s) ELSE PutAt(k[1], s)) - price
    <3>1. PackageWorth(legs, s) = IF strategy = "long_call" THEN CallAt(k[1], s) ELSE PutAt(k[1], s)
      BY <1>2, <1>4 DEF SingleLegs
    <3>2. strategy # "custom" /\ strategy # "covered_call" /\ strategy \in Debits
      BY <1>4 DEF SingleLegs, Debits
    <3>3. PackageWorth(legs, s) \in Int
      BY <3>1, <1>1 DEF CallAt, PutAt, Positive
    <3> QED BY <3>1, <3>2, <3>3, PnlIs
  <2> HIDE DEF p
  <2>2. CASE strategy = "long_call"
    <3>1. /\ MaxProfit(strategy, k, price, stock) = {}
          /\ MaxLoss(strategy, k, price, stock) = price
          /\ Breakevens(strategy, k, price, stock) = {k[1] + price}
      BY <2>2 DEF MaxProfit, MaxLoss, Breakevens, Debits, Pairs, Flies, TimeStrategies
    <3>2. ASSUME NEW s \in Nat
          PROVE  Pnl(p, s) >= -price /\ (s = k[1] + price => Pnl(p, s) = 0)
      BY <2>1, <2>2, <1>1 DEF CallAt, Positive
    <3>3. p.risk.maxProfit = {} /\ p.risk.maxLoss = {price} /\ p.risk.breakevens = {k[1] + price}
      BY <1>3, <3>1
    <3>4. k[1] + price \in Nat
      BY <1>1 DEF Positive
    <3> QED BY <3>2, <3>3, <3>4 DEF RiskHolds
  <2>3. CASE strategy = "long_put"
    <3>1. /\ MaxProfit(strategy, k, price, stock) = {k[1] - price}
          /\ MaxLoss(strategy, k, price, stock) = price
          /\ Breakevens(strategy, k, price, stock) = {k[1] - price}
      BY <2>3 DEF MaxProfit, MaxLoss, Breakevens, Room, Debits, Pairs, Flies, TimeStrategies, Verticals
    <3>2. price < k[1]
      BY <2>3 DEF PriceFits, Room, Pairs, TimeStrategies, Flies, Verticals
    <3>3. ASSUME NEW s \in Nat
          PROVE  /\ Pnl(p, s) >= -price /\ Pnl(p, s) <= k[1] - price
                 /\ s = k[1] - price => Pnl(p, s) = 0
      BY <2>1, <2>3, <3>2, <1>1 DEF PutAt, Positive
    <3> QED BY <1>1, <1>3, <3>1, <3>3 DEF RiskHolds, Within, Positive
  <2> QED BY <1>4, <2>2, <2>3 DEF SingleLegs
<1>5. CASE strategy = "covered_call"
  <2>1. /\ MaxProfit(strategy, k, price, stock) = {k[1] - stock + price}
        /\ MaxLoss(strategy, k, price, stock) = stock - price
        /\ Breakevens(strategy, k, price, stock) = {stock - price}
    BY <1>5 DEF MaxProfit, MaxLoss, Breakevens, Debits, Pairs, Flies, TimeStrategies
  <2>2. ASSUME NEW s \in Nat
        PROVE  Pnl(p, s) = price - CallAt(k[1], s) + (s - stock)
    <3>1. Net(p) = -price /\ Charted(p) = 1 /\ p.stock = stock
      BY <1>5 DEF Net, Charted, Named, Debits, Pairs, Flies, TimeStrategies
    <3>2. PackageWorth(legs, s) = -CallAt(k[1], s)
      BY <1>2, <1>5
    <3>3. CallAt(k[1], s) \in Int /\ 1 * (s - stock) = s - stock
      BY <1>1 DEF CallAt, Positive
    <3> QED BY <1>3, <3>1, <3>2, <3>3 DEF Pnl, PositionPnl, Positive
  <2> HIDE DEF p
  <2>3. ASSUME NEW s \in Nat
        PROVE  /\ Pnl(p, s) >= -(stock - price) /\ Pnl(p, s) <= k[1] - stock + price
               /\ s <= k[1] /\ s = stock - price => Pnl(p, s) = 0
    BY <2>2, <1>1 DEF CallAt, Positive
  <2> QED BY <1>1, <1>3, <1>5, <2>1, <2>3 DEF RiskHolds, Within, Positive
<1>6. CASE strategy = "cash_secured_put"
  <2>1. /\ MaxProfit(strategy, k, price, stock) = {price}
        /\ MaxLoss(strategy, k, price, stock) = k[1] - price
        /\ Breakevens(strategy, k, price, stock) = {k[1] - price}
    BY <1>6 DEF MaxProfit, MaxLoss, Breakevens, Room, Debits, Pairs, Flies, TimeStrategies, Verticals
  <2>2. price < k[1]
    BY <1>6 DEF PriceFits, Room, Pairs, TimeStrategies, Flies, Verticals
  <2>3. ASSUME NEW s \in Nat
        PROVE  Pnl(p, s) = price - PutAt(k[1], s)
    <3>1. PackageWorth(legs, s) = -PutAt(k[1], s)
      BY <1>2, <1>6 DEF SingleLegs
    <3>2. strategy # "custom" /\ strategy # "covered_call" /\ strategy \notin Debits
      BY <1>6 DEF Debits, Pairs, Flies, TimeStrategies
    <3>3. PackageWorth(legs, s) \in Int /\ PutAt(k[1], s) \in Int
      BY <3>1, <1>1 DEF PutAt, Positive
    <3>4. Pnl(p, s) = PackageWorth(legs, s) + price
      BY <3>2, <3>3, PnlIs
    <3> HIDE DEF p
    <3> QED BY <3>1, <3>3, <3>4 DEF Positive
  <2> HIDE DEF p
  <2>4. ASSUME NEW s \in Nat
        PROVE  /\ Pnl(p, s) >= -(k[1] - price) /\ Pnl(p, s) <= price
               /\ s = k[1] - price => Pnl(p, s) = 0
    BY <2>2, <2>3, <1>1 DEF PutAt, Positive
  <2> QED BY <1>1, <1>3, <1>6, <2>1, <2>4 DEF RiskHolds, Within, Positive
<1> QED BY <1>4, <1>5, <1>6

\* A straddle or a strangle: it gains without limit on either side.
LEMMA PairHolds ==
  ASSUME NEW strategy \in Pairs, NEW legs \in [1..2 -> LegT], NEW k \in [1..2 -> Positive],
         NEW price \in Positive, NEW stock \in Positive, Settlements \subseteq Nat,
         legs[1].kind = "put", legs[2].kind = "call", k[1] <= k[2],
         \A i \in 1..2 : legs[i].strike = k[i] /\ legs[i].ratio = 1 /\ legs[i].side = "buy"
  PROVE  RiskHolds(Named(strategy, legs, k, price, stock))
<1> DEFINE p == Named(strategy, legs, k, price, stock)
<1>1. k[1] \in Positive /\ k[2] \in Positive /\ legs[1] \in LegT /\ legs[2] \in LegT
  OBVIOUS
<1>2. ASSUME NEW s \in Nat
      PROVE  Pnl(p, s) = PutAt(k[1], s) + CallAt(k[2], s) - price
  <2>1. PackageWorth(legs, s) = LegWorth(legs[1], s) + LegWorth(legs[2], s)
    BY PackageWorthIs
  <2>2. LegWorth(legs[1], s) = PutAt(k[1], s) /\ LegWorth(legs[2], s) = CallAt(k[2], s)
    BY <1>1, LegWorthIs
  <2>3. PutAt(k[1], s) \in Int /\ CallAt(k[2], s) \in Int
    BY <1>1 DEF CallAt, PutAt, Positive
  <2>4. strategy # "custom" /\ strategy # "covered_call" /\ strategy \in Debits
    BY DEF Pairs, Debits
  <2>5. PackageWorth(legs, s) \in Int
    BY <2>1, <2>2, <2>3
  <2>6. Pnl(p, s) = PackageWorth(legs, s) - price
    BY <2>4, <2>5, PnlIs
  <2> HIDE DEF p
  <2> QED BY <2>1, <2>2, <2>3, <2>6 DEF Positive
<1>3. /\ p.risk.maxProfit = {} /\ p.risk.maxLoss = {price}
      /\ p.risk.breakevens = {k[1] - price, k[2] + price}
  <2>1. /\ MaxProfit(strategy, k, price, stock) = {}
        /\ MaxLoss(strategy, k, price, stock) = price
        /\ Breakevens(strategy, k, price, stock) = {k[1] - price, k[2] + price}
    BY DEF MaxProfit, MaxLoss, Breakevens, Debits, Pairs, Flies, TimeStrategies
  <2> QED BY <2>1 DEF Named, SpreadRisk
<1> SUFFICES RiskHolds(p)
  OBVIOUS
<1> HIDE DEF p
<1>4. ASSUME NEW s \in Nat
      PROVE  /\ Pnl(p, s) >= -price
             /\ s = k[1] - price \/ s = k[2] + price => Pnl(p, s) = 0
  BY <1>1, <1>2 DEF CallAt, PutAt, Positive
<1> QED BY <1>1, <1>3, <1>4 DEF RiskHolds, Within, Positive

\* A fly whose wings are even.
LEMMA FlyHolds ==
  ASSUME NEW strategy \in Flies, NEW legs \in [1..3 -> LegT], NEW k \in [1..3 -> Positive],
         NEW kind \in {"call", "put"},
         NEW price \in Positive, NEW stock \in Positive, Settlements \subseteq Nat,
         \A i \in 1..3 : legs[i].strike = k[i] /\ legs[i].kind = kind,
         legs[1].side = "buy", legs[2].side = "sell", legs[3].side = "buy",
         legs[1].ratio = 1, legs[2].ratio = 2, legs[3].ratio = 1,
         k[1] < k[2], 2 * k[2] = k[1] + k[3], PriceFits(strategy, k, price)
  PROVE  RiskHolds(Named(strategy, legs, k, price, stock))
<1> DEFINE p == Named(strategy, legs, k, price, stock)
           At(i, s) == IF kind = "call" THEN CallAt(k[i], s) ELSE PutAt(k[i], s)
<1>1. /\ k[1] \in Positive /\ k[2] \in Positive /\ k[3] \in Positive
      /\ legs[1] \in LegT /\ legs[2] \in LegT /\ legs[3] \in LegT
  OBVIOUS
<1>2. ASSUME NEW s \in Nat
      PROVE  Pnl(p, s) = At(1, s) - 2 * At(2, s) + At(3, s) - price
  <2>1. PackageWorth(legs, s) = LegWorth(legs[1], s) + LegWorth(legs[2], s) + LegWorth(legs[3], s)
    BY PackageWorthIs
  <2>2. /\ LegWorth(legs[1], s) = At(1, s) /\ LegWorth(legs[2], s) = -(2 * At(2, s))
        /\ LegWorth(legs[3], s) = At(3, s)
    BY <1>1, LegWorthIs
  <2>3. At(1, s) \in Int /\ At(2, s) \in Int /\ At(3, s) \in Int
    BY <1>1 DEF CallAt, PutAt, Positive
  <2>4. strategy # "custom" /\ strategy # "covered_call" /\ strategy \in Debits
    BY DEF Flies, Debits
  <2> HIDE DEF At
  <2>5. PackageWorth(legs, s) \in Int
    BY <2>1, <2>2, <2>3
  <2>6. Pnl(p, s) = PackageWorth(legs, s) - price
    BY <2>4, <2>5, PnlIs
  <2> HIDE DEF p
  <2> QED BY <2>1, <2>2, <2>3, <2>6 DEF Positive
<1>3. price < k[2] - k[1] /\ Room(strategy, k) = k[2] - k[1]
  <2>1. Room(strategy, k) = Smaller(k[2] - k[1], k[3] - k[2])
    BY DEF Room, Flies, Verticals
  <2>2. Smaller(k[2] - k[1], k[3] - k[2]) = k[2] - k[1]
    BY <1>1 DEF Smaller, Positive
  <2>3. strategy \notin Pairs \cup TimeStrategies \cup {"covered_call", "long_call"}
    BY DEF Pairs, TimeStrategies, Flies
  <2> QED BY <2>1, <2>2, <2>3 DEF PriceFits
<1>4. /\ p.risk.maxProfit = {k[2] - k[1] - price} /\ p.risk.maxLoss = {price}
      /\ p.risk.breakevens = {k[1] + price, k[3] - price}
  BY <1>3 DEF Named, SpreadRisk, MaxProfit, MaxLoss, Breakevens, Debits, Pairs, Flies, TimeStrategies
<1> SUFFICES RiskHolds(p)
  OBVIOUS
<1> HIDE DEF p
<1>5. ASSUME NEW s \in Nat
      PROVE  /\ Pnl(p, s) >= -price /\ Pnl(p, s) <= k[2] - k[1] - price
             /\ s = k[1] + price \/ s = k[3] - price => Pnl(p, s) = 0
  <2>1. Pnl(p, s) = (IF s <= k[1] THEN 0 ELSE IF s <= k[2] THEN s - k[1]
                     ELSE IF s <= k[3] THEN k[3] - s ELSE 0) - price
    <3>1. k[1] \in Nat /\ k[2] \in Nat /\ k[3] \in Nat
      BY <1>1 DEF Positive
    <3>2. At(1, s) - 2 * At(2, s) + At(3, s) =
            IF s <= k[1] THEN 0 ELSE IF s <= k[2] THEN s - k[1] ELSE IF s <= k[3] THEN k[3] - s ELSE 0
      BY <3>1, EvenFly
    <3>3. At(1, s) \in Int /\ At(2, s) \in Int /\ At(3, s) \in Int
      BY <3>1 DEF CallAt, PutAt
    <3>4. Pnl(p, s) = At(1, s) - 2 * At(2, s) + At(3, s) - price
      BY <1>2
    <3> HIDE DEF At
    <3> QED BY <3>1, <3>2, <3>3, <3>4 DEF Positive
  <2> QED BY <1>1, <1>3, <2>1 DEF Positive
<1> QED BY <1>1, <1>4, <1>5 DEF RiskHolds, Within, Positive

\* An iron condor, or an iron fly, whose body is one strike.
LEMMA IronHolds ==
  ASSUME NEW strategy \in {"iron_condor", "iron_butterfly"},
         NEW legs \in [1..4 -> LegT], NEW k \in [1..4 -> Positive],
         NEW price \in Positive, NEW stock \in Positive, Settlements \subseteq Nat,
         \A i \in 1..4 : legs[i].strike = k[i] /\ legs[i].ratio = 1,
         legs[1].kind = "put", legs[2].kind = "put", legs[3].kind = "call", legs[4].kind = "call",
         legs[1].side = "buy", legs[2].side = "sell", legs[3].side = "sell", legs[4].side = "buy",
         k[1] < k[2], k[2] <= k[3], k[3] < k[4], strategy = "iron_butterfly" => k[2] = k[3],
         PriceFits(strategy, k, price)
  PROVE  RiskHolds(Named(strategy, legs, k, price, stock))
<1> DEFINE p == Named(strategy, legs, k, price, stock)
           room == Larger(k[2] - k[1], k[4] - k[3])
<1>1. /\ k[1] \in Positive /\ k[2] \in Positive /\ k[3] \in Positive /\ k[4] \in Positive
      /\ legs[1] \in LegT /\ legs[2] \in LegT /\ legs[3] \in LegT /\ legs[4] \in LegT
  OBVIOUS
<1>2. ASSUME NEW s \in Nat
      PROVE  Pnl(p, s) =
               PutAt(k[1], s) - PutAt(k[2], s) - CallAt(k[3], s) + CallAt(k[4], s) + price
  <2>1. PackageWorth(legs, s) =
          LegWorth(legs[1], s) + LegWorth(legs[2], s) + LegWorth(legs[3], s) + LegWorth(legs[4], s)
    BY PackageWorthIs
  <2>2. /\ LegWorth(legs[1], s) = PutAt(k[1], s) /\ LegWorth(legs[2], s) = -PutAt(k[2], s)
        /\ LegWorth(legs[3], s) = -CallAt(k[3], s) /\ LegWorth(legs[4], s) = CallAt(k[4], s)
    BY <1>1, LegWorthIs
  <2>3. /\ PutAt(k[1], s) \in Int /\ PutAt(k[2], s) \in Int
        /\ CallAt(k[3], s) \in Int /\ CallAt(k[4], s) \in Int
    BY <1>1 DEF CallAt, PutAt, Positive
  <2>4. strategy # "custom" /\ strategy # "covered_call" /\ strategy \notin Debits
    BY DEF Debits, Pairs, Flies, TimeStrategies
  <2>5. PackageWorth(legs, s) \in Int
    BY <2>1, <2>2, <2>3
  <2>6. Pnl(p, s) = PackageWorth(legs, s) + price
    BY <2>4, <2>5, PnlIs
  <2> HIDE DEF p
  <2> QED BY <2>1, <2>2, <2>3, <2>6 DEF Positive
<1>3. Room(strategy, k) = room /\ price < room
  <2>1. Room(strategy, k) = room
    BY DEF Room, Flies, Verticals
  <2>2. strategy \notin Pairs \cup TimeStrategies \cup {"covered_call", "long_call"}
    BY DEF Pairs, TimeStrategies
  <2> QED BY <2>1, <2>2 DEF PriceFits
<1>4. /\ p.risk.maxProfit = {price} /\ p.risk.maxLoss = {room - price}
      /\ p.risk.breakevens = {k[2] - price, k[3] + price}
      /\ p.strategy = strategy /\ p.legs[1].strike = k[1] /\ p.legs[4].strike = k[4]
  BY <1>3 DEF Named, SpreadRisk, MaxProfit, MaxLoss, Breakevens, Debits, Pairs, Flies, TimeStrategies
<1>5. /\ room \in Int /\ room >= k[2] - k[1] /\ room >= k[4] - k[3]
  BY <1>1 DEF Larger, Positive
<1> SUFFICES RiskHolds(p)
  OBVIOUS
<1> HIDE DEF p, room
<1>6. ASSUME NEW s \in Nat
      PROVE  /\ Pnl(p, s) >= -(room - price) /\ Pnl(p, s) <= price
             /\ (k[1] <= s /\ s <= k[4]) /\ (s = k[2] - price \/ s = k[3] + price) => Pnl(p, s) = 0
  <2>1. Pnl(p, s) = price + (IF s <= k[1] THEN k[1] - k[2] ELSE IF s <= k[2] THEN s - k[2] ELSE 0)
                      + (IF s <= k[3] THEN 0 ELSE IF s <= k[4] THEN k[3] - s ELSE k[3] - k[4])
    <3>1. PutAt(k[2], s) - PutAt(k[1], s) =
            IF s <= k[1] THEN k[2] - k[1] ELSE IF s <= k[2] THEN k[2] - s ELSE 0
    <4> k[1] \in Nat /\ k[2] \in Nat /\ k[1] <= k[2]
      BY <1>1 DEF Positive
    <4> QED BY PutSpread
    <3>2. CallAt(k[3], s) - CallAt(k[4], s) =
            IF s <= k[3] THEN 0 ELSE IF s <= k[4] THEN s - k[3] ELSE k[4] - k[3]
    <4> k[3] \in Nat /\ k[4] \in Nat /\ k[3] <= k[4]
      BY <1>1 DEF Positive
    <4> QED BY CallSpread
    <3>3. /\ PutAt(k[1], s) \in Int /\ PutAt(k[2], s) \in Int
          /\ CallAt(k[3], s) \in Int /\ CallAt(k[4], s) \in Int
      BY <1>1 DEF CallAt, PutAt, Positive
    <3> QED BY <1>1, <1>2, <3>1, <3>2, <3>3 DEF Positive
  <2> QED BY <1>1, <1>5, <2>1 DEF Positive
<1> QED BY <1>1, <1>4, <1>5, <1>6 DEF RiskHolds, Within, Positive

-----------------------------------------------------------------------------
(* The tickets.                                                            *)

\* A list of n legs has length n.
LEMMA LegListIs ==
  ASSUME NEW n \in 1..4, NEW legs \in LegLists(n)
  PROVE  legs \in [1..n -> LegT] /\ Len(legs) = n /\ DOMAIN legs = 1..n
<1>1. legs \in [1..n -> LegsOnTicket]
  BY DEF LegLists
<1>2. LegsOnTicket \subseteq LegT
  BY TicketAssumption DEF LegT
<1>3. Len(legs) = n
  BY <1>1
<1> QED BY <1>1, <1>2, <1>3

\* Whatever fields a ticket names, its stated risk holds.
LEMMA FieldTicketsHold ==
  ASSUME NEW strategy \in SingleLegs \cup Verticals \cup {"iron_condor"},
         NEW n \in 1..4, NEW k \in [1..n -> StrikesOnTicket],
         NEW price \in NetPrices, NEW stock \in StockPrices,
         FieldsFit(strategy, k), PriceFits(strategy, k, price)
  PROVE  RiskHolds(Named(strategy, FieldLegs(strategy, k), k, price, stock))
<1>1. /\ k \in [1..n -> Positive] /\ Len(k) = n
      /\ price \in Positive /\ stock \in Positive /\ Settlements \subseteq Nat
  <2>1. k \in [1..n -> Positive]
    BY TicketAssumption DEF Positive
  <2>2. Len(k) = n
    BY <2>1
  <2> QED BY <2>1, <2>2, TicketAssumption DEF Positive
<1>2. CASE strategy \in Verticals
  <2>1. n = 2
    BY <1>1, <1>2 DEF FieldsFit, Verticals, SingleLegs
  <2> QED BY <1>1, <1>2, <2>1, VerticalHolds
<1>3. CASE strategy \in SingleLegs
  <2>1. n = 1
    BY <1>1, <1>3 DEF FieldsFit, Verticals, SingleLegs
  <2>2. k[1] \in Positive
    BY <1>1, <2>1
  <2> DEFINE kind == IF strategy = "long_call" THEN "call" ELSE "put"
             leg == Leg(kind, k[1], "buy", 1, 1)
  <2>3. FieldLegs(strategy, k) = <<leg>>
    BY <1>3 DEF FieldLegs, SingleLegs
  <2>4. /\ leg \in LegT /\ leg.strike = k[1] /\ leg.ratio = 1 /\ leg.side = "buy"
        /\ leg.kind = kind
    BY <2>2 DEF Leg, LegT, Positive
  <2>5. kind = IF strategy \in {"long_call", "covered_call"} THEN "call" ELSE "put"
    BY <1>3 DEF SingleLegs
  <2> HIDE DEF leg, kind
  <2>6. <<leg>> \in [1..1 -> LegT] /\ <<leg>>[1] = leg
    BY <2>4
  <2> QED BY <1>1, <1>3, <2>1, <2>3, <2>4, <2>5, <2>6, LoneLegHolds
<1>4. CASE strategy = "iron_condor"
  <2>1. n = 4 /\ k[1] < k[2] /\ k[2] < k[3] /\ k[3] < k[4]
    BY <1>1, <1>4 DEF FieldsFit, Verticals, SingleLegs
  <2>2. k[1] \in Positive /\ k[2] \in Positive /\ k[3] \in Positive /\ k[4] \in Positive
    BY <1>1, <2>1
  <2> DEFINE a == Leg("put", k[1], "buy", 1, 1)
             b == Leg("put", k[2], "sell", 1, 1)
             c == Leg("call", k[3], "sell", 1, 1)
             d == Leg("call", k[4], "buy", 1, 1)
             legs == <<a, b, c, d>>
  <2>3. FieldLegs(strategy, k) = legs
    BY <1>4 DEF FieldLegs
  <2>4. /\ a \in LegT /\ a.strike = k[1] /\ a.ratio = 1 /\ a.kind = "put" /\ a.side = "buy"
        /\ b \in LegT /\ b.strike = k[2] /\ b.ratio = 1 /\ b.kind = "put" /\ b.side = "sell"
        /\ c \in LegT /\ c.strike = k[3] /\ c.ratio = 1 /\ c.kind = "call" /\ c.side = "sell"
        /\ d \in LegT /\ d.strike = k[4] /\ d.ratio = 1 /\ d.kind = "call" /\ d.side = "buy"
    BY <2>2 DEF Leg, LegT, Positive
  <2> HIDE DEF a, b, c, d
  <2>5. legs \in [1..4 -> LegT] /\ legs[1] = a /\ legs[2] = b /\ legs[3] = c /\ legs[4] = d
    BY <2>4
  <2> HIDE DEF legs
  <2>6. \A i \in 1..4 : legs[i].strike = k[i] /\ legs[i].ratio = 1
    BY <2>4, <2>5
  <2>7. k[2] <= k[3]
    BY <2>1, <2>2 DEF Positive
  <2> QED BY <1>1, <1>4, <2>1, <2>3, <2>4, <2>5, <2>6, <2>7, IronHolds
<1> QED BY <1>2, <1>3, <1>4

\* Whatever legs a ticket lists, its stated risk holds.
LEMMA ListedTicketsHold ==
  ASSUME NEW strategy \in LegsStrategies \ TimeStrategies,
         NEW n \in 1..4, NEW legs \in LegLists(n),
         NEW price \in NetPrices, NEW stock \in StockPrices,
         LegsFit(strategy, legs), PriceFits(strategy, Strikes(legs), price),
         EvenWings(Named(strategy, legs, Strikes(legs), price, stock))
  PROVE  RiskHolds(Named(strategy, legs, Strikes(legs), price, stock))
<1> DEFINE k == Strikes(legs)
<1>1. /\ legs \in [1..n -> LegT] /\ Len(legs) = n /\ DOMAIN legs = 1..n
      /\ price \in Positive /\ stock \in Positive /\ Settlements \subseteq Nat
  BY LegListIs, TicketAssumption DEF Positive
<1>2. k \in [1..n -> Positive] /\ \A i \in 1..n : legs[i].strike = k[i]
  BY <1>1 DEF Strikes, LegT, Positive
<1> HIDE DEF k
<1>3. CASE strategy \in {"covered_call", "cash_secured_put"}
  <2>1. KindsAre(legs, <<IF strategy = "covered_call" THEN "call" ELSE "put">>) /\ SidesAre(legs, <<"sell">>)
    BY <1>3 DEF LegsFit
  <2>2. OneEach(legs)
    BY <1>3 DEF LegsFit
  <2>3. n = 1
    BY <1>1, <2>1 DEF KindsAre
  <2>4. /\ legs[1].kind = (IF strategy = "covered_call" THEN "call" ELSE "put")
        /\ legs[1].side = "sell" /\ legs[1].ratio = 1
    BY <1>1, <2>1, <2>2, <2>3 DEF KindsAre, SidesAre, OneEach
  <2>5. /\ legs[1].kind = IF strategy \in {"long_call", "covered_call"} THEN "call" ELSE "put"
        /\ legs[1].side = IF strategy \in SingleLegs THEN "buy" ELSE "sell"
    BY <1>3, <2>4 DEF SingleLegs
  <2>6. PriceFits(strategy, k, price)
    BY DEF k
  <2>7. RiskHolds(Named(strategy, legs, k, price, stock))
    BY <1>1, <1>2, <1>3, <2>3, <2>4, <2>5, <2>6, LoneLegHolds
  <2> QED BY <2>7 DEF k
<1>4. CASE strategy \in Pairs
  <2>1. IsPair(legs) /\ legs[1].strike <= legs[2].strike
    <3>1. CASE strategy = "long_straddle"
      <4>1. IsPair(legs) /\ legs[1].strike = legs[2].strike
        BY <3>1 DEF LegsFit
      <4>2. n = 2
        BY <1>1, <4>1 DEF IsPair, KindsAre
      <4> QED BY <1>2, <4>1, <4>2 DEF Positive
    <3>2. CASE strategy = "long_strangle"
      <4>1. IsPair(legs) /\ legs[1].strike < legs[2].strike
        BY <3>2 DEF LegsFit
      <4>2. n = 2
        BY <1>1, <4>1 DEF IsPair, KindsAre
      <4> QED BY <1>2, <4>1, <4>2 DEF Positive
    <3> QED BY <1>4, <3>1, <3>2 DEF Pairs
  <2>2. OneEach(legs)
    BY <1>4 DEF LegsFit, Pairs
  <2>3. n = 2
    BY <1>1, <2>1 DEF IsPair, KindsAre
  <2>4. /\ legs[1].kind = "put" /\ legs[2].kind = "call"
        /\ \A i \in 1..2 : legs[i].ratio = 1 /\ legs[i].side = "buy"
    BY <1>1, <2>1, <2>2, <2>3 DEF IsPair, KindsAre, SidesAre, OneEach
  <2>5. k[1] <= k[2]
    BY <1>2, <2>1, <2>3
  <2>6. RiskHolds(Named(strategy, legs, k, price, stock))
    BY <1>1, <1>2, <1>4, <2>3, <2>4, <2>5, PairHolds
  <2> QED BY <2>6 DEF k
<1>5. CASE strategy \in Flies
  <2> DEFINE kind == IF strategy = "call_butterfly" THEN "call" ELSE "put"
  <2>1. IsFly(legs, kind)
    BY <1>5 DEF LegsFit, Flies
  <2>2. kind \in {"call", "put"}
    OBVIOUS
  <2> HIDE DEF kind
  <2>3. n = 3
    BY <1>1, <2>1 DEF IsFly, KindsAre
  <2>4. \A i \in 1..3 : legs[i].kind = kind
    BY <1>1, <2>1, <2>3 DEF IsFly, KindsAre
  <2>5. /\ legs[1].side = "buy" /\ legs[2].side = "sell" /\ legs[3].side = "buy"
        /\ legs[1].ratio = 1 /\ legs[2].ratio = 2 /\ legs[3].ratio = 1
    BY <1>1, <2>1, <2>3 DEF IsFly, SidesAre
  <2>6. k[1] < k[2]
    BY <1>2, <2>1, <2>3 DEF IsFly
  <2>7. 2 * k[2] = k[1] + k[3]
    BY <1>2, <1>5, <2>3 DEF EvenWings, Named
  <2>8. PriceFits(strategy, k, price)
    BY DEF k
  <2>9. RiskHolds(Named(strategy, legs, k, price, stock))
    BY <1>1, <1>2, <1>5, <2>2, <2>3, <2>4, <2>5, <2>6, <2>7, <2>8, FlyHolds
  <2> QED BY <2>9 DEF k
<1>6. CASE strategy = "iron_butterfly"
  <2>1. IsIronFly(legs) /\ OneEach(legs)
    BY <1>6 DEF LegsFit
  <2>2. n = 4
    BY <1>1, <2>1 DEF IsIronFly, KindsAre
  <2>3. /\ legs[1].kind = "put" /\ legs[2].kind = "put" /\ legs[3].kind = "call" /\ legs[4].kind = "call"
        /\ legs[1].side = "buy" /\ legs[2].side = "sell" /\ legs[3].side = "sell" /\ legs[4].side = "buy"
    BY <1>1, <2>1, <2>2 DEF IsIronFly, KindsAre, SidesAre
  <2>4. \A i \in 1..4 : legs[i].ratio = 1
    BY <1>1, <2>1, <2>2 DEF OneEach
  <2>5. k[1] < k[2] /\ k[2] = k[3] /\ k[2] < k[4]
    BY <1>2, <2>1, <2>2 DEF IsIronFly
  <2>6. k[2] <= k[3] /\ k[3] < k[4]
    BY <1>2, <2>2, <2>5 DEF Positive
  <2>7. PriceFits(strategy, k, price)
    BY DEF k
  <2>8. RiskHolds(Named(strategy, legs, k, price, stock))
    BY <1>1, <1>2, <1>6, <2>2, <2>3, <2>4, <2>5, <2>6, <2>7, IronHolds
  <2> QED BY <2>8 DEF k
<1> QED BY <1>3, <1>4, <1>5, <1>6 DEF LegsStrategies, TimeStrategies, Pairs, Flies

-----------------------------------------------------------------------------
(* The theorem.                                                            *)

\* What a ticket says it risks bounds what it comes to, at every settlement and
\* for every choice of strikes, prices and legs (spread_risk).
THEOREM StatedRiskAlwaysHolds == SpreadSpec => []StatedRiskHolds
<1>1. SpreadInit => StatedRiskHolds
  BY DEF SpreadInit, StatedRiskHolds
<1>2. StatedRiskHolds /\ [SpreadNext]_preview => StatedRiskHolds'
  <2> SUFFICES ASSUME StatedRiskHolds, [SpreadNext]_preview PROVE StatedRiskHolds'
    OBVIOUS
  <2>1. ASSUME NEW n \in 1..4, NEW k \in [1..n -> StrikesOnTicket],
               NEW strategy \in SingleLegs \cup Verticals \cup {"iron_condor"},
               PreviewFields(strategy, k)
        PROVE  StatedRiskHolds'
    <3> PICK price \in NetPrices, stock \in StockPrices :
          /\ FieldsFit(strategy, k) /\ PriceFits(strategy, k, price)
          /\ preview' = <<Named(strategy, FieldLegs(strategy, k), k, price, stock)>>
      BY <2>1 DEF PreviewFields
    <3>1. RiskHolds(Named(strategy, FieldLegs(strategy, k), k, price, stock))
      BY FieldTicketsHold
    <3> HIDE DEF Named
    <3> QED BY <3>1 DEF StatedRiskHolds
  <2>2. ASSUME NEW n \in 1..4, NEW legs \in LegLists(n), NEW strategy \in LegsStrategies,
               PreviewLegs(strategy, legs)
        PROVE  StatedRiskHolds'
    <3> PICK price \in NetPrices, stock \in StockPrices :
          /\ LegsFit(strategy, legs) /\ PriceFits(strategy, Strikes(legs), price)
          /\ preview' = <<Named(strategy, legs, Strikes(legs), price, stock)>>
      BY <2>2 DEF PreviewLegs
    <3> DEFINE p == Named(strategy, legs, Strikes(legs), price, stock)
    <3>1. p.strategy = strategy
      BY DEF Named
    <3>2. strategy \notin TimeStrategies /\ EvenWings(p) => RiskHolds(p)
      BY ListedTicketsHold
    <3>3. preview' = <<p>>
      OBVIOUS
    <3> HIDE DEF p
    <3> QED BY <3>1, <3>2, <3>3 DEF StatedRiskHolds
  <2>3. ASSUME NEW n \in 1..4, NEW legs \in LegLists(n), PreviewBuilt(legs)
        PROVE  StatedRiskHolds'
    <3>1. PICK p : preview' = <<p>> /\ p.strategy = "custom"
      BY <2>3 DEF PreviewBuilt
    <3> QED BY <3>1 DEF StatedRiskHolds
  <2>4. CASE NewTicket
    BY <2>4 DEF NewTicket, StatedRiskHolds
  <2>5. CASE UNCHANGED preview
    BY <2>5 DEF StatedRiskHolds
  <2> QED BY <2>1, <2>2, <2>3, <2>4, <2>5 DEF SpreadNext
<1> QED BY <1>1, <1>2, PTL DEF SpreadSpec

-----------------------------------------------------------------------------
(* What a long gives a short.                                              *)

Kinds == {"call", "put"}

\* One to four legs, in the order of a ticket.
Ticket(legs) == \E n \in 1..4 : legs \in [1..n -> LegT] /\ InTicketOrder(legs)

Counting == [1..4 -> Nat]

\* The longs, or shorts, of a kind that still run at e.
Runs(legs, kind, side, e, i) ==
  i \in DOMAIN legs /\ legs[i].kind = kind /\ legs[i].side = side /\ legs[i].expiry >= e

NthOf(runs, w) == IF runs THEN w ELSE 0

\* A leg of a ticket has the fields a leg has.
LEMMA TicketIs ==
  ASSUME NEW legs, Ticket(legs), NEW i \in DOMAIN legs
  PROVE  /\ i \in 1..4 /\ legs[i].kind \in Kinds /\ legs[i].strike \in Nat /\ legs[i].expiry \in Nat
         /\ legs[i].side \in {"buy", "sell"} /\ legs[i].ratio \in Nat /\ legs[i].ratio > 0
<1>1. PICK n \in 1..4 : legs \in [1..n -> LegT]
  BY DEF Ticket
<1>2. legs[i] \in LegT /\ i \in 1..4
  BY <1>1
<1> QED BY <1>2 DEF LegT, Kinds

\* Of the longs of a kind the one that expires first is listed first.
LEMMA EarlierFirst ==
  ASSUME NEW legs, Ticket(legs), NEW i \in DOMAIN legs, NEW j \in DOMAIN legs,
         legs[i].kind = legs[j].kind, legs[i].expiry < legs[j].expiry
  PROVE  i < j
<1>1. InTicketOrder(legs) /\ i \in Nat /\ j \in Nat
  BY TicketIs DEF Ticket
<1>2. legs[i].expiry \in Nat /\ legs[j].expiry \in Nat
  BY TicketIs
<1>3. Follows(legs[j], legs[i])
  BY <1>2 DEF Follows
<1>4. i # j
  BY <1>2
<1>5. ~(j < i)
  BY <1>1, <1>3 DEF InTicketOrder
<1> QED BY <1>1, <1>4, <1>5

\* What one long gives.
Given(covers, need, left) == IF covers THEN Smaller(need, left) ELSE 0

\* A long of which left[j] is left gives n, and more and rest are what remains.
Gave(legs, i, need, left, j, n, more, rest) ==
  /\ n = Given(Covers(legs, j, i), need, left[j])
  /\ n \in Nat /\ n <= need /\ n <= left[j]
  /\ rest = need - n /\ rest \in Nat
  /\ more \in Counting /\ more[j] = left[j] - n /\ \A k \in 1..4 : k # j => more[k] = left[k]
  /\ TakeCover(legs, i, [need |-> need, left |-> left], j) = [need |-> rest, left |-> more]

\* A long that covers the short gives what is needed, or what is left of it.
LEMMA TakeCoverIs ==
  ASSUME NEW legs, NEW i, NEW need \in Nat, NEW left \in Counting, NEW j \in 1..4
  PROVE  \E n, more, rest : Gave(legs, i, need, left, j, n, more, rest)
<1> DEFINE n == Given(Covers(legs, j, i), need, left[j])
           more == [left EXCEPT ![j] = left[j] - n]
<1>1. left[j] \in Nat
  BY DEF Counting
<1>2. n \in Nat /\ n <= need /\ n <= left[j]
  BY <1>1 DEF Given, Smaller
<1>3. TakeCover(legs, i, [need |-> need, left |-> left], j) = [need |-> need - n, left |-> more]
  BY DEF TakeCover, Given
<1>4. need - n \in Nat /\ left[j] - n \in Nat
  BY <1>1, <1>2
<1>5. n = Given(Covers(legs, j, i), need, left[j])
  OBVIOUS
<1> HIDE DEF n
<1>6. more \in Counting /\ more[j] = left[j] - n /\ \A k \in 1..4 : k # j => more[k] = left[k]
  BY <1>4 DEF Counting
<1> HIDE DEF more
<1> QED BY <1>2, <1>3, <1>4, <1>5, <1>6 DEF Gave

\* x is what a short of r contracts is given by the longs that cover it: all it
\* needs, or all there is, and nothing of a long that follows one it left over.
Gives(legs, i, r, left, x) ==
  /\ x \in Counting
  /\ \A j \in 1..4 : x[j] <= left[j] /\ (~Covers(legs, j, i) => x[j] = 0)
  /\ x[1] + x[2] + x[3] + x[4] <= r
  /\ x[1] + x[2] + x[3] + x[4] < r => \A j \in 1..4 : Covers(legs, j, i) => x[j] = left[j]
  /\ \A j, k \in 1..4 : j < k /\ Covers(legs, j, i) /\ x[j] < left[j] => x[k] = 0

\* What is left, and bare, when it has been given x.
Served(legs, i, r, left, bare, x) ==
  /\ Gives(legs, i, r, left, x)
  /\ CoverShort(legs, [left |-> left, bare |-> bare], i) =
       [left |-> [j \in 1..4 |-> left[j] - x[j]],
        bare |-> IF x[1] + x[2] + x[3] + x[4] < r THEN bare \cup {i} ELSE bare]

\* A short is given what the longs can give, and is bare if that is too little.
LEMMA CoverShortIs ==
  ASSUME NEW legs, NEW i, NEW r \in Nat, r = legs[i].ratio, NEW left \in Counting, NEW bare
  PROVE  \E x : Served(legs, i, r, left, bare, x)
<1> DEFINE c(j) == Covers(legs, j, i)
<1>i. 1 \in 1..4 /\ 2 \in 1..4 /\ 3 \in 1..4 /\ 4 \in 1..4
  OBVIOUS
<1>p1. PICK n1, l1, r1 : Gave(legs, i, r, left, 1, n1, l1, r1)
  BY <1>i, TakeCoverIs, Zenon
<1>t1. l1 \in Counting /\ r1 \in Nat
  BY <1>p1 DEF Gave
<1>p2. PICK n2, l2, r2 : Gave(legs, i, r1, l1, 2, n2, l2, r2)
  BY <1>i, <1>t1, TakeCoverIs, Zenon
<1>t2. l2 \in Counting /\ r2 \in Nat
  BY <1>p2 DEF Gave
<1>p3. PICK n3, l3, r3 : Gave(legs, i, r2, l2, 3, n3, l3, r3)
  BY <1>i, <1>t2, TakeCoverIs, Zenon
<1>t3. l3 \in Counting /\ r3 \in Nat
  BY <1>p3 DEF Gave
<1>p4. PICK n4, l4, r4 : Gave(legs, i, r3, l3, 4, n4, l4, r4)
  BY <1>i, <1>t3, TakeCoverIs, Zenon
<1>1. /\ n1 = Given(c(1), r, left[1]) /\ n1 \in Nat /\ n1 <= r /\ n1 <= left[1]
      /\ r1 = r - n1 /\ r1 \in Nat /\ l1 \in Counting
  BY <1>p1 DEF Gave
<1>a. l1[1] = left[1] - n1 /\ l1[2] = left[2] /\ l1[3] = left[3] /\ l1[4] = left[4]
  BY <1>p1 DEF Gave
<1>2. /\ n2 = Given(c(2), r1, l1[2]) /\ n2 \in Nat /\ n2 <= r1 /\ n2 <= l1[2]
      /\ r2 = r1 - n2 /\ r2 \in Nat /\ l2 \in Counting
  BY <1>p2 DEF Gave
<1>b. l2[1] = l1[1] /\ l2[2] = l1[2] - n2 /\ l2[3] = l1[3] /\ l2[4] = l1[4]
  BY <1>p2 DEF Gave
<1>3. /\ n3 = Given(c(3), r2, l2[3]) /\ n3 \in Nat /\ n3 <= r2 /\ n3 <= l2[3]
      /\ r3 = r2 - n3 /\ r3 \in Nat /\ l3 \in Counting
  BY <1>p3 DEF Gave
<1>c. l3[1] = l2[1] /\ l3[2] = l2[2] /\ l3[3] = l2[3] - n3 /\ l3[4] = l2[4]
  BY <1>p3 DEF Gave
<1>4. /\ n4 = Given(c(4), r3, l3[4]) /\ n4 \in Nat /\ n4 <= r3 /\ n4 <= l3[4]
      /\ r4 = r3 - n4 /\ r4 \in Nat /\ l4 \in Counting
  BY <1>p4 DEF Gave
<1>d. l4[1] = l3[1] /\ l4[2] = l3[2] /\ l4[3] = l3[3] /\ l4[4] = l3[4] - n4
  BY <1>p4 DEF Gave
<1>5. InTurn(LAMBDA a, j : TakeCover(legs, i, a, j), [need |-> r, left |-> left]) = [need |-> r4, left |-> l4]
  BY <1>p1, <1>p2, <1>p3, <1>p4 DEF InTurn, Gave
<1>6. CoverShort(legs, [left |-> left, bare |-> bare], i) =
        [left |-> l4, bare |-> IF r4 > 0 THEN bare \cup {i} ELSE bare]
  <2>1. PICK st : st = [left |-> left, bare |-> bare]
    OBVIOUS
  <2>2. PICK done : done = [need |-> r4, left |-> l4]
    OBVIOUS
  <2>3. st.left = left /\ st.bare = bare /\ done.need = r4 /\ done.left = l4
    BY <2>1, <2>2
  <2>4. CoverShort(legs, st, i) =
          [left |-> done.left, bare |-> IF done.need > 0 THEN st.bare \cup {i} ELSE st.bare]
    BY <1>5, <2>2, <2>3, Zenon DEF CoverShort
  <2> QED BY <2>1, <2>3, <2>4, Zenon
<1> DEFINE x == [j \in 1..4 |-> IF j = 1 THEN n1 ELSE IF j = 2 THEN n2 ELSE IF j = 3 THEN n3 ELSE n4]
<1>7. x[1] = n1 /\ x[2] = n2 /\ x[3] = n3 /\ x[4] = n4 /\ x \in Counting
  <2>1. n1 \in Nat /\ n2 \in Nat /\ n3 \in Nat /\ n4 \in Nat
    BY <1>1, <1>2, <1>3, <1>4
  <2> QED BY <2>1 DEF Counting
<1> HIDE DEF x, c
<1>e. x[1] = n1 /\ x[2] = n2 /\ x[3] = n3 /\ x[4] = n4
  BY <1>7
<1>s. /\ n1 \in Nat /\ n2 \in Nat /\ n3 \in Nat /\ n4 \in Nat
      /\ r1 = r - n1 /\ r2 = r1 - n2 /\ r3 = r2 - n3 /\ r4 = r3 - n4
  BY <1>1, <1>2, <1>3, <1>4
<1>8. PICK a1 \in Nat, a2 \in Nat, a3 \in Nat, a4 \in Nat :
        left[1] = a1 /\ left[2] = a2 /\ left[3] = a3 /\ left[4] = a4
  BY DEF Counting
<1>9. l4[1] = left[1] - x[1] /\ l4[2] = left[2] - x[2] /\ l4[3] = left[3] - x[3] /\ l4[4] = left[4] - x[4]
  BY <1>a, <1>b, <1>c, <1>d, <1>7
<1>10. l4 = [j \in 1..4 |-> left[j] - x[j]]
  <2>1. l4 = [j \in 1..4 |-> l4[j]]
    BY <1>4 DEF Counting
  <2>2. \A j \in 1..4 : l4[j] = left[j] - x[j]
    BY <1>9
  <2> QED BY <2>1, <2>2
<1>12. /\ n1 = Given(c(1), r, a1) /\ n2 = Given(c(2), r - n1, a2)
       /\ n3 = Given(c(3), r - n1 - n2, a3) /\ n4 = Given(c(4), r - n1 - n2 - n3, a4)
  BY <1>8, <1>a, <1>b, <1>c, <1>1, <1>2, <1>3, <1>4
<1>13. /\ n1 <= r /\ n2 <= r - n1 /\ n3 <= r - n1 - n2 /\ n4 <= r - n1 - n2 - n3
       /\ n1 <= a1 /\ n2 <= a2 /\ n3 <= a3 /\ n4 <= a4
  BY <1>1, <1>2, <1>3, <1>4, <1>8, <1>a, <1>b, <1>c
<1>n. /\ ~c(1) => n1 = 0
      /\ ~c(2) => n2 = 0
      /\ ~c(3) => n3 = 0
      /\ ~c(4) => n4 = 0
  BY <1>12, Zenon DEF Given
<1>m. /\ c(1) => n1 = Smaller(r, a1)
      /\ c(2) => n2 = Smaller(r - n1, a2)
      /\ c(3) => n3 = Smaller(r - n1 - n2, a3)
      /\ c(4) => n4 = Smaller(r - n1 - n2 - n3, a4)
  BY <1>12, Zenon DEF Given
<1>o. /\ n1 + n2 + n3 + n4 <= r
      /\ n1 = Smaller(r, a1) /\ n1 < a1 => n1 = r /\ n2 = 0 /\ n3 = 0 /\ n4 = 0
      /\ n2 = Smaller(r - n1, a2) /\ n2 < a2 => n1 + n2 = r /\ n3 = 0 /\ n4 = 0
      /\ n3 = Smaller(r - n1 - n2, a3) /\ n3 < a3 => n1 + n2 + n3 = r /\ n4 = 0
      /\ n4 = Smaller(r - n1 - n2 - n3, a4) /\ n4 < a4 => n1 + n2 + n3 + n4 = r
  <2>1. r \in Nat
    OBVIOUS
  <2> QED BY ONLY <2>1, a1 \in Nat, a2 \in Nat, a3 \in Nat, a4 \in Nat, <1>s, <1>13
       DEF Smaller
<1>14. Gives(legs, i, r, left, x)
  <2>0. \A j \in 1..4 : j = 1 \/ j = 2 \/ j = 3 \/ j = 4
    OBVIOUS
  <2>1. \A j \in 1..4 : x[j] <= left[j] /\ (~c(j) => x[j] = 0)
    BY <2>0, <1>e, <1>8, <1>13, <1>n, Zenon
  <2>2. ASSUME x[1] + x[2] + x[3] + x[4] < r, NEW j \in 1..4, c(j), x[j] # left[j]
        PROVE  FALSE
    <3>1. n1 + n2 + n3 + n4 < r /\ n1 + n2 + n3 # r /\ n1 + n2 # r /\ n1 # r
      BY <2>2, <1>e, <1>s
    <3>2. n1 + n2 + n3 + n4 # r
      BY <3>1, <1>s
    <3>3. /\ n1 # a1 => n1 < a1
          /\ n2 # a2 => n2 < a2
          /\ n3 # a3 => n3 < a3
          /\ n4 # a4 => n4 < a4
      BY ONLY a1 \in Nat, a2 \in Nat, a3 \in Nat, a4 \in Nat, <1>13, <1>s
    <3> QED BY <2>0, <2>2, <1>e, <1>8, <1>m, <1>o, <3>1, <3>2, <3>3, Zenon
  <2>3. ASSUME NEW j \in 1..4, NEW k \in 1..4, j < k, c(j), x[j] < left[j]
        PROVE  x[k] = 0
    <3>1. \/ j = 1 /\ k \in {2, 3, 4}
          \/ j = 2 /\ k \in {3, 4}
          \/ j = 3 /\ k = 4
      BY <2>3
    <3>2. CASE j = 1 /\ k \in {2, 3, 4}
      BY <3>2, <2>3, <1>e, <1>8, <1>m, <1>o, Zenon
    <3>3. CASE j = 2 /\ k \in {3, 4}
      BY <3>3, <2>3, <1>e, <1>8, <1>m, <1>o, Zenon
    <3>4. CASE j = 3 /\ k = 4
      BY <3>4, <2>3, <1>e, <1>8, <1>m, <1>o, Zenon
    <3> QED BY <3>1, <3>2, <3>3, <3>4
  <2>4. x[1] + x[2] + x[3] + x[4] <= r
    BY <1>e, <1>o, Zenon
  <2>5. (x[1] + x[2] + x[3] + x[4] < r) => \A j \in 1..4 : c(j) => x[j] = left[j]
    BY <2>2, Zenon
  <2> QED BY <1>7, <2>1, <2>5, <2>3, <2>4, Zenon DEF Gives, c
<1>15. r4 > 0 <=> x[1] + x[2] + x[3] + x[4] < r
  BY <1>s, <1>e
<1> QED BY <1>6, <1>10, <1>14, <1>15 DEF Served

-----------------------------------------------------------------------------
(* What is left of the longs, and what the shorts still need.              *)

\* The contracts of each leg.
Ratios(legs) == [i \in 1..4 |-> IF i \in DOMAIN legs THEN legs[i].ratio ELSE 0]

\* What is left, at e, of the longs of a kind; and what the shorts after m need.
Spare(legs, kind, left, e) ==
  NthOf(Runs(legs, kind, "buy", e, 1), left[1]) + NthOf(Runs(legs, kind, "buy", e, 2), left[2])
    + NthOf(Runs(legs, kind, "buy", e, 3), left[3]) + NthOf(Runs(legs, kind, "buy", e, 4), left[4])

Owes(legs, kind, m, e, i) == Runs(legs, kind, "sell", e, i) /\ i > m

Owed(legs, kind, m, e) ==
  NthOf(Owes(legs, kind, m, e, 1), Ratios(legs)[1]) + NthOf(Owes(legs, kind, m, e, 2), Ratios(legs)[2])
    + NthOf(Owes(legs, kind, m, e, 3), Ratios(legs)[3]) + NthOf(Owes(legs, kind, m, e, 4), Ratios(legs)[4])

\* The contracts of each leg are numbers.
LEMMA RatiosAre ==
  ASSUME NEW legs, Ticket(legs)
  PROVE  Ratios(legs) \in Counting /\ \A i \in DOMAIN legs : Ratios(legs)[i] = legs[i].ratio
<1>1. \A i \in DOMAIN legs : legs[i].ratio \in Nat /\ i \in 1..4
  BY TicketIs
<1> QED BY <1>1 DEF Ratios, Counting

\* What is left is a number.
LEMMA SpareIsNat ==
  ASSUME NEW legs, NEW kind, NEW left \in Counting, NEW e
  PROVE  Spare(legs, kind, left, e) \in Nat
<1>1. \A j \in 1..4 : NthOf(Runs(legs, kind, "buy", e, j), left[j]) \in Nat
  BY DEF NthOf, Counting
<1>2. /\ NthOf(Runs(legs, kind, "buy", e, 1), left[1]) \in Nat
      /\ NthOf(Runs(legs, kind, "buy", e, 2), left[2]) \in Nat
      /\ NthOf(Runs(legs, kind, "buy", e, 3), left[3]) \in Nat
      /\ NthOf(Runs(legs, kind, "buy", e, 4), left[4]) \in Nat
  BY <1>1
<1> QED BY <1>2 DEF Spare

\* What is given is given by the longs that still run at the expiry of the short.
LEMMA CoversAre ==
  ASSUME NEW legs, NEW i \in DOMAIN legs, NEW j
  PROVE  Covers(legs, j, i) <=> Runs(legs, legs[i].kind, "buy", legs[i].expiry, j)
BY DEF Covers, Runs

\* Until the short expires the longs have given what it got.
LEMMA GivenUntil ==
  ASSUME NEW legs, Ticket(legs), NEW i \in DOMAIN legs, NEW r \in Nat, NEW left \in Counting,
         NEW x, Gives(legs, i, r, left, x), NEW new, new = [j \in 1..4 |-> left[j] - x[j]],
         NEW e \in Nat, e <= legs[i].expiry
  PROVE  Spare(legs, legs[i].kind, new, e) =
           Spare(legs, legs[i].kind, left, e) - (x[1] + x[2] + x[3] + x[4])
<1> DEFINE K == legs[i].kind
           before(j) == NthOf(Runs(legs, K, "buy", e, j), left[j])
           after(j) == NthOf(Runs(legs, K, "buy", e, j), new[j])
<1>1. ASSUME NEW j \in 1..4
      PROVE  before(j) \in Nat /\ x[j] \in Nat /\ after(j) = before(j) - x[j]
  <2>1. left[j] \in Nat /\ x[j] \in Nat /\ new[j] = left[j] - x[j]
    BY DEF Gives, Counting
  <2>2. ~Runs(legs, K, "buy", e, j) => x[j] = 0
    <3>1. SUFFICES ASSUME x[j] # 0 PROVE Runs(legs, K, "buy", e, j)
      OBVIOUS
    <3>2. Covers(legs, j, i)
      BY <3>1 DEF Gives
    <3>3. j \in DOMAIN legs /\ legs[j].expiry \in Nat /\ legs[i].expiry \in Nat
      BY <3>2, TicketIs DEF Covers
    <3> QED BY <3>2, <3>3 DEF Covers, Runs
  <2>3. CASE Runs(legs, K, "buy", e, j)
    <3>1. before(j) = left[j] /\ after(j) = new[j]
      BY <2>3, Zenon DEF NthOf
    <3> QED BY <2>1, <3>1
  <2>4. CASE ~Runs(legs, K, "buy", e, j)
    <3>1. before(j) = 0 /\ after(j) = 0
      BY <2>4, Zenon DEF NthOf
    <3> QED BY <2>1, <2>2, <2>4, <3>1
  <2> QED BY <2>3, <2>4
<1>2. /\ Spare(legs, K, left, e) = before(1) + before(2) + before(3) + before(4)
      /\ Spare(legs, K, new, e) = after(1) + after(2) + after(3) + after(4)
  BY Zenon DEF Spare
<1> HIDE DEF before, after
<1>3. /\ before(1) \in Nat /\ before(2) \in Nat /\ before(3) \in Nat /\ before(4) \in Nat
      /\ x[1] \in Nat /\ x[2] \in Nat /\ x[3] \in Nat /\ x[4] \in Nat
      /\ after(1) = before(1) - x[1] /\ after(2) = before(2) - x[2]
      /\ after(3) = before(3) - x[3] /\ after(4) = before(4) - x[4]
  BY <1>1
<1> QED BY ONLY <1>2, <1>3

\* A short that is left bare got all the longs had.
LEMMA GivenAll ==
  ASSUME NEW legs, Ticket(legs), NEW i \in DOMAIN legs, NEW r \in Nat, NEW left \in Counting,
         NEW x, Gives(legs, i, r, left, x), x[1] + x[2] + x[3] + x[4] < r
  PROVE  Spare(legs, legs[i].kind, left, legs[i].expiry) = x[1] + x[2] + x[3] + x[4]
<1> DEFINE K == legs[i].kind
           e == legs[i].expiry
           before(j) == NthOf(Runs(legs, K, "buy", e, j), left[j])
<1>1. ASSUME NEW j \in 1..4
      PROVE  before(j) = x[j]
  <2>1. Covers(legs, j, i) <=> Runs(legs, K, "buy", e, j)
    BY CoversAre
  <2>2. Covers(legs, j, i) => x[j] = left[j]
    BY DEF Gives
  <2>3. ~Covers(legs, j, i) => x[j] = 0
    BY DEF Gives
  <2> QED BY <2>1, <2>2, <2>3, Zenon DEF NthOf
<1>2. Spare(legs, K, left, e) = before(1) + before(2) + before(3) + before(4)
  BY Zenon DEF Spare
<1> HIDE DEF before
<1>3. before(1) = x[1] /\ before(2) = x[2] /\ before(3) = x[3] /\ before(4) = x[4]
  BY <1>1
<1> QED BY <1>2, <1>3, Zenon

\* Of the longs that run beyond the short, none has given, or those that do not
\* run as long have nothing left.
LEMMA GivenBeyond ==
  ASSUME NEW legs, Ticket(legs), NEW i \in DOMAIN legs, NEW r \in Nat, NEW left \in Counting,
         NEW x, Gives(legs, i, r, left, x), NEW new, new = [j \in 1..4 |-> left[j] - x[j]],
         NEW e \in Nat, e > legs[i].expiry
  PROVE  \/ Spare(legs, legs[i].kind, new, e) = Spare(legs, legs[i].kind, left, e)
         \/ Spare(legs, legs[i].kind, new, e) = Spare(legs, legs[i].kind, new, legs[i].expiry)
<1> DEFINE K == legs[i].kind
           f == legs[i].expiry
           late(j) == Runs(legs, K, "buy", e, j)
           live(j) == Runs(legs, K, "buy", f, j)
<1>0. f \in Nat
  BY TicketIs
<1>1. ASSUME NEW j \in 1..4
      PROVE  left[j] \in Nat /\ x[j] \in Nat /\ x[j] <= left[j] /\ new[j] = left[j] - x[j]
  BY DEF Gives, Counting
<1>2. ASSUME NEW j \in 1..4, late(j) PROVE live(j)
  <2>1. j \in DOMAIN legs /\ legs[j].expiry \in Nat
    BY <1>2, TicketIs DEF Runs
  <2> QED BY <1>0, <1>2, <2>1 DEF Runs
<1>3. \A j \in 1..4 : Covers(legs, j, i) <=> live(j)
  BY CoversAre
<1>4. CASE \E j \in 1..4 : live(j) /\ ~late(j) /\ x[j] < left[j]
  <2>1. PICK j \in 1..4 : live(j) /\ ~late(j) /\ x[j] < left[j]
    BY <1>4
  <2>2. ASSUME NEW k \in 1..4, late(k)
        PROVE  new[k] = left[k]
    <3>1. /\ j \in DOMAIN legs /\ k \in DOMAIN legs /\ legs[j].kind = K /\ legs[k].kind = K
          /\ legs[j].expiry \in Nat /\ legs[k].expiry \in Nat /\ legs[j].side = "buy"
      BY <2>1, <2>2, TicketIs DEF Runs
    <3>2. legs[j].expiry < legs[k].expiry
      <4>1. legs[k].expiry >= e
        BY <2>2 DEF Runs
      <4>2. ~(legs[j].expiry >= e)
        BY <2>1, <3>1 DEF Runs
      <4> QED BY <3>1, <4>1, <4>2
    <3>3. j < k
      BY <3>1, <3>2, EarlierFirst
    <3>4. x[k] = 0
      BY <1>3, <2>1, <3>3 DEF Gives
    <3> QED BY <1>1, <3>4
  <2>3. \A k \in 1..4 : NthOf(late(k), new[k]) = NthOf(late(k), left[k])
    BY <2>2, Zenon DEF NthOf
  <2>4. Spare(legs, K, new, e) = Spare(legs, K, left, e)
    <3>1. 1 \in 1..4 /\ 2 \in 1..4 /\ 3 \in 1..4 /\ 4 \in 1..4
      OBVIOUS
    <3> QED BY <2>3, <3>1, Zenon DEF Spare
  <2> QED BY <2>4
<1>5. CASE \A j \in 1..4 : live(j) /\ ~late(j) => x[j] = left[j]
  <2>1. \A k \in 1..4 : NthOf(late(k), new[k]) = NthOf(live(k), new[k])
    <3> TAKE k \in 1..4
    <3>1. CASE late(k)
      BY <1>2, <3>1, Zenon DEF NthOf
    <3>2. CASE ~late(k) /\ ~live(k)
      BY <3>2, Zenon DEF NthOf
    <3>3. CASE ~late(k) /\ live(k)
      <4>1. new[k] = 0
        BY <1>1, <1>5, <3>3
      <4> QED BY <3>3, <4>1, Zenon DEF NthOf
    <3> QED BY <3>1, <3>2, <3>3, Zenon
  <2>2. Spare(legs, K, new, e) = Spare(legs, K, new, f)
    <3>1. 1 \in 1..4 /\ 2 \in 1..4 /\ 3 \in 1..4 /\ 4 \in 1..4
      OBVIOUS
    <3> QED BY <2>1, <3>1, Zenon DEF Spare
  <2> QED BY <2>2
<1>6. \A j \in 1..4 : x[j] # left[j] => x[j] < left[j]
  <2> TAKE j \in 1..4
  <2>1. PICK a \in Nat, b \in Nat : a = x[j] /\ b = left[j] /\ a <= b
    BY <1>1
  <2> QED BY ONLY <2>1, a \in Nat, b \in Nat
<1> HIDE DEF late, live
<1> QED BY <1>4, <1>5, <1>6, Zenon

\* What is left only falls.
LEMMA SpareFalls ==
  ASSUME NEW legs, NEW i, NEW r, NEW left \in Counting, NEW x, Gives(legs, i, r, left, x),
         NEW new, new = [j \in 1..4 |-> left[j] - x[j]], NEW kind, NEW e
  PROVE  Spare(legs, kind, new, e) <= Spare(legs, kind, left, e)
<1> DEFINE before(j) == NthOf(Runs(legs, kind, "buy", e, j), left[j])
           after(j) == NthOf(Runs(legs, kind, "buy", e, j), new[j])
<1>1. ASSUME NEW j \in 1..4
      PROVE  before(j) \in Nat /\ after(j) \in Nat /\ after(j) <= before(j)
  <2>a. PICK a \in Nat, b \in Nat : a = left[j] /\ b = x[j] /\ b <= a /\ new[j] = a - b
    BY DEF Gives, Counting
  <2>c. PICK c : c = new[j]
    OBVIOUS
  <2>1. a = left[j] /\ b = x[j] /\ b <= a /\ c = new[j] /\ c = a - b
    BY <2>a, <2>c
  <2>2. \/ before(j) = a /\ after(j) = c
        \/ before(j) = 0 /\ after(j) = 0
    BY <2>1, Zenon DEF NthOf
  <2> HIDE DEF before, after
  <2> QED BY ONLY <2>1, <2>2, a \in Nat, b \in Nat
<1>2. /\ Spare(legs, kind, left, e) = before(1) + before(2) + before(3) + before(4)
      /\ Spare(legs, kind, new, e) = after(1) + after(2) + after(3) + after(4)
  BY Zenon DEF Spare
<1> HIDE DEF before, after
<1>3. /\ before(1) \in Nat /\ before(2) \in Nat /\ before(3) \in Nat /\ before(4) \in Nat
      /\ after(1) \in Nat /\ after(2) \in Nat /\ after(3) \in Nat /\ after(4) \in Nat
      /\ after(1) <= before(1) /\ after(2) <= before(2)
      /\ after(3) <= before(3) /\ after(4) <= before(4)
  BY <1>1
<1> QED BY ONLY <1>2, <1>3

\* Longs of the other kind give nothing.
LEMMA OthersGiveNothing ==
  ASSUME NEW legs, NEW i \in DOMAIN legs, NEW r \in Nat, NEW left \in Counting,
         NEW x, Gives(legs, i, r, left, x), NEW new, new = [j \in 1..4 |-> left[j] - x[j]],
         NEW kind, kind # legs[i].kind, NEW e
  PROVE  Spare(legs, kind, new, e) = Spare(legs, kind, left, e)
<1>1. ASSUME NEW j \in 1..4
      PROVE  NthOf(Runs(legs, kind, "buy", e, j), new[j]) = NthOf(Runs(legs, kind, "buy", e, j), left[j])
  <2>1. left[j] \in Nat /\ x[j] \in Nat /\ new[j] = left[j] - x[j]
    BY DEF Gives, Counting
  <2>2. Runs(legs, kind, "buy", e, j) => ~Covers(legs, j, i)
    BY DEF Runs, Covers
  <2>3. ~Covers(legs, j, i) => x[j] = 0
    BY DEF Gives
  <2>4. Runs(legs, kind, "buy", e, j) => new[j] = left[j]
    BY <2>1, <2>2, <2>3
  <2> QED BY <2>4, Zenon DEF NthOf
<1>2. 1 \in 1..4 /\ 2 \in 1..4 /\ 3 \in 1..4 /\ 4 \in 1..4
  OBVIOUS
<1> QED BY <1>1, <1>2, Zenon DEF Spare

-----------------------------------------------------------------------------
(* What the shorts need.                                                   *)

\* What the shorts need is a number.
LEMMA OwedIsNat ==
  ASSUME NEW legs, Ticket(legs), NEW kind, NEW m, NEW e
  PROVE  Owed(legs, kind, m, e) \in Nat
<1>1. \A j \in 1..4 : NthOf(Owes(legs, kind, m, e, j), Ratios(legs)[j]) \in Nat
  BY RatiosAre DEF NthOf, Counting
<1>2. /\ NthOf(Owes(legs, kind, m, e, 1), Ratios(legs)[1]) \in Nat
      /\ NthOf(Owes(legs, kind, m, e, 2), Ratios(legs)[2]) \in Nat
      /\ NthOf(Owes(legs, kind, m, e, 3), Ratios(legs)[3]) \in Nat
      /\ NthOf(Owes(legs, kind, m, e, 4), Ratios(legs)[4]) \in Nat
  BY <1>1
<1> QED BY <1>2 DEF Owed

\* After the last leg no short is left to need anything.
LEMMA NoneOwedLast ==
  ASSUME NEW legs, NEW kind, NEW e
  PROVE  Owed(legs, kind, 4, e) = 0
<1>1. \A j \in 1..4 : ~Owes(legs, kind, 4, e, j)
  BY DEF Owes
<1>2. \A j \in 1..4 : NthOf(Owes(legs, kind, 4, e, j), Ratios(legs)[j]) = 0
  BY <1>1, Zenon DEF NthOf
<1>3. /\ NthOf(Owes(legs, kind, 4, e, 1), Ratios(legs)[1]) = 0
      /\ NthOf(Owes(legs, kind, 4, e, 2), Ratios(legs)[2]) = 0
      /\ NthOf(Owes(legs, kind, 4, e, 3), Ratios(legs)[3]) = 0
      /\ NthOf(Owes(legs, kind, 4, e, 4), Ratios(legs)[4]) = 0
  BY <1>2
<1> QED BY <1>3 DEF Owed

\* Of the shorts fewer run longer.
LEMMA FewerOwedLater ==
  ASSUME NEW legs, Ticket(legs), NEW kind, NEW m \in Nat, NEW e \in Nat, NEW f \in Nat, f <= e
  PROVE  Owed(legs, kind, m, e) <= Owed(legs, kind, m, f)
<1> DEFINE late(j) == NthOf(Owes(legs, kind, m, e, j), Ratios(legs)[j])
           soon(j) == NthOf(Owes(legs, kind, m, f, j), Ratios(legs)[j])
<1>1. ASSUME NEW j \in 1..4
      PROVE  late(j) \in Nat /\ soon(j) \in Nat /\ late(j) <= soon(j)
  <2>1. Ratios(legs)[j] \in Nat
    BY RatiosAre DEF Counting
  <2>2. ASSUME Owes(legs, kind, m, e, j) PROVE Owes(legs, kind, m, f, j)
    <3>1. j \in DOMAIN legs /\ legs[j].expiry \in Nat
      BY <2>2, TicketIs DEF Owes, Runs
    <3> QED BY <2>2, <3>1 DEF Owes, Runs
  <2>3. CASE Owes(legs, kind, m, e, j)
    <3>1. late(j) = Ratios(legs)[j] /\ soon(j) = Ratios(legs)[j]
      BY <2>2, <2>3, Zenon DEF NthOf
    <3> QED BY <2>1, <3>1
  <2>4. CASE ~Owes(legs, kind, m, e, j)
    <3>1. late(j) = 0 /\ (soon(j) = Ratios(legs)[j] \/ soon(j) = 0)
      BY <2>4, Zenon DEF NthOf
    <3> QED BY <2>1, <3>1
  <2> QED BY <2>3, <2>4
<1>2. /\ Owed(legs, kind, m, e) = late(1) + late(2) + late(3) + late(4)
      /\ Owed(legs, kind, m, f) = soon(1) + soon(2) + soon(3) + soon(4)
  BY Zenon DEF Owed
<1> HIDE DEF late, soon
<1>3. /\ late(1) \in Nat /\ late(2) \in Nat /\ late(3) \in Nat /\ late(4) \in Nat
      /\ soon(1) \in Nat /\ soon(2) \in Nat /\ soon(3) \in Nat /\ soon(4) \in Nat
      /\ late(1) <= soon(1) /\ late(2) <= soon(2) /\ late(3) <= soon(3) /\ late(4) <= soon(4)
  BY <1>1
<1> QED BY ONLY <1>2, <1>3

\* One short fewer is owed for after it.
LEMMA OneFewerOwed ==
  ASSUME NEW legs, Ticket(legs), NEW kind, NEW e, NEW i \in 1..4
  PROVE  Owed(legs, kind, i - 1, e) =
           Owed(legs, kind, i, e) + NthOf(Runs(legs, kind, "sell", e, i), Ratios(legs)[i])
<1> DEFINE before(j) == NthOf(Owes(legs, kind, i - 1, e, j), Ratios(legs)[j])
           after(j) == NthOf(Owes(legs, kind, i, e, j), Ratios(legs)[j])
           own == NthOf(Runs(legs, kind, "sell", e, i), Ratios(legs)[i])
<1>1. ASSUME NEW j \in 1..4
      PROVE  /\ after(j) \in Nat /\ own \in Nat
             /\ j # i => before(j) = after(j)
             /\ j = i => before(j) = own /\ after(j) = 0
  <2>1. Ratios(legs)[j] \in Nat /\ Ratios(legs)[i] \in Nat
    BY RatiosAre DEF Counting
  <2>2. after(j) \in Nat /\ own \in Nat
    BY <2>1 DEF NthOf
  <2>3. ASSUME j # i PROVE before(j) = after(j)
    <3>1. j > i - 1 <=> j > i
      BY <2>3
    <3>2. Owes(legs, kind, i - 1, e, j) <=> Owes(legs, kind, i, e, j)
      BY <3>1, Zenon DEF Owes
    <3> QED BY <3>2, Zenon DEF NthOf
  <2>4. ASSUME j = i PROVE before(j) = own /\ after(j) = 0
    <3>1. j > i - 1 /\ ~(j > i)
      BY <2>4
    <3>2. (Owes(legs, kind, i - 1, e, j) <=> Runs(legs, kind, "sell", e, i)) /\ ~Owes(legs, kind, i, e, j)
      BY <2>4, <3>1, Zenon DEF Owes
    <3> QED BY <2>4, <3>2, Zenon DEF NthOf
  <2> QED BY <2>2, <2>3, <2>4, Zenon
<1>2. /\ Owed(legs, kind, i - 1, e) = before(1) + before(2) + before(3) + before(4)
      /\ Owed(legs, kind, i, e) = after(1) + after(2) + after(3) + after(4)
  BY Zenon DEF Owed
<1> HIDE DEF before, after, own
<1>3. /\ own \in Nat /\ after(1) \in Nat /\ after(2) \in Nat /\ after(3) \in Nat /\ after(4) \in Nat
      /\ 1 # i => before(1) = after(1)
      /\ 2 # i => before(2) = after(2)
      /\ 3 # i => before(3) = after(3)
      /\ 4 # i => before(4) = after(4)
      /\ 1 = i => before(1) = own /\ after(1) = 0
      /\ 2 = i => before(2) = own /\ after(2) = 0
      /\ 3 = i => before(3) = own /\ after(3) = 0
      /\ 4 = i => before(4) = own /\ after(4) = 0
  BY <1>1
<1>4. Owed(legs, kind, i - 1, e) = Owed(legs, kind, i, e) + own
  BY ONLY <1>2, <1>3, i \in 1..4
<1> QED BY <1>4 DEF own

-----------------------------------------------------------------------------
(* Cover is handed out so that none is bare that could be covered.         *)

Expiries(legs) == {legs[i].expiry : i \in DOMAIN legs}

NoneBare(legs, kind, bare) == \A i \in bare : legs[i].kind # kind

Enough(legs, kind) ==
  \A e \in Expiries(legs) : Owed(legs, kind, 0, e) <= Spare(legs, kind, Ratios(legs), e)

\* Where the first m legs have been looked at: if no short of the kind is bare,
\* the longs have given, at every date, what the shorts so far have got; and if
\* there are longs enough, none is bare, and enough is left for the shorts to come.
Covered(legs, kind, m, left, bare) ==
  /\ left \in Counting /\ bare \subseteq DOMAIN legs
  /\ NoneBare(legs, kind, bare) =>
       \A e \in Nat : Spare(legs, kind, Ratios(legs), e) - Spare(legs, kind, left, e)
                        >= Owed(legs, kind, 0, e) - Owed(legs, kind, m, e)
  /\ Enough(legs, kind) =>
       /\ NoneBare(legs, kind, bare)
       /\ \A e \in Expiries(legs) : Owed(legs, kind, m, e) <= Spare(legs, kind, left, e)

\* Before a leg is looked at, nothing is given and nothing is bare.
LEMMA CoveredAtFirst ==
  ASSUME NEW legs, Ticket(legs), NEW kind
  PROVE  Covered(legs, kind, 0, Ratios(legs), {})
<1>1. Ratios(legs) \in Counting
  BY RatiosAre
<1>2. ASSUME NEW e
      PROVE  Spare(legs, kind, Ratios(legs), e) \in Nat /\ Owed(legs, kind, 0, e) \in Nat
  BY <1>1, SpareIsNat, OwedIsNat
<1>3. \A e \in Nat : Spare(legs, kind, Ratios(legs), e) - Spare(legs, kind, Ratios(legs), e)
                        >= Owed(legs, kind, 0, e) - Owed(legs, kind, 0, e)
  <2> TAKE e \in Nat
  <2>1. PICK s \in Nat, o \in Nat : s = Spare(legs, kind, Ratios(legs), e) /\ o = Owed(legs, kind, 0, e)
    BY <1>2
  <2>2. s - s >= o - o
    OBVIOUS
  <2> QED BY <2>1, <2>2, Zenon
<1>4. NoneBare(legs, kind, {})
  BY DEF NoneBare
<1> QED BY <1>1, <1>3, <1>4, Zenon DEF Covered, Enough

\* A leg that is no short of the kind.
LEMMA OwedPast ==
  ASSUME NEW legs, Ticket(legs), NEW kind, NEW e, NEW i \in 1..4, ~Runs(legs, kind, "sell", e, i)
  PROVE  Owed(legs, kind, i - 1, e) = Owed(legs, kind, i, e)
<1>1. NthOf(Runs(legs, kind, "sell", e, i), Ratios(legs)[i]) = 0
  BY Zenon DEF NthOf
<1>2. Owed(legs, kind, i - 1, e) = Owed(legs, kind, i, e) + 0
  BY <1>1, OneFewerOwed, Zenon
<1>3. Owed(legs, kind, i, e) \in Nat
  BY OwedIsNat
<1> QED BY <1>2, <1>3

\* A leg that is no short of the kind changes nothing for the kind.
LEMMA CoveredPast ==
  ASSUME NEW legs, Ticket(legs), NEW kind, NEW i \in 1..4, NEW left, NEW bare,
         \A e \in Nat : ~Runs(legs, kind, "sell", e, i),
         Covered(legs, kind, i - 1, left, bare), NEW new \in Counting,
         \A e \in Nat : Spare(legs, kind, new, e) = Spare(legs, kind, left, e),
         NEW more, more \subseteq DOMAIN legs, NoneBare(legs, kind, more) <=> NoneBare(legs, kind, bare)
  PROVE  Covered(legs, kind, i, new, more)
<1>1. \A e \in Nat : Owed(legs, kind, i - 1, e) = Owed(legs, kind, i, e)
  BY OwedPast
<1>2. Expiries(legs) \subseteq Nat
  BY TicketIs DEF Expiries
<1>3. NoneBare(legs, kind, more) =>
       \A e \in Nat : Spare(legs, kind, Ratios(legs), e) - Spare(legs, kind, new, e)
                        >= Owed(legs, kind, 0, e) - Owed(legs, kind, i, e)
  BY <1>1, Zenon DEF Covered
<1>4. Enough(legs, kind) =>
       /\ NoneBare(legs, kind, more)
       /\ \A e \in Expiries(legs) : Owed(legs, kind, i, e) <= Spare(legs, kind, new, e)
  <2>1. ASSUME Enough(legs, kind), NEW e \in Expiries(legs)
        PROVE  Owed(legs, kind, i, e) <= Spare(legs, kind, new, e)
    <3>1. e \in Nat
      BY <1>2
    <3>2. Owed(legs, kind, i - 1, e) <= Spare(legs, kind, left, e)
      BY <2>1, Zenon DEF Covered
    <3>3. Owed(legs, kind, i - 1, e) = Owed(legs, kind, i, e) /\ Spare(legs, kind, new, e) = Spare(legs, kind, left, e)
      BY <1>1, <3>1
    <3> QED BY <3>2, <3>3, Zenon
  <2>2. Enough(legs, kind) => NoneBare(legs, kind, more)
    BY Zenon DEF Covered
  <2> QED BY <2>1, <2>2, Zenon
<1> QED BY <1>3, <1>4, Zenon DEF Covered

\* A short of the kind takes its cover.
LEMMA CoveredShort ==
  ASSUME NEW legs, Ticket(legs), NEW i \in DOMAIN legs, legs[i].side = "sell", NEW left, NEW bare,
         Covered(legs, legs[i].kind, i - 1, left, bare),
         NEW x, Gives(legs, i, legs[i].ratio, left, x), NEW new, new = [j \in 1..4 |-> left[j] - x[j]],
         NEW more, more = IF x[1] + x[2] + x[3] + x[4] < legs[i].ratio THEN bare \cup {i} ELSE bare
  PROVE  Covered(legs, legs[i].kind, i, new, more)
<1> DEFINE K == legs[i].kind
           f == legs[i].expiry
           given == x[1] + x[2] + x[3] + x[4]
<1>0. /\ left \in Counting /\ bare \subseteq DOMAIN legs /\ i \in 1..4 /\ f \in Nat
      /\ legs[i].ratio \in Nat /\ Ratios(legs)[i] = legs[i].ratio /\ Ratios(legs) \in Counting
  BY TicketIs, RatiosAre DEF Covered
<1>1. PICK r \in Nat : r = legs[i].ratio
  BY <1>0
<1>x. x[1] \in Nat /\ x[2] \in Nat /\ x[3] \in Nat /\ x[4] \in Nat
  BY DEF Gives, Counting
<1>2. given \in Nat /\ given <= r
  <2>1. given <= r
    BY <1>1 DEF Gives
  <2>2. given \in Nat
    BY <1>x
  <2> QED BY <2>1, <2>2
<1>g. PICK g \in Nat : g = given /\ g <= r
  BY <1>2
<1> HIDE DEF given
<1>3. new \in Counting
  <2>1. \A j \in 1..4 : left[j] - x[j] \in Nat
    <3> TAKE j \in 1..4
    <3>1. PICK a \in Nat, b \in Nat : a = left[j] /\ b = x[j] /\ b <= a
      BY <1>0 DEF Gives, Counting
    <3>2. a - b \in Nat
      BY <3>1
    <3> QED BY <3>1, <3>2
  <2> QED BY <2>1 DEF Counting
<1>4. more = IF g < r THEN bare \cup {i} ELSE bare
  BY <1>1, <1>g DEF given
<1>5. more \subseteq DOMAIN legs
  BY <1>0, <1>4
<1>6. \A e : Spare(legs, K, left, e) \in Nat /\ Spare(legs, K, new, e) \in Nat
             /\ Spare(legs, K, Ratios(legs), e) \in Nat
  BY <1>0, <1>3, SpareIsNat
<1>7. \A m, e : Owed(legs, K, m, e) \in Nat
  BY OwedIsNat
<1>8. ASSUME NEW e \in Nat, e <= f
      PROVE  /\ Spare(legs, K, new, e) = Spare(legs, K, left, e) - g
             /\ Owed(legs, K, i - 1, e) = Owed(legs, K, i, e) + r
  <2>1. Spare(legs, K, new, e) = Spare(legs, K, left, e) - g
    <3>1. Spare(legs, K, new, e) = Spare(legs, K, left, e) - (x[1] + x[2] + x[3] + x[4])
      BY <1>0, <1>1, <1>8, GivenUntil
    <3> QED BY <3>1, <1>g DEF given
  <2>2. Runs(legs, K, "sell", e, i)
    BY <1>0, <1>8 DEF Runs
  <2>3. NthOf(Runs(legs, K, "sell", e, i), Ratios(legs)[i]) = r
    BY <1>0, <1>1, <2>2, Zenon DEF NthOf
  <2>4. Owed(legs, K, i - 1, e) = Owed(legs, K, i, e) + r
    BY <1>0, <2>3, OneFewerOwed, Zenon
  <2> QED BY <2>1, <2>4
<1>9. ASSUME NEW e \in Nat, e > f
      PROVE  /\ Owed(legs, K, i - 1, e) = Owed(legs, K, i, e)
             /\ Spare(legs, K, new, e) <= Spare(legs, K, left, e)
             /\ \/ Spare(legs, K, new, e) = Spare(legs, K, left, e)
                \/ Spare(legs, K, new, e) = Spare(legs, K, new, f)
             /\ Owed(legs, K, i, e) <= Owed(legs, K, i, f)
  <2>1. ~Runs(legs, K, "sell", e, i)
    <3>1. ~(f >= e)
      BY <1>0, <1>9
    <3> QED BY <3>1 DEF Runs
  <2>2. Owed(legs, K, i - 1, e) = Owed(legs, K, i, e)
    BY <1>0, <2>1, OwedPast
  <2>3. \/ Spare(legs, K, new, e) = Spare(legs, K, left, e)
        \/ Spare(legs, K, new, e) = Spare(legs, K, new, f)
    BY <1>0, <1>9, GivenBeyond
  <2>4. Owed(legs, K, i, e) <= Owed(legs, K, i, f)
    BY <1>0, <1>9, FewerOwedLater
  <2>5. Spare(legs, K, new, e) <= Spare(legs, K, left, e)
    BY <1>0, <1>3, SpareFalls
  <2> QED BY <2>2, <2>3, <2>4, <2>5
<1>10. NoneBare(legs, K, more) => NoneBare(legs, K, bare) /\ g = r
  <2>1. NoneBare(legs, K, more) => NoneBare(legs, K, bare)
    BY <1>4 DEF NoneBare
  <2>2. g < r => ~NoneBare(legs, K, more)
    BY <1>4 DEF NoneBare
  <2>3. g < r \/ g = r
    BY <1>g
  <2> QED BY <2>1, <2>2, <2>3
<1>11. ASSUME NoneBare(legs, K, more), NEW e \in Nat
       PROVE  Spare(legs, K, Ratios(legs), e) - Spare(legs, K, new, e)
                >= Owed(legs, K, 0, e) - Owed(legs, K, i, e)
  <2>1. PICK b \in Nat, s \in Nat, t \in Nat :
          b = Spare(legs, K, Ratios(legs), e) /\ s = Spare(legs, K, left, e) /\ t = Spare(legs, K, new, e)
    BY <1>6
  <2>2. PICK o \in Nat, p \in Nat, q \in Nat :
          o = Owed(legs, K, 0, e) /\ p = Owed(legs, K, i - 1, e) /\ q = Owed(legs, K, i, e)
    BY <1>7
  <2>3. b - s >= o - p
    BY <1>10, <1>11, <2>1, <2>2, Zenon DEF Covered
  <2>4. \/ t = s - g /\ p = q + g
        \/ p = q /\ t <= s
    <3>1. CASE e <= f
      BY <1>8, <1>10, <1>11, <2>1, <2>2, <3>1, Zenon
    <3>2. CASE e > f
      BY <1>9, <2>1, <2>2, <3>2, Zenon
    <3> QED BY <1>0, <3>1, <3>2
  <2>5. b - t >= o - q
    BY ONLY b \in Nat, s \in Nat, t \in Nat, o \in Nat, p \in Nat, q \in Nat, g \in Nat, <2>3, <2>4
  <2> QED BY <2>1, <2>2, <2>5, Zenon
<1>12. ASSUME Enough(legs, K)
       PROVE  /\ NoneBare(legs, K, more)
              /\ \A e \in Expiries(legs) : Owed(legs, K, i, e) <= Spare(legs, K, new, e)
  <2>1. NoneBare(legs, K, bare) /\ \A e \in Expiries(legs) : Owed(legs, K, i - 1, e) <= Spare(legs, K, left, e)
    BY <1>12, Zenon DEF Covered
  <2>2. f \in Expiries(legs) /\ Expiries(legs) \subseteq Nat
    BY TicketIs DEF Expiries
  <2>3. PICK s \in Nat, t \in Nat, p \in Nat, q \in Nat :
          /\ s = Spare(legs, K, left, f) /\ t = Spare(legs, K, new, f)
          /\ p = Owed(legs, K, i - 1, f) /\ q = Owed(legs, K, i, f)
    BY <1>6, <1>7
  <2>4. p <= s /\ t = s - g /\ p = q + r
    <3>1. f <= f
      BY <1>0
    <3> QED BY <1>0, <1>8, <2>1, <2>2, <2>3, <3>1, Zenon
  <2>5. g = r
    <3>1. SUFFICES ASSUME g < r PROVE FALSE
      BY <1>g
    <3>2. x[1] + x[2] + x[3] + x[4] < legs[i].ratio
      BY <1>1, <1>g, <3>1 DEF given
    <3>3. s = g
      BY <1>0, <1>g, <2>3, <3>2, GivenAll DEF given
    <3> QED BY ONLY s \in Nat, q \in Nat, p \in Nat, g \in Nat, r \in Nat, <2>4, <3>1, <3>3
  <2>6. more = bare
    BY <1>4, <2>5, r \in Nat
  <2>7. q <= t
    BY ONLY s \in Nat, t \in Nat, q \in Nat, p \in Nat, g \in Nat, r \in Nat, <2>4, <2>5
  <2>8. ASSUME NEW e \in Expiries(legs)
        PROVE  Owed(legs, K, i, e) <= Spare(legs, K, new, e)
    <3>1. e \in Nat
      BY <2>2
    <3>2. PICK se \in Nat, te \in Nat, pe \in Nat, qe \in Nat :
            /\ se = Spare(legs, K, left, e) /\ te = Spare(legs, K, new, e)
            /\ pe = Owed(legs, K, i - 1, e) /\ qe = Owed(legs, K, i, e)
      BY <1>6, <1>7
    <3>3. pe <= se
      BY <2>1, <3>2, Zenon
    <3>4. CASE e <= f
      <4>1. te = se - g /\ pe = qe + r
        BY <1>8, <3>1, <3>2, <3>4, Zenon
      <4>2. qe <= te
        BY ONLY se \in Nat, te \in Nat, pe \in Nat, qe \in Nat, g \in Nat, r \in Nat, <2>5, <3>3, <4>1
      <4> QED BY <3>2, <4>2, Zenon
    <3>5. CASE e > f
      <4>1. pe = qe /\ (te = se \/ te = t) /\ qe <= q
        BY <1>9, <2>3, <3>1, <3>2, <3>5, Zenon
      <4>2. qe <= te
        BY ONLY se \in Nat, te \in Nat, pe \in Nat, qe \in Nat, q \in Nat, t \in Nat, <2>7, <3>3, <4>1
      <4> QED BY <3>2, <4>2, Zenon
    <3> QED BY <1>0, <3>1, <3>4, <3>5
  <2> QED BY <2>1, <2>6, <2>8, Zenon
<1> QED BY <1>3, <1>5, <1>11, <1>12, Zenon DEF Covered

CoveredAll(legs, m, left, bare) == \A kind \in Kinds : Covered(legs, kind, m, left, bare)

\* A leg is looked at.
Looked(legs, st, i) ==
  IF i \in DOMAIN legs /\ legs[i].side = "sell" THEN CoverShort(legs, st, i) ELSE st

\* Looking at a leg keeps what is said of those looked at.
LEMMA LookedIs ==
  ASSUME NEW legs, Ticket(legs), NEW i \in 1..4, NEW left, NEW bare, CoveredAll(legs, i - 1, left, bare)
  PROVE  \E new, more : /\ Looked(legs, [left |-> left, bare |-> bare], i) = [left |-> new, bare |-> more]
                        /\ CoveredAll(legs, i, new, more)
<1>0. left \in Counting /\ bare \subseteq DOMAIN legs
  BY DEF CoveredAll, Covered, Kinds
<1>1. CASE ~(i \in DOMAIN legs /\ legs[i].side = "sell")
  <2>1. \A kind, e : ~Runs(legs, kind, "sell", e, i)
    BY <1>1 DEF Runs
  <2>2. ASSUME NEW kind \in Kinds PROVE Covered(legs, kind, i, left, bare)
    <3>1. Covered(legs, kind, i - 1, left, bare)
      BY DEF CoveredAll
    <3>2. \A e \in Nat : Spare(legs, kind, left, e) = Spare(legs, kind, left, e)
      OBVIOUS
    <3>3. \A e \in Nat : ~Runs(legs, kind, "sell", e, i)
      BY <2>1
    <3> QED BY <1>0, <3>1, <3>2, <3>3, CoveredPast
  <2>3. Looked(legs, [left |-> left, bare |-> bare], i) = [left |-> left, bare |-> bare]
    BY <1>1, Zenon DEF Looked
  <2> QED BY <2>2, <2>3 DEF CoveredAll
<1>2. CASE i \in DOMAIN legs /\ legs[i].side = "sell"
  <2>1. PICK r \in Nat : r = legs[i].ratio
    BY <1>2, TicketIs
  <2>p. PICK x : Served(legs, i, r, left, bare, x)
    BY <1>0, <2>1, CoverShortIs
  <2>2. /\ Gives(legs, i, r, left, x)
        /\ CoverShort(legs, [left |-> left, bare |-> bare], i) =
             [left |-> [j \in 1..4 |-> left[j] - x[j]],
              bare |-> IF x[1] + x[2] + x[3] + x[4] < r THEN bare \cup {i} ELSE bare]
    BY <2>p, Zenon DEF Served
  <2>3. PICK new : new = [j \in 1..4 |-> left[j] - x[j]]
    OBVIOUS
  <2>4. PICK more : more = IF x[1] + x[2] + x[3] + x[4] < r THEN bare \cup {i} ELSE bare
    OBVIOUS
  <2>5. Looked(legs, [left |-> left, bare |-> bare], i) = [left |-> new, bare |-> more]
    BY <1>2, <2>2, <2>3, <2>4, Zenon DEF Looked
  <2>6. Covered(legs, legs[i].kind, i, new, more)
    <3>1. Covered(legs, legs[i].kind, i - 1, left, bare)
      BY <1>2, TicketIs DEF CoveredAll
    <3>2. Gives(legs, i, legs[i].ratio, left, x)
      BY <2>1, <2>2
    <3>3. more = IF x[1] + x[2] + x[3] + x[4] < legs[i].ratio THEN bare \cup {i} ELSE bare
      BY <2>1, <2>4
    <3> QED BY <1>2, <2>3, <3>1, <3>2, <3>3, CoveredShort
  <2>7. new \in Counting /\ more \subseteq DOMAIN legs
    BY <2>6 DEF Covered
  <2>8. ASSUME NEW kind \in Kinds, kind # legs[i].kind
        PROVE  Covered(legs, kind, i, new, more)
    <3>1. Covered(legs, kind, i - 1, left, bare)
      BY DEF CoveredAll
    <3>2. \A e \in Nat : Spare(legs, kind, new, e) = Spare(legs, kind, left, e)
      BY <1>0, <1>2, <2>1, <2>2, <2>3, <2>8, OthersGiveNothing
    <3>3. NoneBare(legs, kind, more) <=> NoneBare(legs, kind, bare)
      BY <2>4, <2>8 DEF NoneBare
    <3>4. \A e \in Nat : ~Runs(legs, kind, "sell", e, i)
      BY <2>8 DEF Runs
    <3> QED BY <2>7, <3>1, <3>2, <3>3, <3>4, CoveredPast
  <2>9. CoveredAll(legs, i, new, more)
    BY <2>6, <2>8 DEF CoveredAll
  <2> QED BY <2>5, <2>9
<1> QED BY <1>1, <1>2

\* Shorts of a kind are bare unless there are longs enough at every expiry.
LEMMA BareUnlessEnough ==
  ASSUME NEW legs, Ticket(legs), NEW kind \in Kinds
  PROVE  /\ NakedShorts(legs) \subseteq DOMAIN legs
         /\ NoneBare(legs, kind, NakedShorts(legs)) <=> Enough(legs, kind)
<1> DEFINE w == Ratios(legs)
<1>i. 1 \in 1..4 /\ 2 \in 1..4 /\ 3 \in 1..4 /\ 4 \in 1..4
      /\ 1 - 1 = 0 /\ 2 - 1 = 1 /\ 3 - 1 = 2 /\ 4 - 1 = 3
  OBVIOUS
<1>0. CoveredAll(legs, 0, w, {})
  BY CoveredAtFirst DEF CoveredAll
<1> HIDE DEF w
<1>1. PICK l1, b1 : /\ Looked(legs, [left |-> w, bare |-> {}], 1) = [left |-> l1, bare |-> b1]
                    /\ CoveredAll(legs, 1, l1, b1)
  BY <1>i, <1>0, LookedIs, Zenon
<1>2. PICK l2, b2 : /\ Looked(legs, [left |-> l1, bare |-> b1], 2) = [left |-> l2, bare |-> b2]
                    /\ CoveredAll(legs, 2, l2, b2)
  BY <1>i, <1>1, LookedIs, Zenon
<1>3. PICK l3, b3 : /\ Looked(legs, [left |-> l2, bare |-> b2], 3) = [left |-> l3, bare |-> b3]
                    /\ CoveredAll(legs, 3, l3, b3)
  BY <1>i, <1>2, LookedIs, Zenon
<1>4. PICK l4, b4 : /\ Looked(legs, [left |-> l3, bare |-> b3], 4) = [left |-> l4, bare |-> b4]
                    /\ CoveredAll(legs, 4, l4, b4)
  BY <1>i, <1>3, LookedIs, Zenon
<1>5. NakedShorts(legs) = b4
  <2>1. InTurn(LAMBDA st, i : Looked(legs, st, i), [left |-> w, bare |-> {}]) = [left |-> l4, bare |-> b4]
    BY <1>1, <1>2, <1>3, <1>4, Zenon DEF InTurn
  <2>2. NakedShorts(legs) = InTurn(LAMBDA st, i : Looked(legs, st, i), [left |-> w, bare |-> {}]).bare
    BY Zenon DEF NakedShorts, InTurn, Looked, w, Ratios
  <2>3. PICK done : done = [left |-> l4, bare |-> b4]
    OBVIOUS
  <2>4. done.bare = b4
    BY <2>3
  <2> QED BY <2>1, <2>2, <2>3, <2>4, Zenon
<1>6. Covered(legs, kind, 4, l4, b4)
  BY <1>4 DEF CoveredAll
<1>7. b4 \subseteq DOMAIN legs /\ l4 \in Counting /\ Ratios(legs) \in Counting
  BY <1>6, RatiosAre DEF Covered
<1>8. Enough(legs, kind) => NoneBare(legs, kind, b4)
  BY <1>6 DEF Covered
<1>9. ASSUME NoneBare(legs, kind, b4), NEW e \in Expiries(legs)
      PROVE  Owed(legs, kind, 0, e) <= Spare(legs, kind, Ratios(legs), e)
  <2>1. e \in Nat
    BY TicketIs DEF Expiries
  <2>2. Spare(legs, kind, Ratios(legs), e) - Spare(legs, kind, l4, e)
          >= Owed(legs, kind, 0, e) - Owed(legs, kind, 4, e)
    BY <1>6, <1>9, <2>1, Zenon DEF Covered
  <2>3. PICK b \in Nat, s \in Nat, o \in Nat :
          /\ b = Spare(legs, kind, Ratios(legs), e) /\ s = Spare(legs, kind, l4, e)
          /\ o = Owed(legs, kind, 0, e) /\ Owed(legs, kind, 4, e) = 0
    BY <1>7, SpareIsNat, OwedIsNat, NoneOwedLast
  <2>4. b - s >= o - 0
    BY <2>2, <2>3, Zenon
  <2>5. o <= b
    BY <2>4
  <2> QED BY <2>3, <2>5, Zenon
<1> QED BY <1>5, <1>7, <1>8, <1>9 DEF Enough

-----------------------------------------------------------------------------
(* What is counted.                                                        *)

\* The contracts that still run are those of the legs that still run.
LEMMA CountIs ==
  ASSUME NEW legs, Ticket(legs), NEW kind, NEW side, NEW e
  PROVE  StillRun(legs, kind, side, e) =
           NthOf(Runs(legs, kind, side, e, 1), Ratios(legs)[1])
             + NthOf(Runs(legs, kind, side, e, 2), Ratios(legs)[2])
             + NthOf(Runs(legs, kind, side, e, 3), Ratios(legs)[3])
             + NthOf(Runs(legs, kind, side, e, 4), Ratios(legs)[4])
<1> DEFINE add(n, i) == IF Runs(legs, kind, side, e, i) THEN n + legs[i].ratio ELSE n
           w == Ratios(legs)
           of(i) == NthOf(Runs(legs, kind, side, e, i), w[i])
<1>1. ASSUME NEW n \in Nat, NEW i \in 1..4
      PROVE  of(i) \in Nat /\ add(n, i) = n + of(i)
  <2>1. w[i] \in Nat
    BY RatiosAre DEF Counting
  <2>2. CASE Runs(legs, kind, side, e, i)
    <3>1. w[i] = legs[i].ratio
      BY <2>2, RatiosAre DEF Runs
    <3>2. of(i) = w[i] /\ add(n, i) = n + w[i]
      BY <2>2, <3>1, Zenon DEF NthOf
    <3> QED BY <2>1, <3>2
  <2>3. CASE ~Runs(legs, kind, side, e, i)
    <3>1. of(i) = 0 /\ add(n, i) = n
      BY <2>3, Zenon DEF NthOf
    <3> QED BY <3>1
  <2> QED BY <2>2, <2>3
<1>2. StillRun(legs, kind, side, e) = add(add(add(add(0, 1), 2), 3), 4)
  BY Zenon DEF StillRun, InTurn, Runs
<1> HIDE DEF add, of
<1>3. of(1) \in Nat /\ of(2) \in Nat /\ of(3) \in Nat /\ of(4) \in Nat
  BY <1>1
<1>4. add(0, 1) = of(1)
  <2>1. add(0, 1) = 0 + of(1)
    BY <1>1
  <2> QED BY <1>3, <2>1
<1>5. add(of(1), 2) = of(1) + of(2)
  BY <1>1, <1>3
<1>6. of(1) + of(2) \in Nat
  BY <1>3
<1>7. add(of(1) + of(2), 3) = of(1) + of(2) + of(3)
  BY <1>1, <1>6
<1>8. of(1) + of(2) + of(3) \in Nat
  BY <1>3
<1>9. add(of(1) + of(2) + of(3), 4) = of(1) + of(2) + of(3) + of(4)
  BY <1>1, <1>8
<1>10. StillRun(legs, kind, side, e) = of(1) + of(2) + of(3) + of(4)
  BY <1>2, <1>4, <1>5, <1>7, <1>9, Zenon
<1> QED BY <1>10, Zenon DEF of

\* They are what the longs have before any is given, and what the shorts need.
LEMMA EnoughIs ==
  ASSUME NEW legs, Ticket(legs), NEW kind, NEW e
  PROVE  /\ StillRun(legs, kind, "buy", e) = Spare(legs, kind, Ratios(legs), e)
         /\ StillRun(legs, kind, "sell", e) = Owed(legs, kind, 0, e)
<1>1. StillRun(legs, kind, "buy", e) = Spare(legs, kind, Ratios(legs), e)
  BY CountIs, Zenon DEF Spare
<1>2. \A i \in 1..4 : Owes(legs, kind, 0, e, i) <=> Runs(legs, kind, "sell", e, i)
  BY DEF Owes
<1>3. \A i \in 1..4 : NthOf(Owes(legs, kind, 0, e, i), Ratios(legs)[i]) =
                        NthOf(Runs(legs, kind, "sell", e, i), Ratios(legs)[i])
  BY <1>2, Zenon DEF NthOf
<1>4. 1 \in 1..4 /\ 2 \in 1..4 /\ 3 \in 1..4 /\ 4 \in 1..4
  OBVIOUS
<1>5. StillRun(legs, kind, "sell", e) = Owed(legs, kind, 0, e)
  BY <1>3, <1>4, CountIs, Zenon DEF Owed
<1> QED BY <1>1, <1>5

\* The legs of a built package make a ticket.
LEMMA ListsAreTickets ==
  ASSUME NEW n \in 1..4, NEW legs \in LegLists(n)
  PROVE  Ticket(legs) /\ legs \in [1..n -> LegsOnTicket] /\ DOMAIN legs = 1..n
<1>1. legs \in [1..n -> LegsOnTicket] /\ InTicketOrder(legs)
  BY DEF LegLists
<1>2. LegsOnTicket \subseteq LegT
  BY TicketAssumption DEF LegT
<1>3. legs \in [1..n -> LegT]
  BY <1>1, <1>2
<1> QED BY <1>1, <1>3 DEF Ticket

\* No short is bare just where the longs of its kind suffice at every expiry.
LEMMA NakedIs ==
  ASSUME NEW legs, Ticket(legs)
  PROVE  NakedShorts(legs) = {} <=>
           \A kind \in {"call", "put"}, l \in ToSet(legs) :
             StillRun(legs, kind, "buy", l.expiry) >= StillRun(legs, kind, "sell", l.expiry)
<1>1. NakedShorts(legs) = {} <=> \A kind \in Kinds : NoneBare(legs, kind, NakedShorts(legs))
  <2>1. NakedShorts(legs) \subseteq DOMAIN legs
    BY BareUnlessEnough DEF Kinds
  <2>2. \A i \in NakedShorts(legs) : legs[i].kind \in Kinds
    BY <2>1, TicketIs
  <2> QED BY <2>2 DEF NoneBare
<1>2. NakedShorts(legs) = {} <=> \A kind \in Kinds : Enough(legs, kind)
  BY <1>1, BareUnlessEnough
<1>3. ASSUME NEW kind \in Kinds, NEW e
      PROVE  StillRun(legs, kind, "buy", e) >= StillRun(legs, kind, "sell", e)
               <=> Owed(legs, kind, 0, e) <= Spare(legs, kind, Ratios(legs), e)
  <2>1. PICK b \in Nat, o \in Nat : b = Spare(legs, kind, Ratios(legs), e) /\ o = Owed(legs, kind, 0, e)
    BY RatiosAre, SpareIsNat, OwedIsNat
  <2>2. b >= o <=> o <= b
    OBVIOUS
  <2> QED BY <2>1, <2>2, EnoughIs, Zenon
<1>4. Expiries(legs) = {l.expiry : l \in ToSet(legs)}
  BY DEF Expiries, ToSet
<1>5. ASSUME NEW kind \in Kinds
      PROVE  Enough(legs, kind) <=>
               \A l \in ToSet(legs) :
                 StillRun(legs, kind, "buy", l.expiry) >= StillRun(legs, kind, "sell", l.expiry)
  <2>1. Enough(legs, kind) <=>
          \A l \in ToSet(legs) : Owed(legs, kind, 0, l.expiry) <= Spare(legs, kind, Ratios(legs), l.expiry)
    BY <1>4, Zenon DEF Enough
  <2> QED BY <1>3, <2>1, Zenon
<1> QED BY <1>2, <1>5, Zenon DEF Kinds

\* A built package is naked only where, at some expiry, its shorts outnumber the
\* longs of their kind, whatever its legs (naked_shorts).
THEOREM NakedIffUncovered == SpreadSpec => []NakedOnlyIfUncovered
<1>1. SpreadInit => NakedOnlyIfUncovered
  BY DEF SpreadInit, NakedOnlyIfUncovered
<1>2. NakedOnlyIfUncovered /\ [SpreadNext]_preview => NakedOnlyIfUncovered'
  <2> SUFFICES ASSUME NakedOnlyIfUncovered, [SpreadNext]_preview PROVE NakedOnlyIfUncovered'
    OBVIOUS
  <2>1. ASSUME NEW p, preview' = <<p>>, p.strategy # "custom"
        PROVE  NakedOnlyIfUncovered'
    <3>1. DOMAIN preview' = {1} /\ preview'[1] = p
      BY <2>1
    <3> QED BY <2>1, <3>1 DEF NakedOnlyIfUncovered
  <2>2. ASSUME NEW n \in 1..4, NEW k \in [1..n -> StrikesOnTicket],
               NEW strategy \in SingleLegs \cup Verticals \cup {"iron_condor"},
               PreviewFields(strategy, k)
        PROVE  NakedOnlyIfUncovered'
    <3>1. PICK p : preview' = <<p>> /\ p.strategy = strategy
      BY <2>2 DEF PreviewFields, Named
    <3>2. strategy # "custom"
      BY DEF SingleLegs, Verticals
    <3> QED BY <2>1, <3>1, <3>2
  <2>3. ASSUME NEW n \in 1..4, NEW legs \in LegLists(n), NEW strategy \in LegsStrategies,
               PreviewLegs(strategy, legs)
        PROVE  NakedOnlyIfUncovered'
    <3>1. PICK p : preview' = <<p>> /\ p.strategy = strategy
      BY <2>3 DEF PreviewLegs, Named
    <3>2. strategy # "custom"
      BY DEF LegsStrategies
    <3> QED BY <2>1, <3>1, <3>2
  <2>4. ASSUME NEW n \in 1..4, NEW legs \in LegLists(n), PreviewBuilt(legs)
        PROVE  NakedOnlyIfUncovered'
    <3>1. PICK price \in NetPrices, sign \in {-1, 1}, stock \in StockPrices, lots \in ShareLots,
               shares \in {"with", "without"} :
            preview' = <<[strategy |-> "custom", legs |-> legs, price |-> sign * price,
                          stock |-> stock, shares |-> shares,
                          risk |-> BuiltRisk(legs, sign * price, shares, lots, stock)]>>
      BY <2>4 DEF PreviewBuilt
    <3>2. PICK p : p = [strategy |-> "custom", legs |-> legs, price |-> sign * price,
                          stock |-> stock, shares |-> shares,
                          risk |-> BuiltRisk(legs, sign * price, shares, lots, stock)]
      OBVIOUS
    <3>3. preview' = <<p>>
      BY <3>1, <3>2
    <3>4. p.legs = legs /\ p.shares = shares
      BY <3>2
    <3>5. shares = "without" => p.risk.bare = NakedShorts(legs)
      BY <3>2 DEF BuiltRisk
    <3>6. Ticket(legs)
      BY ListsAreTickets
    <3>7. NakedShorts(legs) = {} <=>
           \A kind \in {"call", "put"}, l \in ToSet(legs) :
             StillRun(legs, kind, "buy", l.expiry) >= StillRun(legs, kind, "sell", l.expiry)
      BY <3>6, NakedIs
    <3>8. DOMAIN preview' = {1} /\ preview'[1] = p
      BY <3>3
    <3> QED BY <3>4, <3>5, <3>7, <3>8, Zenon DEF NakedOnlyIfUncovered
  <2>5. CASE NewTicket
    BY <2>5 DEF NewTicket, NakedOnlyIfUncovered
  <2>6. CASE UNCHANGED preview
    BY <2>6 DEF NakedOnlyIfUncovered
  <2> QED BY <2>2, <2>3, <2>4, <2>5, <2>6 DEF SpreadNext
<1> QED BY <1>1, <1>2, PTL DEF SpreadSpec

-----------------------------------------------------------------------------
(* The least of a set.                                                     *)

Whole(s) == \A i \in s : i \in Int

\* A finite set of integers that is not empty has its least.
LEMMA MinIsIn ==
  ASSUME NEW s, Whole(s), IsFiniteSet(s), s # {}
  PROVE  Min(s) \in s /\ \A y \in s : Min(s) <= y
<1> DEFINE below(x) == {y \in s : y <= x}
           X == {below(x) : x \in s}
<1>1. X \subseteq SUBSET s /\ X # {}
  OBVIOUS
<1>2. PICK m \in X : \A y \in X : y \subseteq m => y = m
  <2> HIDE DEF X
  <2>1. QED
    BY <1>1, SmallestSubset
<1>3. PICK x \in s : m = below(x)
  OBVIOUS
<1>4. \A y \in s : x <= y
  <2>1. SUFFICES ASSUME NEW y \in s, y < x
                 PROVE  FALSE
    BY DEF Whole
  <2>2. below(y) \subseteq m /\ below(y) \in X
    BY <1>3, <2>1 DEF Whole
  <2>3. below(y) = m
    BY <1>2, <2>2
  <2>4. x \in m /\ x \notin below(y)
    BY <1>3, <2>1 DEF Whole
  <2>5. QED
    BY <2>3, <2>4
<1>5. QED
  BY <1>4, Zenon DEF Min

-----------------------------------------------------------------------------
(* Between strikes a package is worth a line.                              *)

SignedRatio(l) == IF l.side = "buy" THEN l.ratio ELSE -l.ratio

\* What a leg gains with every point, where the prices are on its side of s.
Rise(l, s) ==
  IF l.strike <= s THEN IF l.kind = "call" THEN SignedRatio(l) ELSE 0
  ELSE IF l.kind = "call" THEN 0 ELSE -SignedRatio(l)

\* No strike lies strictly between s and x.
Beside(l, s, x) == (l.strike <= s /\ l.strike <= x) \/ (l.strike > s /\ l.strike >= x)

\* A leg gains the same with every point on one side of its strike.
LEMMA LegIsLine ==
  ASSUME NEW l \in LegT, NEW s \in Nat, NEW x \in Nat, Beside(l, s, x)
  PROVE  /\ Rise(l, s) \in Int /\ l.strike \in Nat
         /\ LegWorth(l, x) = Rise(l, s) * x - Rise(l, s) * l.strike
<1>1. /\ l.strike \in Nat /\ l.kind \in {"call", "put"} /\ l.side \in {"buy", "sell"} /\ l.ratio \in Nat
  BY DEF LegT
<1>2. PICK r \in Nat, k \in Nat : r = l.ratio /\ k = l.strike
  BY <1>1
<1>3. SignedRatio(l) \in Int /\ Rise(l, s) \in Int
  BY <1>1 DEF SignedRatio, Rise
<1>4. CASE k <= s /\ k <= x
  <2>1. Intrinsic(l, x) = IF l.kind = "call" THEN x - k ELSE 0
    BY <1>1, <1>2, <1>4 DEF Intrinsic, Larger
  <2>2. CASE l.kind = "call" /\ l.side = "buy"
    <3>1. LegWorth(l, x) = r * (x - k) /\ Rise(l, s) = r
      BY <1>2, <1>4, <2>1, <2>2 DEF LegWorth, Rise, SignedRatio
    <3>2. r * (x - k) = r * x - r * k
      BY ONLY r \in Nat, k \in Nat, x \in Nat
    <3> QED BY <1>1, <1>2, <1>3, <3>1, <3>2
  <2>3. CASE l.kind = "call" /\ l.side = "sell"
    <3>1. LegWorth(l, x) = -(r * (x - k)) /\ Rise(l, s) = -r
      BY <1>2, <1>4, <2>1, <2>3 DEF LegWorth, Rise, SignedRatio
    <3>2. -(r * (x - k)) = (-r) * x - (-r) * k
      BY ONLY r \in Nat, k \in Nat, x \in Nat
    <3> QED BY <1>1, <1>2, <1>3, <3>1, <3>2
  <2>4. CASE l.kind = "put"
    <3>1. LegWorth(l, x) = IF l.side = "buy" THEN r * 0 ELSE -(r * 0)
      BY <1>2, <2>1, <2>4 DEF LegWorth
    <3>2. Rise(l, s) = 0
      BY <1>2, <1>4, <2>4 DEF Rise
    <3>3. r * 0 = 0 /\ 0 * x = 0 /\ 0 * k = 0
      BY ONLY r \in Nat, k \in Nat, x \in Nat
    <3> QED BY <1>1, <1>2, <1>3, <3>1, <3>2, <3>3
  <2> QED BY <1>1, <2>2, <2>3, <2>4
<1>5. CASE k > s /\ k >= x
  <2>1. Intrinsic(l, x) = IF l.kind = "call" THEN 0 ELSE k - x
    BY <1>1, <1>2, <1>5 DEF Intrinsic, Larger
  <2>2. CASE l.kind = "put" /\ l.side = "buy"
    <3>1. LegWorth(l, x) = r * (k - x) /\ Rise(l, s) = -r
      BY <1>2, <1>5, <2>1, <2>2 DEF LegWorth, Rise, SignedRatio
    <3>2. r * (k - x) = (-r) * x - (-r) * k
      BY ONLY r \in Nat, k \in Nat, x \in Nat
    <3> QED BY <1>1, <1>2, <1>3, <3>1, <3>2
  <2>3. CASE l.kind = "put" /\ l.side = "sell"
    <3>1. LegWorth(l, x) = -(r * (k - x)) /\ Rise(l, s) = r
      BY <1>2, <1>5, <2>1, <2>3 DEF LegWorth, Rise, SignedRatio
    <3>2. -(r * (k - x)) = r * x - r * k
      BY ONLY r \in Nat, k \in Nat, x \in Nat
    <3> QED BY <1>1, <1>2, <1>3, <3>1, <3>2
  <2>4. CASE l.kind = "call"
    <3>1. LegWorth(l, x) = IF l.side = "buy" THEN r * 0 ELSE -(r * 0)
      BY <1>2, <2>1, <2>4 DEF LegWorth
    <3>2. Rise(l, s) = 0
      BY <1>2, <1>5, <2>4 DEF Rise
    <3>3. r * 0 = 0 /\ 0 * x = 0 /\ 0 * k = 0
      BY ONLY r \in Nat, k \in Nat, x \in Nat
    <3> QED BY <1>1, <1>2, <1>3, <3>1, <3>2, <3>3
  <2> QED BY <1>1, <2>2, <2>3, <2>4
<1> QED BY <1>2, <1>4, <1>5 DEF Beside

NthRise(legs, s, i) == IF i \in DOMAIN legs THEN Rise(legs[i], s) ELSE 0
NthBase(legs, s, i) == IF i \in DOMAIN legs THEN Rise(legs[i], s) * legs[i].strike ELSE 0

Slope(legs, s) == NthRise(legs, s, 1) + NthRise(legs, s, 2) + NthRise(legs, s, 3) + NthRise(legs, s, 4)
Base(legs, s) == NthBase(legs, s, 1) + NthBase(legs, s, 2) + NthBase(legs, s, 3) + NthBase(legs, s, 4)

AllBeside(legs, s, x) == \A i \in DOMAIN legs : Beside(legs[i], s, x)

\* A ticket has legs, at most four.
LEMMA TicketLegs ==
  ASSUME NEW legs, Ticket(legs)
  PROVE  /\ \A i \in DOMAIN legs : legs[i] \in LegT /\ i \in 1..4
         /\ 1 \in DOMAIN legs
<1>1. PICK n \in 1..4 : legs \in [1..n -> LegT]
  BY DEF Ticket
<1> QED BY <1>1

\* A package gains the same with every point between two strikes.
LEMMA WorthIsLine ==
  ASSUME NEW legs, Ticket(legs), NEW s \in Nat, NEW x \in Nat, AllBeside(legs, s, x)
  PROVE  /\ Slope(legs, s) \in Int /\ Base(legs, s) \in Int
         /\ PackageWorth(legs, x) = Slope(legs, s) * x - Base(legs, s)
<1> DEFINE rise(i) == NthRise(legs, s, i)
           base(i) == NthBase(legs, s, i)
<1>1. ASSUME NEW i \in 1..4
      PROVE  /\ rise(i) \in Int /\ base(i) \in Int
             /\ NthWorth(legs, i, x) = rise(i) * x - base(i)
  <2>1. CASE i \in DOMAIN legs
    <3>1. /\ Rise(legs[i], s) \in Int /\ legs[i].strike \in Nat
          /\ LegWorth(legs[i], x) = Rise(legs[i], s) * x - Rise(legs[i], s) * legs[i].strike
      BY <2>1, TicketLegs, LegIsLine DEF AllBeside
    <3>2. Rise(legs[i], s) * legs[i].strike \in Int
      BY <3>1
    <3> QED BY <2>1, <3>1, <3>2, Zenon DEF NthRise, NthBase, NthWorth
  <2>2. CASE i \notin DOMAIN legs
    <3>1. rise(i) = 0 /\ base(i) = 0 /\ NthWorth(legs, i, x) = 0
      BY <2>2, Zenon DEF NthRise, NthBase, NthWorth
    <3>2. 0 = 0 * x - 0
      OBVIOUS
    <3> QED BY <3>1, <3>2
  <2> QED BY <2>1, <2>2
<1>2. PICK m1 \in Int, m2 \in Int, m3 \in Int, m4 \in Int : m1 = rise(1) /\ m2 = rise(2) /\ m3 = rise(3) /\ m4 = rise(4)
  BY <1>1
<1>3. PICK c1 \in Int, c2 \in Int, c3 \in Int, c4 \in Int : c1 = base(1) /\ c2 = base(2) /\ c3 = base(3) /\ c4 = base(4)
  BY <1>1
<1>4. /\ NthWorth(legs, 1, x) = m1 * x - c1 /\ NthWorth(legs, 2, x) = m2 * x - c2
      /\ NthWorth(legs, 3, x) = m3 * x - c3 /\ NthWorth(legs, 4, x) = m4 * x - c4
  <2>1. \A i \in 1..4 : NthWorth(legs, i, x) = rise(i) * x - base(i)
    BY <1>1
  <2>2. 1 \in 1..4 /\ 2 \in 1..4 /\ 3 \in 1..4 /\ 4 \in 1..4
    OBVIOUS
  <2> HIDE DEF rise, base
  <2> QED BY <1>2, <1>3, <2>1, <2>2, Zenon
<1>5. PackageWorth(legs, x) = (m1 * x - c1) + (m2 * x - c2) + (m3 * x - c3) + (m4 * x - c4)
  BY <1>4, Zenon DEF PackageWorth
<1>6. Slope(legs, s) = m1 + m2 + m3 + m4 /\ Base(legs, s) = c1 + c2 + c3 + c4
  BY <1>2, <1>3, Zenon DEF Slope, Base
<1>7. (m1 * x - c1) + (m2 * x - c2) + (m3 * x - c3) + (m4 * x - c4)
        = (m1 + m2 + m3 + m4) * x - (c1 + c2 + c3 + c4)
  BY ONLY x \in Nat, m1 \in Int, m2 \in Int, m3 \in Int, m4 \in Int, c1 \in Int, c2 \in Int, c3 \in Int, c4 \in Int
<1>8. m1 + m2 + m3 + m4 \in Int /\ c1 + c2 + c3 + c4 \in Int
  OBVIOUS
<1> QED BY <1>5, <1>6, <1>7, <1>8, Zenon

\* A line is not above both ends of a segment.
LEMMA AtOneEnd ==
  ASSUME NEW m \in Int, NEW c \in Int, NEW s \in Nat, NEW x \in Nat,
         (m >= 0 /\ x <= s) \/ (m <= 0 /\ s <= x)
  PROVE  m * x - c <= m * s - c
<1>1. m * (s - x) >= 0
  <2>1. CASE m >= 0 /\ x <= s
    BY <2>1
  <2>2. CASE m <= 0 /\ s <= x
    BY <2>2
  <2> QED BY <2>1, <2>2
<1>2. m * (s - x) = m * s - m * x
  OBVIOUS
<1>3. m * s \in Int /\ m * x \in Int
  OBVIOUS
<1> QED BY <1>1, <1>2, <1>3

-----------------------------------------------------------------------------
(* The ends of the line.                                                   *)

\* The longs of a kind less its shorts, where all legs expire together.
NetOf(legs, kind) ==
  Spare(legs, kind, Ratios(legs), legs[1].expiry) - Owed(legs, kind, 0, legs[1].expiry)

NthNet(legs, kind, i) ==
  IF i \in DOMAIN legs /\ legs[i].kind = kind THEN SignedRatio(legs[i]) ELSE 0

\* The longs less the shorts are the sum of the legs, each with its sign.
LEMMA NetIs ==
  ASSUME NEW legs, Ticket(legs), OneExpiry(legs), NEW kind
  PROVE  /\ NetOf(legs, kind) \in Int
         /\ NetOf(legs, kind) =
              NthNet(legs, kind, 1) + NthNet(legs, kind, 2) + NthNet(legs, kind, 3) + NthNet(legs, kind, 4)
         /\ Enough(legs, kind) <=> NetOf(legs, kind) >= 0
         /\ \A i \in 1..4 : NthNet(legs, kind, i) \in Int
<1> DEFINE e == legs[1].expiry
           w == Ratios(legs)
           bought(i) == NthOf(Runs(legs, kind, "buy", e, i), w[i])
           sold(i) == NthOf(Owes(legs, kind, 0, e, i), w[i])
<1>0. e \in Nat /\ \A i \in DOMAIN legs : legs[i].expiry = e
  BY TicketLegs, TicketIs DEF OneExpiry
<1>1. ASSUME NEW i \in 1..4
      PROVE  bought(i) \in Nat /\ sold(i) \in Nat /\ NthNet(legs, kind, i) = bought(i) - sold(i)
  <2>1. w[i] \in Nat
    BY RatiosAre DEF Counting
  <2>2. CASE i \notin DOMAIN legs \/ legs[i].kind # kind
    <3>1. ~Runs(legs, kind, "buy", e, i) /\ ~Owes(legs, kind, 0, e, i)
      BY <2>2 DEF Runs, Owes
    <3>2. bought(i) = 0 /\ sold(i) = 0
      BY <3>1, Zenon DEF NthOf
    <3>3. NthNet(legs, kind, i) = 0
      BY <2>2, Zenon DEF NthNet
    <3> QED BY <3>2, <3>3
  <2>3. CASE i \in DOMAIN legs /\ legs[i].kind = kind
    <3>1. legs[i].side \in {"buy", "sell"} /\ w[i] = legs[i].ratio /\ legs[i].expiry >= e
      BY <1>0, <2>3, TicketIs, RatiosAre
    <3>2. CASE legs[i].side = "buy"
      <4>1. Runs(legs, kind, "buy", e, i) /\ ~Owes(legs, kind, 0, e, i)
        BY <2>3, <3>1, <3>2 DEF Runs, Owes
      <4>2. bought(i) = w[i] /\ sold(i) = 0
        BY <4>1, Zenon DEF NthOf
      <4>3. NthNet(legs, kind, i) = w[i]
        BY <2>3, <3>1, <3>2, Zenon DEF NthNet, SignedRatio
      <4> QED BY <2>1, <4>2, <4>3
    <3>3. CASE legs[i].side = "sell"
      <4>1. ~Runs(legs, kind, "buy", e, i) /\ Owes(legs, kind, 0, e, i)
        BY <2>3, <3>1, <3>3 DEF Runs, Owes
      <4>2. bought(i) = 0 /\ sold(i) = w[i]
        BY <4>1, Zenon DEF NthOf
      <4>3. NthNet(legs, kind, i) = -w[i]
        BY <2>3, <3>1, <3>3 DEF NthNet, SignedRatio
      <4> QED BY <2>1, <4>2, <4>3
    <3> QED BY <3>1, <3>2, <3>3
  <2> QED BY <2>2, <2>3
<1>2. PICK b1 \in Nat, b2 \in Nat, b3 \in Nat, b4 \in Nat :
        b1 = bought(1) /\ b2 = bought(2) /\ b3 = bought(3) /\ b4 = bought(4)
  BY <1>1
<1>3. PICK s1 \in Nat, s2 \in Nat, s3 \in Nat, s4 \in Nat :
        s1 = sold(1) /\ s2 = sold(2) /\ s3 = sold(3) /\ s4 = sold(4)
  BY <1>1
<1>4. /\ Spare(legs, kind, w, e) = b1 + b2 + b3 + b4
      /\ Owed(legs, kind, 0, e) = s1 + s2 + s3 + s4
  BY <1>2, <1>3, Zenon DEF Spare, Owed
<1>5. /\ NthNet(legs, kind, 1) = b1 - s1 /\ NthNet(legs, kind, 2) = b2 - s2
      /\ NthNet(legs, kind, 3) = b3 - s3 /\ NthNet(legs, kind, 4) = b4 - s4
  <2>1. \A i \in 1..4 : NthNet(legs, kind, i) = bought(i) - sold(i)
    BY <1>1
  <2>2. 1 \in 1..4 /\ 2 \in 1..4 /\ 3 \in 1..4 /\ 4 \in 1..4
    OBVIOUS
  <2> HIDE DEF bought, sold
  <2> QED BY <1>2, <1>3, <2>1, <2>2, Zenon
<1>6. NetOf(legs, kind) = (b1 + b2 + b3 + b4) - (s1 + s2 + s3 + s4)
  BY <1>4, Zenon DEF NetOf
<1>7. Enough(legs, kind) <=> s1 + s2 + s3 + s4 <= b1 + b2 + b3 + b4
  <2>1. Expiries(legs) = {e}
    <3>1. 1 \in DOMAIN legs
      BY TicketLegs
    <3> QED BY <1>0, <3>1 DEF Expiries
  <2>2. Enough(legs, kind) <=> Owed(legs, kind, 0, e) <= Spare(legs, kind, w, e)
    BY <2>1 DEF Enough
  <2> QED BY <1>4, <2>2, Zenon
<1> HIDE DEF bought, sold, w
<1>8. \A i \in 1..4 : NthNet(legs, kind, i) \in Int
  BY <1>1
<1>9. NetOf(legs, kind) \in Int /\ (NetOf(legs, kind) >= 0 <=> s1 + s2 + s3 + s4 <= b1 + b2 + b3 + b4)
  BY <1>6
<1>10. NetOf(legs, kind) =
         NthNet(legs, kind, 1) + NthNet(legs, kind, 2) + NthNet(legs, kind, 3) + NthNet(legs, kind, 4)
  BY <1>5, <1>6
<1> QED BY <1>7, <1>8, <1>9, <1>10

\* Without shares, calls bought over calls sold.
LEMMA NetCallsAre ==
  ASSUME NEW legs, Ticket(legs), OneExpiry(legs)
  PROVE  NetCalls(legs, 0) = NetOf(legs, "call")
<1> DEFINE sign(i) == IF i \notin DOMAIN legs \/ legs[i].kind = "put" THEN 0
                      ELSE IF legs[i].side = "buy" THEN legs[i].ratio ELSE -legs[i].ratio
<1>1. ASSUME NEW i \in 1..4
      PROVE  sign(i) = NthNet(legs, "call", i)
  <2>1. CASE i \in DOMAIN legs /\ legs[i].kind = "call"
    BY <2>1, Zenon DEF NthNet, SignedRatio
  <2>2. CASE i \in DOMAIN legs /\ legs[i].kind # "call"
    <3>1. legs[i].kind = "put"
      BY <2>2, TicketIs DEF Kinds
    <3> QED BY <2>2, <3>1, Zenon DEF NthNet
  <2>3. CASE i \notin DOMAIN legs
    BY <2>3, Zenon DEF NthNet
  <2> QED BY <2>1, <2>2, <2>3
<1>2. NetCalls(legs, 0) = sign(1) + sign(2) + sign(3) + sign(4) + 0
  BY Zenon DEF NetCalls
<1> HIDE DEF sign
<1>3. sign(1) = NthNet(legs, "call", 1) /\ sign(2) = NthNet(legs, "call", 2)
      /\ sign(3) = NthNet(legs, "call", 3) /\ sign(4) = NthNet(legs, "call", 4)
  BY <1>1
<1>4. PICK n \in Int : n = NetOf(legs, "call") /\
        n = NthNet(legs, "call", 1) + NthNet(legs, "call", 2) + NthNet(legs, "call", 3) + NthNet(legs, "call", 4)
  BY NetIs
<1>5. NetCalls(legs, 0) = n + 0
  BY <1>2, <1>3, <1>4, Zenon
<1> QED BY <1>4, <1>5

\* Beyond all strikes it is the calls that count, below them the puts.
LEMMA SlopeAtEnds ==
  ASSUME NEW legs, Ticket(legs), OneExpiry(legs), NEW s \in Nat
  PROVE  /\ (\A i \in DOMAIN legs : legs[i].strike <= s) => Slope(legs, s) = NetOf(legs, "call")
         /\ (\A i \in DOMAIN legs : legs[i].strike > s) => Slope(legs, s) = -NetOf(legs, "put")
<1>1. ASSUME \A i \in DOMAIN legs : legs[i].strike <= s
      PROVE  Slope(legs, s) = NetOf(legs, "call")
  <2>1. ASSUME NEW i \in 1..4 PROVE NthRise(legs, s, i) = NthNet(legs, "call", i)
    <3>1. CASE i \in DOMAIN legs
      BY <1>1, <3>1, Zenon DEF NthRise, NthNet, Rise
    <3>2. CASE i \notin DOMAIN legs
      BY <3>2, Zenon DEF NthRise, NthNet
    <3> QED BY <3>1, <3>2
  <2>2. 1 \in 1..4 /\ 2 \in 1..4 /\ 3 \in 1..4 /\ 4 \in 1..4
    OBVIOUS
  <2> QED BY <2>1, <2>2, NetIs, Zenon DEF Slope
<1>2. ASSUME \A i \in DOMAIN legs : legs[i].strike > s
      PROVE  Slope(legs, s) = -NetOf(legs, "put")
  <2>1. ASSUME NEW i \in 1..4 PROVE NthRise(legs, s, i) = -NthNet(legs, "put", i)
    <3>1. CASE i \in DOMAIN legs
      <4>1. legs[i].kind \in Kinds /\ ~(legs[i].strike <= s)
        BY <1>2, <3>1, TicketIs
      <4>2. CASE legs[i].kind = "call"
        <5>1. NthRise(legs, s, i) = 0 /\ NthNet(legs, "put", i) = 0
          BY <3>1, <4>1, <4>2 DEF NthRise, NthNet, Rise
        <5> QED BY <5>1
      <4>3. CASE legs[i].kind = "put"
        BY <3>1, <4>1, <4>3, Zenon DEF NthRise, NthNet, Rise
      <4> QED BY <4>1, <4>2, <4>3 DEF Kinds
    <3>2. CASE i \notin DOMAIN legs
      <4>1. NthRise(legs, s, i) = 0 /\ NthNet(legs, "put", i) = 0
        BY <3>2 DEF NthRise, NthNet
      <4> QED BY <4>1
    <3> QED BY <3>1, <3>2
  <2>2. PICK n1 \in Int, n2 \in Int, n3 \in Int, n4 \in Int :
          /\ n1 = NthNet(legs, "put", 1) /\ n2 = NthNet(legs, "put", 2)
          /\ n3 = NthNet(legs, "put", 3) /\ n4 = NthNet(legs, "put", 4)
    BY NetIs
  <2>3. NetOf(legs, "put") = n1 + n2 + n3 + n4
    BY <2>2, NetIs, Zenon
  <2>4. NthRise(legs, s, 1) = -n1 /\ NthRise(legs, s, 2) = -n2 /\ NthRise(legs, s, 3) = -n3 /\ NthRise(legs, s, 4) = -n4
    BY <2>1, <2>2
  <2>5. Slope(legs, s) = (-n1) + (-n2) + (-n3) + (-n4)
    BY <2>4, Zenon DEF Slope
  <2>6. (-n1) + (-n2) + (-n3) + (-n4) = -(n1 + n2 + n3 + n4)
    OBVIOUS
  <2> QED BY <2>3, <2>5, <2>6, Zenon
<1> QED BY <1>1, <1>2

-----------------------------------------------------------------------------
(* The worst a covered package comes to, it comes to at a strike.          *)

\* A ticket has finitely many legs.
LEMMA FewLegs ==
  ASSUME NEW legs, Ticket(legs)
  PROVE  IsFiniteSet(DOMAIN legs)
<1>1. IsFiniteSet(1..4)
  <2>1. PICK a \in Int, b \in Int : a = 1 /\ b = 4
    OBVIOUS
  <2>2. IsFiniteSet(a..b)
    BY FS_Interval
  <2> QED BY <2>1, <2>2
<1>2. DOMAIN legs \subseteq 1..4
  BY TicketLegs
<1> QED BY <1>1, <1>2, FS_Subset

\* Two numbers make a finite set.
LEMMA PairIsFinite ==
  ASSUME NEW a, NEW b
  PROVE  IsFiniteSet({a, b})
<1>1. IsFiniteSet({} \cup {a})
  BY FS_EmptySet, FS_AddElement
<1>2. IsFiniteSet(({} \cup {a}) \cup {b})
  BY <1>1, FS_AddElement
<1>3. ({} \cup {a}) \cup {b} = {a, b}
  OBVIOUS
<1> QED BY <1>2, <1>3

\* No settlement is worse than all strikes, where no short is left uncovered.
LEMMA WorstAtStrike ==
  ASSUME NEW legs, Ticket(legs), OneExpiry(legs), NetOf(legs, "call") >= 0, NetOf(legs, "put") >= 0,
         NEW s \in Nat
  PROVE  \E i \in DOMAIN legs : PackageWorth(legs, legs[i].strike) <= PackageWorth(legs, s)
<1> DEFINE below == {legs[i].strike : i \in {j \in DOMAIN legs : legs[j].strike <= s}}
           above == {legs[i].strike : i \in {j \in DOMAIN legs : legs[j].strike > s}}
<1>0. /\ \A i \in DOMAIN legs : legs[i].strike \in Nat
      /\ IsFiniteSet(DOMAIN legs) /\ 1 \in DOMAIN legs
  BY FewLegs, TicketLegs, TicketIs
<1>f. /\ IsFiniteSet(below) /\ Numbers(below)
      /\ IsFiniteSet(above) /\ Whole(above)
  <2> DEFINE k == [i \in DOMAIN legs |-> legs[i].strike]
             B == {j \in DOMAIN legs : legs[j].strike <= s}
             A == {j \in DOMAIN legs : legs[j].strike > s}
  <2>1. IsFiniteSet(B) /\ IsFiniteSet(A)
    BY <1>0, FS_Subset
  <2>2. IsFiniteSet({k[i] : i \in B}) /\ IsFiniteSet({k[i] : i \in A})
    <3> HIDE DEF k, B, A
    <3> QED BY <2>1, ImageIsFinite
  <2>3. {k[i] : i \in B} = below /\ {k[i] : i \in A} = above
    OBVIOUS
  <2>4. Numbers(below) /\ Whole(above)
    BY <1>0 DEF Numbers, Whole
  <2> QED BY <2>2, <2>3, <2>4
<1>1. AllBeside(legs, s, s)
  BY <1>0 DEF AllBeside, Beside
<1>2. PICK m \in Int, c \in Int : m = Slope(legs, s) /\ c = Base(legs, s)
  BY <1>1, WorthIsLine
<1>3. PackageWorth(legs, s) = m * s - c
  BY <1>1, <1>2, WorthIsLine, Zenon
<1>4. ASSUME NEW x \in Nat, AllBeside(legs, s, x), (m >= 0 /\ x <= s) \/ (m <= 0 /\ s <= x)
      PROVE  PackageWorth(legs, x) <= PackageWorth(legs, s)
  <2>1. PackageWorth(legs, x) = m * x - c
    BY <1>2, <1>4, WorthIsLine, Zenon
  <2>2. m * x - c <= m * s - c
    BY <1>4, AtOneEnd
  <2> QED BY <1>3, <2>1, <2>2
<1>5. ASSUME below # {}
      PROVE  \E i \in DOMAIN legs : legs[i].strike <= s /\ AllBeside(legs, s, legs[i].strike)
  <2>1. Max(below) \in below /\ \A y \in below : Max(below) >= y
    BY <1>5, <1>f, MaxIsIn
  <2>2. PICK i \in DOMAIN legs : legs[i].strike <= s /\ \A y \in below : legs[i].strike >= y
    BY <2>1
  <2>3. ASSUME NEW j \in DOMAIN legs
        PROVE  Beside(legs[j], s, legs[i].strike)
    <3>1. CASE legs[j].strike <= s
      <4>1. legs[i].strike >= legs[j].strike
        BY <2>2, <3>1
      <4> QED BY <1>0, <3>1, <4>1 DEF Beside
    <3>2. CASE legs[j].strike > s
      BY <1>0, <2>2, <3>2 DEF Beside
    <3> QED BY <1>0, <3>1, <3>2
  <2> QED BY <2>2, <2>3 DEF AllBeside
<1>6. ASSUME above # {}
      PROVE  \E i \in DOMAIN legs : s <= legs[i].strike /\ AllBeside(legs, s, legs[i].strike)
  <2>1. Min(above) \in above /\ \A y \in above : Min(above) <= y
    BY <1>6, <1>f, MinIsIn
  <2>2. PICK i \in DOMAIN legs : legs[i].strike > s /\ \A y \in above : legs[i].strike <= y
    BY <2>1
  <2>3. ASSUME NEW j \in DOMAIN legs
        PROVE  Beside(legs[j], s, legs[i].strike)
    <3>1. CASE legs[j].strike > s
      <4>1. legs[i].strike <= legs[j].strike
        BY <2>2, <3>1
      <4> QED BY <1>0, <3>1, <4>1 DEF Beside
    <3>2. CASE legs[j].strike <= s
      BY <1>0, <2>2, <3>2 DEF Beside
    <3> QED BY <1>0, <3>1, <3>2
  <2> QED BY <1>0, <2>2, <2>3 DEF AllBeside
<1>7. CASE below # {} /\ m >= 0
  BY <1>0, <1>4, <1>5, <1>7
<1>8. CASE above # {} /\ m <= 0
  BY <1>0, <1>4, <1>6, <1>8
<1>9. above = {} => m >= 0
  <2>1. SUFFICES ASSUME above = {} PROVE m >= 0
    OBVIOUS
  <2>2. \A i \in DOMAIN legs : legs[i].strike <= s
    BY <1>0, <2>1
  <2>3. m = NetOf(legs, "call")
    BY <1>2, <2>2, SlopeAtEnds, Zenon
  <2> QED BY <2>3
<1>10. below = {} => m <= 0
  <2>1. SUFFICES ASSUME below = {} PROVE m <= 0
    OBVIOUS
  <2>2. \A i \in DOMAIN legs : legs[i].strike > s
    <3> SUFFICES ASSUME NEW i \in DOMAIN legs, ~(legs[i].strike > s) PROVE FALSE
      OBVIOUS
    <3>1. legs[i].strike <= s
      BY <1>0
    <3> QED BY <2>1, <3>1
  <2>3. m = -NetOf(legs, "put")
    BY <1>2, <2>2, SlopeAtEnds, Zenon
  <2>4. NetOf(legs, "put") \in Int
    BY NetIs
  <2> QED BY <2>3, <2>4
<1>11. below # {} \/ above # {}
  BY <1>0
<1> HIDE DEF below, above
<1> QED BY <1>7, <1>8, <1>9, <1>10, <1>11, m \in Int

\* Beyond the last strike the package gains what its calls come to.
LEMMA BeyondLast ==
  ASSUME NEW legs, Ticket(legs), OneExpiry(legs), NEW far \in Nat,
         \A i \in DOMAIN legs : legs[i].strike <= far
  PROVE  /\ PackageWorth(legs, far) \in Int /\ PackageWorth(legs, far + 1) \in Int
         /\ PackageWorth(legs, far + 1) < PackageWorth(legs, far) <=> NetOf(legs, "call") < 0
<1>0. \A i \in DOMAIN legs : legs[i].strike \in Nat
  BY TicketIs
<1>1. AllBeside(legs, far, far) /\ AllBeside(legs, far, far + 1)
  BY <1>0 DEF AllBeside, Beside
<1>2. PICK m \in Int, c \in Int : m = Slope(legs, far) /\ c = Base(legs, far)
  BY <1>1, WorthIsLine
<1>3. PackageWorth(legs, far) = m * far - c
  BY <1>1, <1>2, WorthIsLine, Zenon
<1>4. PackageWorth(legs, far + 1) = m * (far + 1) - c
  <2>1. far + 1 \in Nat
    OBVIOUS
  <2> QED BY <1>1, <1>2, <2>1, WorthIsLine, Zenon
<1>5. m = NetOf(legs, "call")
  BY <1>2, SlopeAtEnds, Zenon
<1>6. m * (far + 1) = m * far + m /\ m * far \in Int
  BY ONLY m \in Int, far \in Nat
<1>7. PICK z \in Int : z = m * far
  BY <1>6
<1>8. PackageWorth(legs, far) = z - c /\ PackageWorth(legs, far + 1) = z + m - c
  BY <1>3, <1>4, <1>6, <1>7
<1>9. z + m - c < z - c <=> m < 0
  BY ONLY z \in Int, m \in Int, c \in Int
<1>10. z - c \in Int /\ z + m - c \in Int
  OBVIOUS
<1> QED BY <1>5, <1>8, <1>9, <1>10, Zenon

\* What a package comes to at any price is a number.
LEMMA WorthIsInt ==
  ASSUME NEW legs, Ticket(legs), NEW s \in Nat
  PROVE  PackageWorth(legs, s) \in Int
<1>0. \A i \in DOMAIN legs : legs[i].strike \in Nat
  BY TicketIs
<1>1. AllBeside(legs, s, s)
  BY <1>0 DEF AllBeside, Beside
<1>2. PICK m \in Int, c \in Int : m = Slope(legs, s) /\ c = Base(legs, s)
  BY <1>1, WorthIsLine
<1>3. PackageWorth(legs, s) = m * s - c
  BY <1>1, <1>2, WorthIsLine, Zenon
<1>4. m * s \in Int
  BY ONLY m \in Int, s \in Nat
<1> QED BY <1>3, <1>4

\* Without shares the result is the payoff less what was paid.
LEMMA PnlBuiltIs ==
  ASSUME NEW legs, Ticket(legs), NEW net \in Int, NEW stock \in Nat, NEW s \in Nat
  PROVE  PositionPnl(legs, net, 0, stock, s) = PackageWorth(legs, s) - net
<1>1. PackageWorth(legs, s) \in Int
  BY WorthIsInt
<1>2. 0 * (s - stock) = 0
  OBVIOUS
<1> QED BY <1>1, <1>2 DEF PositionPnl

\* The grid has every strike, and prices only.
LEMMA GridIs ==
  ASSUME NEW legs, Ticket(legs), NEW stock \in Nat
  PROVE  /\ IsFiniteSet(Grid(legs, stock)) /\ Numbers(Grid(legs, stock))
         /\ \A i \in DOMAIN legs : legs[i].strike \in Grid(legs, stock)
<1> DEFINE strikes == {legs[i].strike : i \in DOMAIN legs}
           off == {Larger(k - stock, stock - k) : k \in strikes}
           half == Max(off) + Larger(1, Max(strikes) - Min(strikes))
<1>1. /\ \A i \in DOMAIN legs : legs[i].strike \in Nat
      /\ IsFiniteSet(DOMAIN legs) /\ 1 \in DOMAIN legs
  BY FewLegs, TicketLegs, TicketIs
<1>2. strikes # {} /\ Numbers(strikes) /\ Whole(strikes)
  BY <1>1 DEF Numbers, Whole
<1>3. IsFiniteSet(strikes)
  <2> DEFINE k == [i \in DOMAIN legs |-> legs[i].strike]
  <2>1. IsFiniteSet({k[i] : i \in DOMAIN legs})
    <3> HIDE DEF k
    <3> QED BY <1>1, ImageIsFinite
  <2>2. {k[i] : i \in DOMAIN legs} = strikes
    OBVIOUS
  <2> QED BY <2>1, <2>2
<1>s. \A i \in DOMAIN legs : legs[i].strike \in strikes
  OBVIOUS
<1>g. Grid(legs, stock) = {Larger(0, stock - half), stock + half} \cup strikes
  BY Zenon DEF Grid
<1> HIDE DEF strikes
<1>4. off # {} /\ Numbers(off)
  BY <1>2 DEF Numbers, Larger
<1>5. IsFiniteSet(off)
  <2> DEFINE d == [k \in strikes |-> Larger(k - stock, stock - k)]
  <2>1. IsFiniteSet({d[k] : k \in strikes})
    <3> HIDE DEF d
    <3> QED BY <1>3, ImageIsFinite
  <2>2. {d[k] : k \in strikes} = off
    OBVIOUS
  <2> QED BY <2>1, <2>2
<1> HIDE DEF off
<1>6. Max(off) \in Nat /\ Max(strikes) \in Nat /\ Min(strikes) \in Nat
  <2>1. Max(off) \in off
    BY <1>4, <1>5, MaxIsIn
  <2>2. Max(strikes) \in strikes
    BY <1>2, <1>3, MaxIsIn
  <2>3. Min(strikes) \in strikes
    BY <1>2, <1>3, MinIsIn
  <2> QED BY <1>2, <1>4, <2>1, <2>2, <2>3 DEF Numbers
<1>7. half \in Nat
  BY <1>6 DEF Larger
<1> HIDE DEF half
<1>8. Larger(0, stock - half) \in Nat /\ stock + half \in Nat
  BY <1>7 DEF Larger
<1>9. Numbers(Grid(legs, stock))
  BY <1>2, <1>8, <1>g DEF Numbers
<1>10. IsFiniteSet(Grid(legs, stock))
  <2>1. IsFiniteSet({Larger(0, stock - half), stock + half})
    BY PairIsFinite
  <2>2. IsFiniteSet({Larger(0, stock - half), stock + half} \cup strikes)
    BY <1>3, <2>1, FS_Union
  <2> QED BY <1>g, <2>2, Zenon
<1>11. \A i \in DOMAIN legs : legs[i].strike \in Grid(legs, stock)
  BY <1>s, <1>g
<1> QED BY <1>9, <1>10, <1>11

\* The worst a fully covered package is said to come to is no better than what
\* it comes to at any settlement.
LEMMA GridHasWorst ==
  ASSUME NEW legs, Ticket(legs), OneExpiry(legs), NetOf(legs, "call") >= 0, NetOf(legs, "put") >= 0,
         NEW net \in Int, NEW stock \in Nat, NEW s \in Nat
  PROVE  Min({PositionPnl(legs, net, 0, stock, x) : x \in Grid(legs, stock)}) \in Int
         /\ Min({PositionPnl(legs, net, 0, stock, x) : x \in Grid(legs, stock)})
              <= PositionPnl(legs, net, 0, stock, s)
<1> DEFINE P == {PositionPnl(legs, net, 0, stock, x) : x \in Grid(legs, stock)}
<1>1. /\ IsFiniteSet(Grid(legs, stock)) /\ Numbers(Grid(legs, stock))
      /\ \A i \in DOMAIN legs : legs[i].strike \in Grid(legs, stock)
  BY GridIs
<1>2. \A x \in Nat : PositionPnl(legs, net, 0, stock, x) = PackageWorth(legs, x) - net
                     /\ PackageWorth(legs, x) \in Int
  BY PnlBuiltIs, WorthIsInt
<1>3. Whole(P)
  BY <1>1, <1>2 DEF Whole, Numbers
<1>4. IsFiniteSet(P)
  <2> DEFINE f == [x \in Grid(legs, stock) |-> PositionPnl(legs, net, 0, stock, x)]
  <2>1. IsFiniteSet({f[x] : x \in Grid(legs, stock)})
    <3> HIDE DEF f
    <3> QED BY <1>1, ImageIsFinite
  <2>2. {f[x] : x \in Grid(legs, stock)} = P
    OBVIOUS
  <2> QED BY <2>1, <2>2
<1>5. PICK i \in DOMAIN legs : PackageWorth(legs, legs[i].strike) <= PackageWorth(legs, s)
  BY WorstAtStrike
<1>6. PICK y : y = PositionPnl(legs, net, 0, stock, legs[i].strike) /\ y \in P
  BY <1>1
<1>7. Min(P) \in P /\ Min(P) <= y
  <2> HIDE DEF P
  <2> QED BY <1>3, <1>4, <1>6, MinIsIn
<1>8. Min(P) \in Int
  BY <1>3, <1>7 DEF Whole
<1> HIDE DEF P
<1>9. PICK a \in Int, b \in Int : /\ a = PackageWorth(legs, legs[i].strike) /\ b = PackageWorth(legs, s)
                                  /\ a <= b /\ y = a - net /\ PositionPnl(legs, net, 0, stock, s) = b - net
  <2>1. legs[i].strike \in Nat
    BY TicketIs
  <2> QED BY <1>2, <1>5, <1>6, <2>1
<1>10. y <= PositionPnl(legs, net, 0, stock, s) /\ y \in Int /\ PositionPnl(legs, net, 0, stock, s) \in Int
  BY <1>9
<1>11. Min(P) <= PositionPnl(legs, net, 0, stock, s)
  BY <1>7, <1>8, <1>10
<1> QED BY <1>8, <1>11 DEF P

-----------------------------------------------------------------------------
(* What a built package is said to lose.                                   *)

\* The last strike of all is not below that of any leg.
LEMMA LastStrikeIs ==
  ASSUME NEW n \in 1..4, NEW legs \in [1..n -> LegsOnTicket]
  PROVE  /\ Max({l.strike : l \in LegsOnTicket}) \in Nat
         /\ \A i \in DOMAIN legs : legs[i].strike <= Max({l.strike : l \in LegsOnTicket})
<1> DEFINE K == {l.strike : l \in LegsOnTicket}
<1>1. IsFiniteSet(K)
  <2> DEFINE f == [l \in LegsOnTicket |-> l.strike]
  <2>1. IsFiniteSet({f[l] : l \in LegsOnTicket})
    <3> HIDE DEF f
    <3> QED BY TicketAssumption, ImageIsFinite
  <2>2. {f[l] : l \in LegsOnTicket} = K
    OBVIOUS
  <2> QED BY <2>1, <2>2
<1>2. Numbers(K)
  BY TicketAssumption DEF Numbers
<1>3. \A i \in DOMAIN legs : legs[i].strike \in K
  OBVIOUS
<1>4. 1 \in DOMAIN legs
  OBVIOUS
<1> HIDE DEF K
<1>5. Max(K) \in K /\ \A y \in K : Max(K) >= y
  BY <1>1, <1>2, <1>3, <1>4, MaxIsIn
<1>6. Max(K) \in Nat /\ \A i \in DOMAIN legs : legs[i].strike \in Nat
  BY <1>2, <1>3, <1>5 DEF Numbers
<1>7. \A i \in DOMAIN legs : legs[i].strike <= Max(K)
  BY <1>3, <1>5, <1>6
<1> QED BY <1>6, <1>7 DEF K

\* A built package without shares loses without limit where its calls sold
\* outnumber those bought.
LEMMA UnlimitedIs ==
  ASSUME NEW legs, Ticket(legs), OneExpiry(legs), NEW net, NEW stock
  PROVE  WorstCase(legs, NakedShorts(legs), net, 0, stock) = {} <=> NetOf(legs, "call") < 0
<1> DEFINE bare == NakedShorts(legs)
<1>1. /\ bare \subseteq DOMAIN legs
      /\ NoneBare(legs, "call", bare) <=> Enough(legs, "call")
  BY BareUnlessEnough DEF Kinds
<1>2. PICK m \in Int : m = NetOf(legs, "call")
  BY NetIs
<1>3. Enough(legs, "call") <=> m >= 0
  BY <1>2, NetIs
<1>4. NetCalls(legs, 0) = m
  BY <1>2, NetCallsAre
<1>5. NoneBare(legs, "call", bare) <=> ~(m < 0)
  <2>1. m >= 0 <=> ~(m < 0)
    OBVIOUS
  <2> QED BY <1>1, <1>3, <2>1
<1> HIDE DEF bare
<1>6. CASE bare = {}
  <2>1. ~(m < 0)
    BY <1>5, <1>6 DEF NoneBare
  <2> QED BY <1>2, <1>4, <1>6, <2>1, Zenon DEF WorstCase, bare
<1>7. CASE bare # {} /\ \E i \in bare : legs[i].kind = "call"
  <2>1. m < 0
    BY <1>5, <1>7 DEF NoneBare
  <2> QED BY <1>2, <1>7, <2>1, Zenon DEF WorstCase, bare
<1>8. CASE bare # {} /\ ~\E i \in bare : legs[i].kind = "call"
  <2>1. ~(m < 0)
    BY <1>5, <1>8 DEF NoneBare
  <2> QED BY <1>2, <1>8, <2>1, Zenon DEF WorstCase, bare
<1> QED BY <1>6, <1>7, <1>8

\* What a covered package is said to lose is the worst it comes to.
LEMMA WorstIs ==
  ASSUME NEW legs, Ticket(legs), OneExpiry(legs), NEW net \in Int, NEW stock \in Nat,
         NakedShorts(legs) = {}, NEW loss \in WorstCase(legs, NakedShorts(legs), net, 0, stock),
         NEW s \in Nat
  PROVE  PositionPnl(legs, net, 0, stock, s) >= -loss
<1>1. \A kind \in Kinds : Enough(legs, kind)
  BY BareUnlessEnough DEF NoneBare
<1>2. NetOf(legs, "call") >= 0 /\ NetOf(legs, "put") >= 0
  BY <1>1, NetIs DEF Kinds
<1>3. PICK w : w = Min({PositionPnl(legs, net, 0, stock, x) : x \in Grid(legs, stock)})
  OBVIOUS
<1>4. loss = -w
  BY <1>3, Zenon DEF WorstCase
<1>5. w \in Int /\ w <= PositionPnl(legs, net, 0, stock, s)
  BY <1>2, <1>3, GridHasWorst
<1>6. PositionPnl(legs, net, 0, stock, s) \in Int
  <2>1. PositionPnl(legs, net, 0, stock, s) = PackageWorth(legs, s) - net
    BY PnlBuiltIs
  <2> QED BY <2>1, WorthIsInt
<1>7. PICK v \in Int : v = PositionPnl(legs, net, 0, stock, s)
  BY <1>6
<1>8. v >= -(-w)
  BY ONLY v \in Int, <1>5, <1>7
<1> QED BY <1>4, <1>7, <1>8

\* Past the last strike it loses more with every point in just that case.
LEMMA LosesBeyond ==
  ASSUME NEW legs, Ticket(legs), OneExpiry(legs), NEW net \in Int, NEW stock \in Nat,
         NEW far \in Nat, \A i \in DOMAIN legs : legs[i].strike <= far
  PROVE  PositionPnl(legs, net, 0, stock, far + 1) < PositionPnl(legs, net, 0, stock, far)
           <=> NetOf(legs, "call") < 0
<1>1. PICK a \in Int, b \in Int : a = PackageWorth(legs, far) /\ b = PackageWorth(legs, far + 1)
  BY BeyondLast
<1>2. b < a <=> NetOf(legs, "call") < 0
  BY <1>1, BeyondLast
<1>3. /\ PositionPnl(legs, net, 0, stock, far) = a - net
      /\ PositionPnl(legs, net, 0, stock, far + 1) = b - net
  <2>1. far + 1 \in Nat
    OBVIOUS
  <2> QED BY <1>1, <2>1, PnlBuiltIs
<1>4. b - net < a - net <=> b < a
  BY ONLY a \in Int, b \in Int, net \in Int
<1> QED BY <1>2, <1>3, <1>4, Zenon

\* A built package without shares and of one expiry, whatever its legs, says it
\* can lose without limit exactly when it can; and where no short is bare, what
\* it says it can lose is not exceeded at any settlement (payoff extremes).
THEOREM BuiltRiskAlwaysHolds == SpreadSpec => []BuiltRiskHolds
<1>1. SpreadInit => BuiltRiskHolds
  BY DEF SpreadInit, BuiltRiskHolds
<1>2. BuiltRiskHolds /\ [SpreadNext]_preview => BuiltRiskHolds'
  <2> SUFFICES ASSUME BuiltRiskHolds, [SpreadNext]_preview PROVE BuiltRiskHolds'
    OBVIOUS
  <2>1. ASSUME NEW p, preview' = <<p>>, p.strategy # "custom"
        PROVE  BuiltRiskHolds'
    <3>1. DOMAIN preview' = {1} /\ preview'[1] = p
      BY <2>1
    <3> QED BY <2>1, <3>1 DEF BuiltRiskHolds
  <2>2. ASSUME NEW n \in 1..4, NEW k \in [1..n -> StrikesOnTicket],
               NEW strategy \in SingleLegs \cup Verticals \cup {"iron_condor"},
               PreviewFields(strategy, k)
        PROVE  BuiltRiskHolds'
    <3>1. PICK p : preview' = <<p>> /\ p.strategy = strategy
      BY <2>2 DEF PreviewFields, Named
    <3>2. strategy # "custom"
      BY DEF SingleLegs, Verticals
    <3> QED BY <2>1, <3>1, <3>2
  <2>3. ASSUME NEW n \in 1..4, NEW legs \in LegLists(n), NEW strategy \in LegsStrategies,
               PreviewLegs(strategy, legs)
        PROVE  BuiltRiskHolds'
    <3>1. PICK p : preview' = <<p>> /\ p.strategy = strategy
      BY <2>3 DEF PreviewLegs, Named
    <3>2. strategy # "custom"
      BY DEF LegsStrategies
    <3> QED BY <2>1, <3>1, <3>2
  <2>4. ASSUME NEW n \in 1..4, NEW legs \in LegLists(n), PreviewBuilt(legs)
        PROVE  BuiltRiskHolds'
    <3>1. PICK price \in NetPrices, sign \in {-1, 1}, stock \in StockPrices, lots \in ShareLots,
               shares \in {"with", "without"} :
            preview' = <<[strategy |-> "custom", legs |-> legs, price |-> sign * price,
                          stock |-> stock, shares |-> shares,
                          risk |-> BuiltRisk(legs, sign * price, shares, lots, stock)]>>
      BY <2>4 DEF PreviewBuilt
    <3>n. PICK net \in Int : net = sign * price
      <4>1. price \in Nat /\ (sign = -1 \/ sign = 1)
        BY TicketAssumption
      <4> QED BY <4>1
    <3>2. PICK p : p = [strategy |-> "custom", legs |-> legs, price |-> net,
                          stock |-> stock, shares |-> shares,
                          risk |-> BuiltRisk(legs, net, shares, lots, stock)]
      OBVIOUS
    <3>3. preview' = <<p>>
      BY <3>1, <3>2, <3>n
    <3>4. /\ p.legs = legs /\ p.shares = shares /\ p.strategy = "custom" /\ p.price = net
          /\ p.stock = stock /\ p.risk = BuiltRisk(legs, net, shares, lots, stock)
      BY <3>2
    <3>5. Ticket(legs) /\ stock \in Nat /\ legs \in [1..n -> LegsOnTicket]
      BY ListsAreTickets, TicketAssumption
    <3>6. PICK far \in Nat : /\ far = Max({l.strike : l \in LegsOnTicket})
                             /\ \A i \in DOMAIN legs : legs[i].strike <= far
      BY <3>5, LastStrikeIs
    <3>7. ASSUME shares = "without", OneExpiry(legs)
          PROVE  /\ p.risk.maxLoss = {} <=> Pnl(p, far + 1) < Pnl(p, far)
                 /\ p.risk.bare = {} => \A loss \in p.risk.maxLoss, s \in Settlements : Pnl(p, s) >= -loss
      <4>1. \A s : Pnl(p, s) = PositionPnl(legs, net, 0, stock, s)
        BY <3>4, <3>7 DEF Pnl, Net, Charted
      <4>2. /\ p.risk.bare = NakedShorts(legs)
            /\ p.risk.maxLoss = WorstCase(legs, NakedShorts(legs), net, 0, stock)
        BY <3>4, <3>7 DEF BuiltRisk
      <4>3. p.risk.maxLoss = {} <=> Pnl(p, far + 1) < Pnl(p, far)
        <5>1. WorstCase(legs, NakedShorts(legs), net, 0, stock) = {} <=> NetOf(legs, "call") < 0
          BY <3>5, <3>7, UnlimitedIs
        <5>2. PositionPnl(legs, net, 0, stock, far + 1) < PositionPnl(legs, net, 0, stock, far)
                <=> NetOf(legs, "call") < 0
          BY <3>5, <3>6, <3>7, LosesBeyond
        <5>3. /\ Pnl(p, far + 1) = PositionPnl(legs, net, 0, stock, far + 1)
              /\ Pnl(p, far) = PositionPnl(legs, net, 0, stock, far)
          BY <4>1
        <5> QED BY <4>2, <5>1, <5>2, <5>3
      <4>4. ASSUME p.risk.bare = {}, NEW loss \in p.risk.maxLoss, NEW s \in Settlements
            PROVE  Pnl(p, s) >= -loss
        <5>1. s \in Nat
          BY TicketAssumption
        <5>2. PositionPnl(legs, net, 0, stock, s) >= -loss
          BY <3>5, <3>7, <4>2, <4>4, <5>1, WorstIs
        <5> QED BY <4>1, <5>2
      <4> QED BY <4>3, <4>4
    <3>8. DOMAIN preview' = {1} /\ preview'[1] = p
      BY <3>3
    <3> QED BY <3>4, <3>6, <3>7, <3>8, Zenon DEF BuiltRiskHolds
  <2>5. CASE NewTicket
    BY <2>5 DEF NewTicket, BuiltRiskHolds
  <2>6. CASE UNCHANGED preview
    BY <2>6 DEF BuiltRiskHolds
  <2> QED BY <2>2, <2>3, <2>4, <2>5, <2>6 DEF SpreadNext
<1> QED BY <1>1, <1>2, PTL DEF SpreadSpec

-----------------------------------------------------------------------------
(* The expiry that is picked.                                              *)

\* A set of days that is not empty has its first.
LEMMA FirstDay ==
  ASSUME NEW S, S \subseteq Nat, S # {}
  PROVE  \E d \in S : \A e \in S : d <= e
<1>1. PICK x \in S : TRUE
  OBVIOUS
<1> DEFINE T == {e \in S : e <= x}
<1>2. x \in Nat /\ x \in T /\ \A e \in T : e \in 0..x
  BY <1>1
<1>3. PICK k \in T : \A e \in T : k <= e
  <2>1. T \subseteq 0..x /\ T # {}
    BY <1>2, Zenon
  <2> HIDE DEF T
  <2> QED BY <1>2, <2>1, LeastOf
<1>4. ASSUME NEW e \in S PROVE k <= e
  <2>1. e \in Nat /\ k \in Nat /\ k <= x
    BY <1>2, <1>3
  <2>2. e \in T => k <= e
    BY <1>3
  <2> QED BY <1>2, <2>1, <2>2
<1> QED BY <1>3, <1>4

\* Nearer the middle of the window than the others, the first of two as near.
IsPicked(d, candidates, low, high) ==
  /\ d \in candidates
  /\ \A e \in candidates :
       \/ Away(2 * d, low + high) < Away(2 * e, low + high)
       \/ Away(2 * d, low + high) = Away(2 * e, low + high) /\ d <= e

Inside(days, low, high) == {d \in days : low <= d /\ d <= high}
Preferred(inside, monthly, prefer) ==
  IF prefer /\ inside \cap monthly # {} THEN inside \cap monthly ELSE inside

\* pick_expiry finds one wherever the window holds one (pick_expiry).
LEMMA PickExpiryIs ==
  ASSUME NEW days, days \subseteq Nat, NEW low \in Nat, NEW high \in Nat, NEW monthly, NEW prefer
  PROVE  /\ Inside(days, low, high) = {} => PickExpiry(days, low, high, monthly, prefer) = NoDay
         /\ Inside(days, low, high) # {} =>
              /\ IsPicked(PickExpiry(days, low, high, monthly, prefer),
                          Preferred(Inside(days, low, high), monthly, prefer), low, high)
              /\ PickExpiry(days, low, high, monthly, prefer) \in Inside(days, low, high)
<1>a. PICK d : d = PickExpiry(days, low, high, monthly, prefer)
  OBVIOUS
<1>b. PICK inside : inside = Inside(days, low, high) /\ inside \subseteq Nat
  BY DEF Inside
<1>c. PICK candidates : candidates = Preferred(inside, monthly, prefer)
  OBVIOUS
<1>1. CASE inside = {}
  BY <1>a, <1>b, <1>1, Zenon DEF PickExpiry, Inside
<1>2. CASE inside # {}
  <2>1. candidates \subseteq inside /\ candidates \subseteq Nat /\ candidates # {}
    BY <1>b, <1>c, <1>2 DEF Preferred
  <2> DEFINE far(e) == Away(2 * e, low + high)
             S == {far(e) : e \in candidates}
  <2>2. \A e \in Nat : far(e) \in Nat
    BY DEF Away
  <2>3. S \subseteq Nat /\ S # {}
    BY <2>1, <2>2
  <2>4. PICK m \in S : \A n \in S : m <= n
    <3> HIDE DEF S
    <3> QED BY <2>3, FirstDay
  <2> DEFINE T == {e \in candidates : far(e) = m}
  <2>5. T \subseteq Nat /\ T # {}
    BY <2>1, <2>4
  <2>6. PICK x \in T : \A e \in T : x <= e
    <3> HIDE DEF T
    <3> QED BY <2>5, FirstDay
  <2> HIDE DEF far
  <2>7. ASSUME NEW e \in candidates
        PROVE  far(x) < far(e) \/ (far(x) = far(e) /\ x <= e)
    <3>1. far(e) \in Nat /\ far(e) \in S /\ m \in Nat /\ far(x) = m /\ m <= far(e)
      BY <2>1, <2>2, <2>3, <2>4, <2>6
    <3>2. far(e) = m => x <= e
      BY <2>6
    <3> QED BY <3>1, <3>2
  <2>8. IsPicked(x, candidates, low, high)
    BY <2>6, <2>7 DEF IsPicked, far
  <2>9. d = CHOOSE c \in candidates : \A e \in candidates :
              \/ Away(2 * c, low + high) < Away(2 * e, low + high)
              \/ Away(2 * c, low + high) = Away(2 * e, low + high) /\ c <= e
    BY <1>a, <1>b, <1>c, <1>2, Zenon DEF PickExpiry, Inside, Preferred
  <2>10. IsPicked(d, candidates, low, high)
    <3>1. \E c \in candidates : \A e \in candidates :
              \/ Away(2 * c, low + high) < Away(2 * e, low + high)
              \/ Away(2 * c, low + high) = Away(2 * e, low + high) /\ c <= e
      BY <2>8, Zenon DEF IsPicked
    <3> QED BY <2>9, <3>1, Zenon DEF IsPicked
  <2>11. d \in inside
    BY <2>1, <2>10 DEF IsPicked
  <2> QED BY <1>a, <1>b, <1>c, <1>2, <2>10, <2>11, Zenon
<1> QED BY <1>a, <1>b, <1>c, <1>1, <1>2, Zenon

\* Of the same days, the later one of two windows that overlap lies after the
\* earlier one, or is the same (the back of a calendar, _priced).
LEMMA BackIsLater ==
  ASSUME NEW days, days \subseteq Nat, NEW low \in Nat, NEW high \in Nat, low <= high,
         NEW monthly, NEW prefer,
         NEW d, d = PickExpiry(days, low, high, monthly, prefer), d # NoDay,
         NEW b, b = PickExpiry(days, 2 * low, 3 * high, monthly, prefer), b # NoDay, b # d
  PROVE  b > d
<1> DEFINE front == Inside(days, low, high)
           back == Inside(days, 2 * low, 3 * high)
           fronts == Preferred(front, monthly, prefer)
           backs == Preferred(back, monthly, prefer)
<1>1. IsPicked(d, fronts, low, high)
  BY PickExpiryIs, Zenon
<1>2. 2 * low \in Nat /\ 3 * high \in Nat
  OBVIOUS
<1>3. IsPicked(b, backs, 2 * low, 3 * high)
  BY <1>2, PickExpiryIs, Zenon
<1>4. d \in front /\ b \in back /\ d \in Nat /\ b \in Nat
  <2>1. d \in front /\ b \in back
    BY <1>1, <1>2, <1>3, PickExpiryIs
  <2> QED BY <2>1 DEF Inside
<1>5. SUFFICES ASSUME b < d
               PROVE  FALSE
  BY <1>4
<1>6. b \in front /\ d \in back
  BY <1>4, <1>5 DEF Inside
<1>7. b \in backs => d \in backs
  <2>1. prefer /\ back \cap monthly # {} => b \in monthly
    BY <1>3 DEF IsPicked, Preferred
  <2>2. prefer /\ b \in monthly => d \in monthly
    BY <1>1, <1>6 DEF IsPicked, Preferred
  <2> QED BY <1>6, <2>1, <2>2 DEF Preferred
<1>8. /\ b \in backs
      /\ \/ Away(2 * b, 2 * low + 3 * high) < Away(2 * d, 2 * low + 3 * high)
         \/ Away(2 * b, 2 * low + 3 * high) = Away(2 * d, 2 * low + 3 * high) /\ b <= d
  BY <1>3, <1>7 DEF IsPicked
<1>9. d <= high
  BY <1>4 DEF Inside
<1> HIDE DEF front, back, fronts, backs
<1>10. Away(2 * d, 2 * low + 3 * high) < Away(2 * b, 2 * low + 3 * high)
  BY <1>4, <1>5, <1>9 DEF Away
<1>11. Away(2 * d, 2 * low + 3 * high) \in Int /\ Away(2 * b, 2 * low + 3 * high) \in Int
  BY <1>4 DEF Away
<1> QED BY <1>8, <1>10, <1>11

-----------------------------------------------------------------------------
(* The symbols that are screened.                                          *)

\* Of any symbols one is the most traded.
LEMMA MostTradedIs ==
  ASSUME NEW names, names \subseteq DOMAIN Underlyings, IsFiniteSet(names), names # {}
  PROVE  MostTraded(names) \in names
<1> DEFINE above(a) == {b \in names : Underlyings[b].volume > Underlyings[a].volume}
           S == {Cardinality(above(a)) : a \in names}
<1>1. \A a \in names : Underlyings[a].volume \in Nat
  BY ScreenAssumption
<1>2. \A a \in names : IsFiniteSet(above(a)) /\ Cardinality(above(a)) \in Nat
  BY FS_Subset, FS_CardinalityType
<1>3. S \subseteq Nat /\ S # {}
  BY <1>2
<1>4. PICK a \in names : \A b \in names : Cardinality(above(a)) <= Cardinality(above(b))
  <2>1. PICK m \in S : \A k \in S : m <= k
    <3> HIDE DEF S
    <3> QED BY <1>3, FirstDay
  <2> QED BY <2>1
<1>5. ASSUME NEW b \in names PROVE Underlyings[b].volume <= Underlyings[a].volume
  <2>1. SUFFICES ASSUME Underlyings[b].volume > Underlyings[a].volume
                 PROVE  FALSE
    BY <1>1
  <2>2. above(b) \subseteq above(a) /\ b \in above(a) /\ b \notin above(b)
    BY <1>1, <2>1
  <2>3. above(b) # above(a)
    BY <2>2
  <2>4. Cardinality(above(b)) < Cardinality(above(a))
    <3> DEFINE x == above(a)
               y == above(b)
    <3>1. IsFiniteSet(x) /\ y \subseteq x /\ y # x
      BY <1>2, <2>2, <2>3
    <3> HIDE DEF x, y
    <3>2. Cardinality(y) <= Cardinality(x) /\ (Cardinality(y) = Cardinality(x) => x = y)
      BY <3>1, FS_Subset
    <3>3. Cardinality(x) \in Nat /\ Cardinality(y) \in Nat
      BY <1>2 DEF x, y
    <3>4. Cardinality(y) < Cardinality(x)
      BY <3>1, <3>2, <3>3
    <3> QED BY <3>4 DEF x, y
  <2>5. PICK x, y : x = Cardinality(above(a)) /\ y = Cardinality(above(b))
    OBVIOUS
  <2>6. x \in Nat /\ y \in Nat /\ y < x /\ x <= y
    BY <1>2, <1>4, <2>4, <2>5, Zenon
  <2> QED BY <2>6
<1> QED BY <1>5, Zenon DEF MostTraded

TakeMostTraded(names, taken) == Append(taken, MostTraded(names \ ToSet(taken)))
TradedBy(names, V, n) == [p \in Seq(V) \X (1..n) |-> TakeMostTraded(names, p[1])]

\* The list is a fold of this function.
LEMMA TradedIsFold ==
  ASSUME NEW names, NEW V, NEW n \in Nat,
         \A taken \in Seq(V) : MostTraded(names \ ToSet(taken)) \in V
  PROVE  FirstTraded(names, n) = FoldBy(TradedBy(names, V, n), <<>>, [i \in 1..n |-> i])
<1> DEFINE seq == [i \in 1..n |-> i]
           D == DOMAIN seq
           F == TradedBy(names, V, n)
           A == Seq(V)
           base == <<>>
           step(t, i) == Append(t, MostTraded(names \ ToSet(t)))
           Own(h) == h = [s \in SUBSET D |->
                            IF s = {} THEN base ELSE step(h[s \ {Max(s)}], seq[Max(s)])]
<1>0. D = 1..n /\ \A i \in D : seq[i] = i
  OBVIOUS
<1>1. Numbers(D) /\ IsFiniteSet(D) /\ Typed(seq, D, D) /\ base \in A
  BY <1>0, FS_Interval DEF Typed, Numbers
<1>2. \A a \in A, x \in D : F[<<a, x>>] = step(a, x)
  BY <1>0 DEF TradedBy, TakeMostTraded
<1>s. Stays(F, A, D)
  <2>1. ASSUME NEW a \in A, NEW x \in D PROVE step(a, x) \in A
    BY AppendProperties
  <2> QED BY <1>2, <2>1, Zenon DEF Stays
<1> HIDE DEF A
<1>3. PICK g : Folded(g, F, base, seq, D)
  BY <1>1, FoldedExist
<1>4. \A s \in SUBSET D : g[s] \in A
  <2> HIDE DEF base, F, seq, D
  <2> QED BY <1>1, <1>s, <1>3, FoldedIn
<1>5. \A s \in SUBSET D : s # {} => s \ {Max(s)} \in SUBSET D /\ Max(s) \in D
  BY <1>1, FS_Subset, MaxIsIn DEF Numbers
<1>6. Own(g)
  <2>1. ASSUME NEW s \in SUBSET D, s # {}
        PROVE  F[<<g[s \ {Max(s)}], seq[Max(s)]>>] = step(g[s \ {Max(s)}], seq[Max(s)])
    <3>1. g[s \ {Max(s)}] \in A /\ seq[Max(s)] \in D
      BY <1>1, <1>4, <1>5, <2>1 DEF Typed
    <3> QED BY <1>2, <3>1, Zenon
  <2>2. g = [s \in SUBSET D |-> IF s = {} THEN base ELSE F[<<g[s \ {Max(s)}], seq[Max(s)]>>]]
    BY <1>3, Zenon DEF Folded
  <2>3. \A s \in SUBSET D : (IF s = {} THEN base ELSE F[<<g[s \ {Max(s)}], seq[Max(s)]>>])
                            = (IF s = {} THEN base ELSE step(g[s \ {Max(s)}], seq[Max(s)]))
    BY <2>1, Zenon
  <2> HIDE DEF F, seq, base, step, D
  <2>4. [s \in SUBSET D |-> IF s = {} THEN base ELSE F[<<g[s \ {Max(s)}], seq[Max(s)]>>]]
        = [s \in SUBSET D |-> IF s = {} THEN base ELSE step(g[s \ {Max(s)}], seq[Max(s)])]
    BY <2>3
  <2> QED BY <2>2, <2>4, Zenon
<1> DEFINE h == CHOOSE h : Own(h)
<1>7. Own(h)
  BY <1>6, Zenon
<1>8. FirstTraded(names, n) = h[D]
  BY Zenon DEF FirstTraded, FoldLeft, MapThenFoldSet
<1> HIDE DEF h
<1>9. TakesSteps(h, F, A, base, seq, D)
  <2>1. ASSUME NEW s \in SUBSET D
        PROVE  h[s] = IF s = {} THEN base ELSE step(h[s \ {Max(s)}], seq[Max(s)])
    BY <1>7, Zenon
  <2>2. h[{}] = base
    <3>1. {} \in SUBSET D
      OBVIOUS
    <3> QED BY <2>1, <3>1, Zenon
  <2>3. ASSUME NEW s \in SUBSET D, s # {}, h[s \ {Max(s)}] \in A
        PROVE  h[s] = F[<<h[s \ {Max(s)}], seq[Max(s)]>>]
    <3>1. seq[Max(s)] \in D
      BY <1>1, <1>5, <2>3 DEF Typed
    <3>2. h[s] = step(h[s \ {Max(s)}], seq[Max(s)])
      BY <2>1, <2>3, Zenon
    <3> QED BY <1>2, <2>3, <3>1, <3>2, Zenon
  <2> QED BY <2>2, <2>3 DEF TakesSteps
<1>10. FoldBy(F, base, seq) = h[D]
  <2>1. D = DOMAIN seq
    OBVIOUS
  <2> HIDE DEF D, F, base, seq
  <2> QED BY <1>1, <1>s, <1>9, <2>1, FoldBySteps
<1> QED BY <1>8, <1>10, Zenon

\* As long as there are enough of them, the first of the symbols are symbols.
LEMMA FirstTradedIs ==
  ASSUME NEW names, names \subseteq DOMAIN Underlyings, IsFiniteSet(names),
         NEW n \in Nat, n <= Cardinality(names)
  PROVE  FirstTraded(names, n) \in Seq(names)
<1> DEFINE V == names \cup {MostTraded({})}
           F == TradedBy(names, V, n)
<1>1. ASSUME NEW taken, names \ ToSet(taken) # {}
      PROVE  MostTraded(names \ ToSet(taken)) \in names
  BY <1>1, MostTradedIs, FS_Subset, names \ ToSet(taken) \subseteq names
<1>2. \A taken \in Seq(V) : MostTraded(names \ ToSet(taken)) \in V
  <2>1. SUFFICES ASSUME NEW taken \in Seq(V) PROVE MostTraded(names \ ToSet(taken)) \in V
    OBVIOUS
  <2>2. names \ ToSet(taken) = {} => MostTraded(names \ ToSet(taken)) = MostTraded({})
    BY Zenon
  <2> QED BY <1>1, <2>2, Zenon
<1>3. \A a \in Seq(V), i \in 1..n : F[<<a, i>>] = Append(a, MostTraded(names \ ToSet(a)))
  BY DEF TradedBy, TakeMostTraded
<1>4. FirstTraded(names, n) = FoldBy(F, <<>>, [i \in 1..n |-> i])
  <2> HIDE DEF V
  <2> QED BY <1>2, TradedIsFold
<1>5. PICK h : /\ h[0] = <<>>
               /\ \A i \in 1..n : h[i] = F[<<h[i - 1], [j \in 1..n |-> j][i]>>]
               /\ FoldBy(F, <<>>, [j \in 1..n |-> j]) = h[n]
  <2>1. PICK seq : seq = [j \in 1..n |-> j]
    OBVIOUS
  <2>2. Counts(seq, n)
    BY <2>1 DEF Counts
  <2>3. PICK base : base = <<>>
    OBVIOUS
  <2>4. PICK G : G = F
    OBVIOUS
  <2>5. PICK h : /\ h[0] = base
                 /\ \A i \in 1..n : h[i] = G[<<h[i - 1], seq[i]>>]
                 /\ FoldBy(G, base, seq) = h[n]
    BY <2>2, FoldByPrefixes
  <2> HIDE DEF F
  <2> QED BY <2>1, <2>3, <2>4, <2>5, Zenon
<1>6. \A i \in 1..n : h[i] = F[<<h[i - 1], i>>]
  BY <1>5
<1> HIDE DEF F, V
<1> DEFINE P == {i \in 0..n : h[i] \in Seq(names) /\ Len(h[i]) = i}
<1>7. 0 \in P
  <2>1. <<>> \in Seq(names) /\ Len(<<>>) = 0 /\ 0 \in 0..n
    OBVIOUS
  <2>2. h[0] \in Seq(names) /\ Len(h[0]) = 0
    BY <1>5, <2>1, Zenon
  <2> QED BY <2>1, <2>2
<1>8. ASSUME NEW i \in 1..n, i - 1 \in P
      PROVE  i \in P
  <2>1. PICK a : a = h[i - 1] /\ a \in Seq(names) /\ Len(a) = i - 1
    BY <1>8
  <2>2. a \in Seq(V)
    BY <2>1 DEF V
  <2>3. names \ ToSet(a) # {}
    <3>1. IsFiniteSet(ToSet(a)) /\ Cardinality(ToSet(a)) <= Len(a)
      <4>1. DOMAIN a = 1..(i - 1) /\ i - 1 \in Nat
        BY <2>1
      <4>2. IsFiniteSet(1..(i - 1)) /\ Cardinality(1..(i - 1)) = i - 1
        BY <4>1, FS_Interval
      <4>3. PICK D : D = 1..(i - 1)
        OBVIOUS
      <4>4. a \in Surjection(D, ToSet(a))
        <5>1. a \in [D -> ToSet(a)]
          BY <2>1, <4>1, <4>3 DEF ToSet
        <5> QED BY <4>1, <4>3, <5>1 DEF Surjection, ToSet
      <4>5. IsFiniteSet(ToSet(a)) /\ Cardinality(ToSet(a)) <= Cardinality(D)
        BY <4>2, <4>3, <4>4, FS_Surjection
      <4> QED BY <2>1, <4>2, <4>3, <4>5
    <3>2. SUFFICES ASSUME names \subseteq ToSet(a) PROVE FALSE
      OBVIOUS
    <3>3. Cardinality(names) <= Cardinality(ToSet(a))
      BY <3>1, <3>2, FS_Subset
    <3>4. Cardinality(names) \in Nat /\ Cardinality(ToSet(a)) \in Nat
      BY <3>1, FS_CardinalityType
    <3> QED BY <2>1, <3>1, <3>3, <3>4
  <2>4. PICK m \in names : m = MostTraded(names \ ToSet(a))
    BY <1>1, <2>3
  <2>5. h[i] = Append(a, m)
    BY <1>3, <1>6, <2>1, <2>2, <2>4
  <2>6. Append(a, m) \in Seq(names) /\ Len(Append(a, m)) = i
    BY <2>1
  <2> QED BY <2>5, <2>6
<1>9. n \in P
  <2> HIDE DEF P
  <2>1. 0..n \subseteq P
    BY <1>7, <1>8, UpTo
  <2> QED BY <2>1
<1> QED BY <1>4, <1>5, <1>9

\* Every symbol that is screened has its board (preselect).
LEMMA SelectedAre ==
  ASSUME NEW req \in ScreenRequests
  PROVE  Selected(req) \in Seq(DOMAIN Underlyings)
<1>1. /\ req.symbols \in Seq(DOMAIN Underlyings) /\ req.limit \in Nat
      /\ IsFiniteSet(DOMAIN Underlyings)
  BY ScreenAssumption
<1> DEFINE fits(u) == /\ u.price > 0 /\ u.price >= req.minPrice /\ u.price <= req.maxPrice
                      /\ u.volume >= req.minVolume
           kept == {name \in DOMAIN Underlyings : fits(Underlyings[name])}
           n == Smaller(Cardinality(kept), req.limit)
<1>2. kept \subseteq DOMAIN Underlyings
  OBVIOUS
<1>3. Selected(req) = IF req.symbols # <<>> THEN req.symbols ELSE FirstTraded(kept, n)
  BY Zenon DEF Selected
<1> HIDE DEF kept
<1>4. IsFiniteSet(kept) /\ Cardinality(kept) \in Nat
  BY <1>1, <1>2, FS_Subset, FS_CardinalityType
<1>5. n \in Nat /\ n <= Cardinality(kept)
  BY <1>1, <1>4 DEF Smaller
<1> HIDE DEF n
<1>6. FirstTraded(kept, n) \in Seq(DOMAIN Underlyings)
  <2>1. FirstTraded(kept, n) \in Seq(kept)
    BY <1>2, <1>4, <1>5, FirstTradedIs
  <2> QED BY <1>2, <2>1
<1> QED BY <1>1, <1>3, <1>6

-----------------------------------------------------------------------------
(* The structures that are tried.                                          *)

\* What there is so far is of S and of L.
Takens(S, L) == [seen : SUBSET S, list : Seq(L)]

Trials(chain, req, day) == {StructureOn(chain, req, <<delta, delta>>, day) : delta \in ToSet(CandidateDeltas)}
SeenOn(chain, req, day) == {<<day, parts>> : parts \in Trials(chain, req, day)}
ListedOn(chain, req, day) ==
  {[day |-> day, parts |-> parts, outcome |-> ValueStructure(chain, req, parts, day, AtmIv(chain))[1]] :
     parts \in Trials(chain, req, day)}

TryOn(chain, req, day, taken, delta) == TryDelta(chain, req, day, AtmIv(chain), taken, delta)

\* One delta lists no more than its structure on that expiry.
LEMMA TryStays ==
  ASSUME NEW chain, NEW req, NEW day, NEW S, NEW L, SeenOn(chain, req, day) \subseteq S,
         ListedOn(chain, req, day) \subseteq L,
         NEW taken \in Takens(S, L), NEW delta \in ToSet(CandidateDeltas)
  PROVE  TryOn(chain, req, day, taken, delta) \in Takens(S, L)
<1>1. PICK parts : parts = StructureOn(chain, req, <<delta, delta>>, day)
  OBVIOUS
<1>2. PICK outcome : outcome = ValueStructure(chain, req, parts, day, AtmIv(chain))
  OBVIOUS
<1>3. parts \in Trials(chain, req, day)
  BY <1>1, Zenon DEF Trials
<1>4. <<day, parts>> \in S
  BY <1>3, Zenon DEF SeenOn
<1>5. PICK c \in L : c = [day |-> day, parts |-> parts, outcome |-> outcome[1]]
  BY <1>2, <1>3, Zenon DEF ListedOn
<1>6. taken.seen \subseteq S /\ taken.list \in Seq(L)
  BY DEF Takens
<1>7. [seen |-> taken.seen \cup {<<day, parts>>}, list |-> Append(taken.list, c)] \in Takens(S, L)
  <2>1. Append(taken.list, c) \in Seq(L)
    BY <1>5, <1>6, AppendProperties
  <2>2. taken.seen \cup {<<day, parts>>} \in SUBSET S
    BY <1>4, <1>6
  <2> QED BY <2>1, <2>2 DEF Takens
<1>8. Take(taken, day, parts, outcome) \in Takens(S, L)
  BY <1>5, <1>7, Zenon DEF Take
<1>9. \/ TryOn(chain, req, day, taken, delta) = taken
      \/ TryOn(chain, req, day, taken, delta) = Take(taken, day, parts, outcome)
  BY <1>1, <1>2, Zenon DEF TryOn, TryDelta
<1> QED BY <1>8, <1>9, Zenon

TryBy(chain, req, day, A) ==
  [p \in A \X ToSet(CandidateDeltas) |-> TryOn(chain, req, day, p[1], p[2])]

\* Trying every delta is a fold of this function.
LEMMA CandidatesAreFold ==
  ASSUME NEW chain, NEW req, NEW day, NEW A, NEW start \in A,
         \A t \in A, i \in ToSet(CandidateDeltas) : TryOn(chain, req, day, t, i) \in A
  PROVE  /\ CandidatesOn(chain, req, day, start) = FoldBy(TryBy(chain, req, day, A), start, CandidateDeltas)
         /\ CandidatesOn(chain, req, day, start) \in A
<1> DEFINE seq == CandidateDeltas
           D == DOMAIN seq
           T == ToSet(CandidateDeltas)
           F == TryBy(chain, req, day, A)
           base == start
           step(t, i) == TryDelta(chain, req, day, AtmIv(chain), t, i)
           Own(h) == h = [s \in SUBSET D |->
                            IF s = {} THEN base ELSE step(h[s \ {Max(s)}], seq[Max(s)])]
<1>0. seq \in Seq(Nat)
  BY ScreenAssumption
<1>1. Numbers(D) /\ IsFiniteSet(D) /\ Typed(seq, D, T) /\ base \in A
  BY <1>0, Indices DEF Typed, ToSet
<1>2. \A a \in A, x \in T : F[<<a, x>>] = step(a, x)
  BY DEF TryBy, TryOn
<1>s. Stays(F, A, T)
  <2>1. ASSUME NEW a \in A, NEW x \in T PROVE step(a, x) \in A
    BY DEF TryOn
  <2> QED BY <1>2, <2>1, Zenon DEF Stays
<1> HIDE DEF T
<1>3. PICK g : Folded(g, F, base, seq, D)
  BY <1>1, FoldedExist
<1>4. \A s \in SUBSET D : g[s] \in A
  <2> HIDE DEF base, F, seq, D
  <2> QED BY <1>1, <1>s, <1>3, FoldedIn
<1>5. \A s \in SUBSET D : s # {} => s \ {Max(s)} \in SUBSET D /\ Max(s) \in D
  BY <1>1, FS_Subset, MaxIsIn DEF Numbers
<1>6. Own(g)
  <2>1. ASSUME NEW s \in SUBSET D, s # {}
        PROVE  F[<<g[s \ {Max(s)}], seq[Max(s)]>>] = step(g[s \ {Max(s)}], seq[Max(s)])
    <3>1. g[s \ {Max(s)}] \in A /\ seq[Max(s)] \in T
      BY <1>1, <1>4, <1>5, <2>1 DEF Typed
    <3> QED BY <1>2, <3>1, Zenon
  <2>2. g = [s \in SUBSET D |-> IF s = {} THEN base ELSE F[<<g[s \ {Max(s)}], seq[Max(s)]>>]]
    BY <1>3, Zenon DEF Folded
  <2>3. \A s \in SUBSET D : (IF s = {} THEN base ELSE F[<<g[s \ {Max(s)}], seq[Max(s)]>>])
                            = (IF s = {} THEN base ELSE step(g[s \ {Max(s)}], seq[Max(s)]))
    BY <2>1, Zenon
  <2> HIDE DEF F, seq, base, step, D
  <2>4. [s \in SUBSET D |-> IF s = {} THEN base ELSE F[<<g[s \ {Max(s)}], seq[Max(s)]>>]]
        = [s \in SUBSET D |-> IF s = {} THEN base ELSE step(g[s \ {Max(s)}], seq[Max(s)])]
    BY <2>3
  <2> QED BY <2>2, <2>4, Zenon
<1> DEFINE h == CHOOSE h : Own(h)
<1>7. Own(h)
  BY <1>6, Zenon
<1>8. CandidatesOn(chain, req, day, start) = h[D]
  BY Zenon DEF CandidatesOn, FoldLeft, MapThenFoldSet
<1> HIDE DEF h
<1>9. TakesSteps(h, F, A, base, seq, D)
  <2>1. ASSUME NEW s \in SUBSET D
        PROVE  h[s] = IF s = {} THEN base ELSE step(h[s \ {Max(s)}], seq[Max(s)])
    BY <1>7, Zenon
  <2>2. h[{}] = base
    <3>1. {} \in SUBSET D
      OBVIOUS
    <3> QED BY <2>1, <3>1, Zenon
  <2>3. ASSUME NEW s \in SUBSET D, s # {}, h[s \ {Max(s)}] \in A
        PROVE  h[s] = F[<<h[s \ {Max(s)}], seq[Max(s)]>>]
    <3>1. seq[Max(s)] \in T
      BY <1>1, <1>5, <2>3 DEF Typed
    <3>2. h[s] = step(h[s \ {Max(s)}], seq[Max(s)])
      BY <2>1, <2>3, Zenon
    <3> QED BY <1>2, <2>3, <3>1, <3>2, Zenon
  <2> QED BY <2>2, <2>3 DEF TakesSteps
<1>10. FoldBy(F, base, seq) = h[D]
  <2>1. D = DOMAIN seq
    OBVIOUS
  <2> HIDE DEF D, F, base, seq
  <2> QED BY <1>1, <1>s, <1>9, <2>1, FoldBySteps
<1>11. h[D] \in A
  <2>1. FoldBy(F, base, seq) = g[D]
    <3> HIDE DEF F, base, seq
    <3> QED BY <1>1, <1>3, FoldByIs
  <2>2. g[D] \in A
    BY <1>4
  <2> QED BY <1>10, <2>1, <2>2, Zenon
<1> QED BY <1>8, <1>10, <1>11, Zenon

\* Trying every delta lists no more than its structures on that expiry
\* (candidates_on).
LEMMA CandidatesAre ==
  ASSUME NEW chain, NEW req, NEW day, NEW S, NEW L, SeenOn(chain, req, day) \subseteq S,
         ListedOn(chain, req, day) \subseteq L, NEW start \in Takens(S, L)
  PROVE  CandidatesOn(chain, req, day, start) \in Takens(S, L)
<1>1. PICK A : A = Takens(S, L)
  OBVIOUS
<1>2. \A t \in A, i \in ToSet(CandidateDeltas) : TryOn(chain, req, day, t, i) \in A
  BY <1>1, TryStays
<1> QED BY <1>1, <1>2, CandidatesAreFold

\* What is tried on one expiry, and on another, expires on either.
LEMMA TriedOnThese ==
  ASSUME NEW c1, NEW req, NEW d1, NEW c2, NEW d2, NEW parts
  PROVE  LET own == CandidatesOn(c1, req, d1, [seen |-> {<<d1, parts>>}, list |-> <<>>])
         IN  /\ \A c \in ToSet(own.list) : c.day = d1
             /\ \A c \in ToSet(CandidatesOn(c2, req, d2, own).list) : c.day \in {d1, d2}
<1>a. PICK start : start = [seen |-> {<<d1, parts>>}, list |-> <<>>]
  OBVIOUS
<1>b. PICK own : own = CandidatesOn(c1, req, d1, start)
  OBVIOUS
<1> DEFINE S == {<<d1, parts>>} \cup SeenOn(c1, req, d1)
           L == ListedOn(c1, req, d1)
           S2 == S \cup SeenOn(c2, req, d2)
           L2 == L \cup ListedOn(c2, req, d2)
<1>1. \A c \in L : c.day = d1
  BY DEF ListedOn
<1>2. \A c \in L2 : c.day \in {d1, d2}
  BY DEF ListedOn
<1>3. start \in Takens(S, L)
  BY <1>a DEF Takens
<1> HIDE DEF L, L2
<1>4. own \in Takens(S, L)
  BY <1>b, <1>3, CandidatesAre, S \subseteq S, SeenOn(c1, req, d1) \subseteq S, ListedOn(c1, req, d1) \subseteq L DEF L
<1>5. CandidatesOn(c2, req, d2, own) \in Takens(S2, L2)
  <2>1. own.seen \subseteq S /\ own.list \in Seq(L) /\ own = [seen |-> own.seen, list |-> own.list]
    BY <1>4 DEF Takens
  <2>0. \A X, Y, q : q \in Seq(X) /\ X \subseteq Y => q \in Seq(Y)
    OBVIOUS
  <2>2. own.list \in Seq(L2) /\ own.seen \in SUBSET S2
    <3>1. L \subseteq L2
      BY DEF L2
    <3>2. own.list \in Seq(L2)
      BY <2>0, <2>1, <3>1, Zenon
    <3> QED BY <2>1, <3>2
  <2>3. own \in Takens(S2, L2)
    BY <2>1, <2>2 DEF Takens
  <2>4. SeenOn(c2, req, d2) \subseteq S2 /\ ListedOn(c2, req, d2) \subseteq L2
    BY DEF L2
  <2> HIDE DEF S2
  <2> QED BY <2>3, <2>4, CandidatesAre
<1>6. \A X, q : q \in Seq(X) => ToSet(q) \subseteq X
  BY DEF ToSet
<1>7. own.list \in Seq(L) /\ CandidatesOn(c2, req, d2, own).list \in Seq(L2)
  BY <1>4, <1>5 DEF Takens
<1>8. /\ \A c \in ToSet(own.list) : c.day = d1
      /\ \A c \in ToSet(CandidatesOn(c2, req, d2, own).list) : c.day \in {d1, d2}
  BY <1>1, <1>2, <1>6, <1>7
<1> QED BY <1>a, <1>b, <1>8, Zenon

-----------------------------------------------------------------------------
(* The rows of a screen.                                                   *)

RowFields ==
  {"symbol", "day", "report", "excluded", "noCredit", "vol", "iv", "judged", "open", "traded", "parts",
   "outcome", "candidates", "back", "backIv", "rank", "verdicts"}

\* A row keeps clear of the report, where that is asked for (AvoidedReportsAreAvoided).
RowAvoids(row, req) ==
  LET window == InWindow(ListedDays(Underlyings[row.symbol], req), req)
  IN  /\ Policy(req) = "avoid" /\ row.report # NoDay =>
           /\ row.excluded = (window # {} /\ Min(window) >= row.report)
           /\ row.excluded \/ window = {} \/ row.day \in window
           /\ row.day < row.report
           /\ \A c \in ToSet(row.candidates) : c.day < row.report
      /\ row.back # NoDay => row.back > row.day

\* What the row at hand is between its calls: it keeps clear, and its expiry is
\* still the one that its days give.
HandInv(h, req) ==
  /\ DOMAIN h = {"row", "failed", "at", "chain"} /\ DOMAIN h.row = RowFields
  /\ h.row.symbol \in DOMAIN Underlyings /\ h.row.report \in Nat \cup {NoDay}
  /\ RowAvoids(h.row, req)
  /\ h.at # "judge" =>
       /\ h.row.day # NoDay
       /\ h.row.day = PickExpiry(DaysOf(h.row, req), req.low, req.high,
                                 Underlyings[h.row.symbol].monthly, req.monthly)

ScreenAtHand(s) ==
  /\ DOMAIN s = {"req", "pending", "hand", "rows", "equity", "bars", "ranked"}
  /\ s.req \in ScreenRequests /\ s.pending \in Seq(DOMAIN Underlyings)
  /\ s.hand = <<>> \/ (s.hand = <<s.hand[1]>> /\ HandInv(s.hand[1], s.req))
  /\ s.rows \in Seq(ToSet(s.rows))
  /\ \A i \in DOMAIN s.rows : RowAvoids(s.rows[i], s.req)

ScreenInv == screen = <<>> \/ (screen = <<screen[1]>> /\ ScreenAtHand(screen[1]))

\* The first of some days.
LEMMA MinOfDays ==
  ASSUME NEW S, S \subseteq Nat, S # {}
  PROVE  Min(S) \in S /\ \A e \in S : Min(S) <= e
<1>1. \E d \in S : \A e \in S : d <= e
  BY FirstDay
<1> QED BY <1>1, Zenon DEF Min

\* The days of a board, and those the row may use.
LEMMA DaysAre ==
  ASSUME NEW name \in DOMAIN Underlyings, NEW req, NEW report
  PROVE  /\ ListedDays(Underlyings[name], req) \subseteq Nat
         /\ UsableDays(ListedDays(Underlyings[name], req), req, report) \subseteq Nat
<1>1. DOMAIN Underlyings[name].boards \subseteq Nat
  BY ScreenAssumption
<1>2. ListedDays(Underlyings[name], req) \subseteq Nat
  BY <1>1 DEF ListedDays
<1> QED BY <1>2 DEF UsableDays

\* A request's window.
LEMMA RequestIs ==
  ASSUME NEW req \in ScreenRequests
  PROVE  req.low \in Nat /\ req.high \in Nat /\ req.low <= req.high
BY ScreenAssumption

\* A new row keeps clear of the report: its expiry is picked before it, and it is
\* left out where the window has none (_priced).
LEMMA FoundAvoids ==
  ASSUME NEW name \in DOMAIN Underlyings, NEW req \in ScreenRequests, NEW failed, NEW bars,
         NEW row, row = FoundRow(name, req, failed, bars)
  PROVE  /\ DOMAIN row = RowFields /\ row.symbol = name /\ row.report \in Nat \cup {NoDay}
         /\ RowAvoids(row, req)
         /\ row.day # NoDay =>
              row.day = PickExpiry(DaysOf(row, req), req.low, req.high, Underlyings[name].monthly, req.monthly)
<1> DEFINE u == Underlyings[name]
           listed == ListedDays(u, req)
           window == InWindow(listed, req)
           asked == Policy(req) = "avoid" /\ "earnings" \notin failed
           report == IF asked THEN u.report ELSE NoDay
           blank == [BlankRow(name, req) EXCEPT !.report = report]
           day == PickExpiry(UsableDays(listed, req, report), req.low, req.high, u.monthly, req.monthly)
<1>1. /\ DOMAIN BlankRow(name, req) = RowFields
      /\ BlankRow(name, req).symbol = name /\ BlankRow(name, req).report = NoDay
      /\ BlankRow(name, req).day = NoDay /\ BlankRow(name, req).excluded = FALSE
      /\ BlankRow(name, req).candidates = <<>> /\ BlankRow(name, req).back = NoDay
  BY DEF BlankRow, RowFields
<1>2. u.report \in Nat \cup {NoDay} /\ report \in Nat \cup {NoDay}
  BY ScreenAssumption
<1>3. listed \subseteq Nat /\ UsableDays(listed, req, report) \subseteq Nat
  BY DaysAre
<1>4. req.low \in Nat /\ req.high \in Nat /\ req.low <= req.high
  BY RequestIs
<1>5. row = IF "expiries" \in failed THEN BlankRow(name, req)
            ELSE IF ExcludedByReport(listed, req, report) THEN [blank EXCEPT !.excluded = TRUE]
            ELSE [blank EXCEPT !.day = day, !.vol = IF bars /\ day # NoDay THEN u.vol ELSE 0]
  BY Zenon DEF FoundRow
<1>6. NoDay = -1
  BY DEF NoDay
<1>7. ToSet(<<>>) = {}
  BY DEF ToSet
<1>8. window \subseteq Nat
  BY <1>3 DEF InWindow
<1> HIDE DEF u, listed, window, report, day
<1>9. CASE "expiries" \in failed
  <2>1. row = BlankRow(name, req)
    BY <1>5, <1>9, Zenon
  <2> QED BY <1>1, <2>1 DEF RowAvoids
<1>10. CASE "expiries" \notin failed /\ ExcludedByReport(listed, req, report)
  <2>1. row = [blank EXCEPT !.excluded = TRUE]
    BY <1>5, <1>10, Zenon
  <2>2. /\ DOMAIN row = RowFields /\ row.symbol = name /\ row.report = report /\ row.day = NoDay
        /\ row.excluded = TRUE /\ row.candidates = <<>> /\ row.back = NoDay
    BY <1>1, <2>1 DEF RowFields
  <2>3. report \in Nat /\ window # {} /\ \A d \in window : d >= report
    BY <1>2, <1>10 DEF ExcludedByReport, window
  <2>4. Min(window) >= report
    BY <1>8, <2>3, MinOfDays
  <2>5. row.excluded = (window # {} /\ Min(window) >= report) /\ row.day < report
    <3>1. row.excluded = (window # {} /\ Min(window) >= report)
      BY <2>2, <2>3, <2>4, Zenon
    <3>2. row.day < report
      <4>1. row.day = -1 /\ report \in Nat
        BY <1>6, <2>2, <2>3, Zenon
      <4> QED BY <4>1
    <3> QED BY <3>1, <3>2
  <2>6. RowAvoids(row, req)
    <3>1. window = InWindow(ListedDays(Underlyings[row.symbol], req), req)
      BY <2>2 DEF window, listed, u
    <3>2. row.candidates = <<>> /\ row.back = NoDay /\ row.report = report
      BY <2>2
    <3>3. \A c \in ToSet(row.candidates) : c.day < row.report
      BY <1>7, <3>2
    <3> HIDE DEF u, listed, window
    <3> QED BY <2>2, <2>5, <3>1, <3>2, <3>3, Zenon DEF RowAvoids
  <2> QED BY <1>2, <2>2, <2>6
<1>11. CASE "expiries" \notin failed /\ ~ExcludedByReport(listed, req, report)
  <2>1. row = [blank EXCEPT !.day = day, !.vol = IF bars /\ day # NoDay THEN u.vol ELSE 0]
    BY <1>5, <1>11, Zenon
  <2>2. /\ DOMAIN row = RowFields /\ row.symbol = name /\ row.report = report /\ row.day = day
        /\ row.excluded = FALSE /\ row.candidates = <<>> /\ row.back = NoDay
    BY <1>1, <2>1 DEF RowFields
  <2>3. row.day = PickExpiry(DaysOf(row, req), req.low, req.high, Underlyings[name].monthly, req.monthly)
    BY <2>2 DEF DaysOf, day, listed, u
  <2>4. PICK inside : inside = Inside(UsableDays(listed, req, report), req.low, req.high)
    OBVIOUS
  <2>5. (inside = {} => day = NoDay) /\ (inside # {} => day \in inside)
    BY <1>3, <1>4, <2>4, PickExpiryIs, Zenon DEF day
  <2>6. ASSUME Policy(req) = "avoid", report # NoDay
        PROVE  /\ row.excluded = (window # {} /\ Min(window) >= report)
               /\ row.excluded \/ window = {} \/ day \in window
               /\ day < report
    <3>1. report \in Nat
      BY <1>2, <2>6
    <3>2. UsableDays(listed, req, report) = {d \in listed : d < report \/ d > req.high}
      BY <2>6 DEF UsableDays
    <3>3. inside = {d \in window : d < report}
      BY <1>3, <1>4, <2>4, <3>1, <3>2 DEF InWindow, Inside, window
    <3>4. CASE window = {}
      <4>1. inside = {}
        BY <3>3, <3>4
      <4>2. day = -1
        BY <1>6, <2>5, <4>1
      <4>3. day < report
        BY <3>1, <4>2
      <4> QED BY <2>2, <3>4, <4>3, Zenon
    <3>5. CASE window # {}
      <4>1. PICK e \in window : ~(e >= report)
        BY <1>11, <2>6, <3>5 DEF ExcludedByReport, window
      <4>2. e \in inside
        BY <1>8, <3>1, <3>3, <4>1
      <4>3. day \in window /\ day < report
        BY <2>5, <3>3, <4>2
      <4>4. Min(window) \in Nat /\ Min(window) <= e
        BY <1>8, <4>1, <3>5, MinOfDays
      <4>5. ~(Min(window) >= report)
        BY <1>8, <3>1, <4>1, <4>4
      <4> QED BY <2>2, <4>3, <4>5
    <3> QED BY <3>4, <3>5
  <2>7. RowAvoids(row, req)
    BY <1>7, <2>2, <2>6 DEF RowAvoids, window, listed, u
  <2> QED BY <1>2, <2>2, <2>3, <2>7
<1> QED BY <1>9, <1>10, <1>11

\* A row that agrees with one that keeps clear keeps clear too.
LEMMA SameAvoids ==
  ASSUME NEW row, NEW next, NEW req, RowAvoids(row, req),
         next.symbol = row.symbol, next.report = row.report, next.excluded = row.excluded,
         next.day = row.day, next.candidates = row.candidates, next.back = row.back
  PROVE  RowAvoids(next, req)
BY DEF RowAvoids

\* The other structures of a row expire before the report it keeps clear of, like
\* its own (the candidates of _priced).
LEMMA OthersAvoid ==
  ASSUME NEW row, NEW next, NEW req \in ScreenRequests, RowAvoids(row, req),
         row.symbol \in DOMAIN Underlyings, row.report \in Nat \cup {NoDay}, row.day # NoDay,
         next.symbol = row.symbol, next.report = row.report, next.excluded = row.excluded,
         next.day = row.day, next.back = row.back,
         NEW second,
         second = PickExpiry(DaysOf(row, req) \ {row.day}, req.low, req.high,
                             Underlyings[row.symbol].monthly, req.monthly),
         \A c \in ToSet(next.candidates) : c.day = row.day \/ (c.day = second /\ second # NoDay)
  PROVE  RowAvoids(next, req)
<1>1. ASSUME Policy(req) = "avoid", row.report # NoDay, second # NoDay
      PROVE  second < row.report
  <2>1. PICK days : days = DaysOf(row, req) \ {row.day}
    OBVIOUS
  <2>2. DaysOf(row, req) \subseteq Nat /\ days \subseteq Nat
    BY <2>1, DaysAre DEF DaysOf
  <2>3. req.low \in Nat /\ req.high \in Nat /\ req.low <= req.high
    BY RequestIs
  <2>8. second \in Inside(days, req.low, req.high)
    BY <1>1, <2>1, <2>2, <2>3, PickExpiryIs, Zenon
  <2>9. second \in DaysOf(row, req) /\ second <= req.high /\ second \in Nat
    BY <2>1, <2>2, <2>8 DEF Inside
  <2>10. DaysOf(row, req) = {d \in ListedDays(Underlyings[row.symbol], req) : d < row.report \/ d > req.high}
    BY <1>1 DEF DaysOf, UsableDays
  <2> QED BY <2>3, <2>9, <2>10
<1>2. Policy(req) = "avoid" /\ row.report # NoDay => \A c \in ToSet(next.candidates) : c.day < row.report
  BY <1>1 DEF RowAvoids
<1> QED BY <1>2, Zenon DEF RowAvoids

\* The back of a calendar expires later, and the report that is looked up last is
\* one that is not avoided (_priced).
LEMMA BackAvoids ==
  ASSUME NEW row, NEW next, NEW req \in ScreenRequests, RowAvoids(row, req),
         row.symbol \in DOMAIN Underlyings, row.report \in Nat \cup {NoDay}, row.day # NoDay,
         row.day = PickExpiry(DaysOf(row, req), req.low, req.high,
                              Underlyings[row.symbol].monthly, req.monthly),
         next.symbol = row.symbol, next.excluded = row.excluded,
         next.day = row.day, next.candidates = row.candidates,
         Policy(req) = "avoid" => next.report = row.report,
         NEW back,
         back = PickExpiry(DaysOf(row, req), 2 * req.low, 3 * req.high,
                           Underlyings[row.symbol].monthly, req.monthly),
         next.back = NoDay \/ (next.back = back /\ back \notin {NoDay, row.day})
  PROVE  RowAvoids(next, req)
<1>1. DaysOf(row, req) \subseteq Nat
  BY DaysAre DEF DaysOf
<1>2. req.low \in Nat /\ req.high \in Nat /\ req.low <= req.high
  BY RequestIs
<1>3. back \notin {NoDay, row.day} => back > row.day
  BY <1>1, <1>2, BackIsLater
<1>4. next.back # NoDay => next.back > next.day
  BY <1>3
<1> QED BY <1>4, Zenon DEF RowAvoids

-----------------------------------------------------------------------------
(* The steps of a screen.                                                  *)

\* A screen whose row at hand is another.
LEMMA HandStep ==
  ASSUME NEW s, ScreenAtHand(s), NEW h, NEW at,
         DOMAIN h = {"row", "failed", "at", "chain"}, HandInv([h EXCEPT !.at = at], s.req)
  PROVE  ScreenAtHand([s EXCEPT !.hand = <<[h EXCEPT !.at = at]>>])
<1>1. PICK g : g = [h EXCEPT !.at = at]
  OBVIOUS
<1>2. PICK t : t = [s EXCEPT !.hand = <<g>>]
  OBVIOUS
<1>3. /\ DOMAIN t = DOMAIN s /\ t.hand = <<g>>
      /\ t.req = s.req /\ t.pending = s.pending /\ t.rows = s.rows
  BY <1>2 DEF ScreenAtHand
<1>4. t.hand = <<t.hand[1]>> /\ HandInv(t.hand[1], t.req)
  BY <1>1, <1>3
<1>5. ScreenAtHand(t)
  BY <1>3, <1>4, Zenon DEF ScreenAtHand
<1> QED BY <1>1, <1>2, <1>5

\* A screen with one row more.
LEMMA RowsStep ==
  ASSUME NEW rows, rows \in Seq(ToSet(rows)), NEW row, NEW more, more = Append(rows, row), NEW req,
         \A i \in DOMAIN rows : RowAvoids(rows[i], req), RowAvoids(row, req)
  PROVE  more \in Seq(ToSet(more)) /\ \A i \in DOMAIN more : RowAvoids(more[i], req)
<1> DEFINE T == ToSet(rows) \cup {row}
<1>1. rows \in Seq(T)
  OBVIOUS
<1>2. PICK n : n = Len(rows)
  OBVIOUS
<1>3. /\ n \in Nat /\ more \in Seq(T) /\ Len(more) = n + 1 /\ more[n + 1] = row
      /\ \A i \in 1..n : more[i] = rows[i]
      /\ DOMAIN rows = 1..n /\ DOMAIN more = 1..(n + 1)
  <2> HIDE DEF T
  <2>1. row \in T
    BY DEF T
  <2> QED BY <1>1, <1>2, <2>1, AppendIs
<1>4. more \in Seq(ToSet(more))
  <2>1. more \in Seq(Range(more))
    BY <1>3, SeqOfRange
  <2> QED BY <2>1 DEF ToSet, Range
<1>5. \A i \in 1..(n + 1) : i = n + 1 \/ i \in 1..n
  BY <1>3
<1> QED BY <1>3, <1>4, <1>5, Zenon

\* The first screen (run).
LEMMA StartScreenStep ==
  ASSUME ScreenInv, NEW req \in ScreenRequests, NEW equity, NEW b, StartScreen(req, equity, b)
  PROVE  ScreenInv'
<1>1. PICK s : s = [req |-> req, pending |-> Selected(req), hand |-> <<>>, rows |-> <<>>,
                    equity |-> equity, bars |-> b, ranked |-> <<>>]
  OBVIOUS
<1>2. screen' = <<s>>
  BY <1>1, Zenon DEF StartScreen
<1>3. /\ DOMAIN s = {"req", "pending", "hand", "rows", "equity", "bars", "ranked"}
      /\ s.req = req /\ s.pending = Selected(req) /\ s.hand = <<>> /\ s.rows = <<>>
  BY <1>1
<1>4. Selected(req) \in Seq(DOMAIN Underlyings)
  BY SelectedAre
<1>5. <<>> \in Seq(ToSet(<<>>)) /\ DOMAIN <<>> = {}
  OBVIOUS
<1>6. \A i \in DOMAIN s.rows : RowAvoids(s.rows[i], s.req)
  BY <1>3, <1>5
<1>7. s.rows \in Seq(ToSet(s.rows))
  BY <1>3, <1>5, Zenon
<1>8. ScreenAtHand(s)
  BY <1>3, <1>4, <1>6, <1>7, Zenon DEF ScreenAtHand
<1>9. screen'[1] = s
  BY <1>2
<1> QED BY <1>2, <1>8, <1>9, Zenon DEF ScreenInv

\* The next symbol (_priced up to its expiry).
LEMMA LookUpStep ==
  ASSUME ScreenInv, NEW failed, LookUp(failed)
  PROVE  ScreenInv'
<1>1. PICK s : s = screen[1] /\ ScreenAtHand(s) /\ s.hand = <<>> /\ s.pending # <<>>
  BY DEF ScreenInv, LookUp
<1>2. PICK name : name = Head(s.pending)
  OBVIOUS
<1>3. name \in DOMAIN Underlyings /\ Tail(s.pending) \in Seq(DOMAIN Underlyings)
  BY <1>1, <1>2, HeadTailProperties DEF ScreenAtHand
<1>4. PICK row : row = FoundRow(name, s.req, failed, s.bars)
  OBVIOUS
<1>5. s.req \in ScreenRequests
  BY <1>1 DEF ScreenAtHand
<1>6. /\ DOMAIN row = RowFields /\ row.symbol = name /\ row.report \in Nat \cup {NoDay}
      /\ RowAvoids(row, s.req)
      /\ row.day # NoDay =>
           row.day = PickExpiry(DaysOf(row, s.req), s.req.low, s.req.high,
                                Underlyings[name].monthly, s.req.monthly)
  BY <1>3, <1>4, <1>5, FoundAvoids
<1>7. PICK over \in BOOLEAN : over = ("expiries" \in failed \/ row.excluded = TRUE)
  OBVIOUS
<1>8. PICK at : at = IF row.day = NoDay \/ "chain" \in failed THEN "judge" ELSE "chain"
  OBVIOUS
<1>9. PICK h : h = [row |-> row, failed |-> failed, at |-> at, chain |-> [call |-> <<>>, put |-> <<>>]]
  OBVIOUS
<1>10. PICK hand : hand \in {<<>>, <<h>>} /\ \E rows \in {s.rows, Append(s.rows, row)} :
          screen' = <<[s EXCEPT !.pending = Tail(@), !.hand = hand, !.rows = rows]>>
  BY <1>1, <1>2, <1>4, <1>8, <1>9 DEF LookUp
<1>11. PICK rows \in {s.rows, Append(s.rows, row)} :
          screen' = <<[s EXCEPT !.pending = Tail(@), !.hand = hand, !.rows = rows]>>
  BY <1>10
<1>12. HandInv(h, s.req)
  <2>1. h.row = row /\ h.at = at /\ DOMAIN h = {"row", "failed", "at", "chain"}
    BY <1>9
  <2>2. at # "judge" => row.day # NoDay
    BY <1>8
  <2> QED BY <1>3, <1>6, <2>1, <2>2, Zenon DEF HandInv
<1>13. PICK t : t = [s EXCEPT !.pending = Tail(@), !.hand = hand, !.rows = rows]
  OBVIOUS
<1>14. /\ DOMAIN t = {"req", "pending", "hand", "rows", "equity", "bars", "ranked"}
       /\ t.req = s.req /\ t.pending = Tail(s.pending) /\ t.hand = hand /\ t.rows = rows
  BY <1>1, <1>13 DEF ScreenAtHand
<1>15. hand = <<>> \/ (hand = <<hand[1]>> /\ HandInv(hand[1], s.req))
  BY <1>10, <1>12
<1>16. rows \in Seq(ToSet(rows)) /\ \A i \in DOMAIN rows : RowAvoids(rows[i], s.req)
  <2>1. s.rows \in Seq(ToSet(s.rows)) /\ \A i \in DOMAIN s.rows : RowAvoids(s.rows[i], s.req)
    BY <1>1, Zenon DEF ScreenAtHand
  <2>2. CASE rows = Append(s.rows, row)
    <3>1. PICK old : old = s.rows
      OBVIOUS
    <3>2. PICK req : req = s.req
      OBVIOUS
    <3>3. old \in Seq(ToSet(old)) /\ (\A i \in DOMAIN old : RowAvoids(old[i], req)) /\ RowAvoids(row, req)
      BY <1>6, <2>1, <3>1, <3>2
    <3>4. rows = Append(old, row)
      BY <2>2, <3>1
    <3> HIDE DEF RowAvoids
    <3> QED BY <3>2, <3>3, <3>4, RowsStep
  <2> QED BY <1>11, <2>1, <2>2
<1>17. ScreenAtHand(t)
  BY <1>3, <1>5, <1>14, <1>15, <1>16, Zenon DEF ScreenAtHand
<1>18. screen' = <<t>> /\ screen'[1] = t
  BY <1>11, <1>13
<1> QED BY <1>17, <1>18, Zenon DEF ScreenInv

\* A step of the row at hand that leaves it the row at hand keeps the screen.
LEMMA RowStepIs ==
  ASSUME ScreenInv, screen # <<>>, NEW s, s = screen[1], NEW h, NEW at,
         DOMAIN h = {"row", "failed", "at", "chain"}, HandInv([h EXCEPT !.at = at], s.req),
         screen' = <<[s EXCEPT !.hand = <<[h EXCEPT !.at = at]>>]>>
  PROVE  ScreenInv'
<1>1. ScreenAtHand(s)
  BY DEF ScreenInv
<1>2. PICK t : t = [s EXCEPT !.hand = <<[h EXCEPT !.at = at]>>]
  OBVIOUS
<1>3. ScreenAtHand(t)
  BY <1>1, <1>2, HandStep
<1>4. screen' = <<t>> /\ screen'[1] = t
  BY <1>2
<1> QED BY <1>3, <1>4, Zenon DEF ScreenInv

\* The row at hand before a step.
LEMMA HandBefore ==
  ASSUME ScreenInv, screen # <<>>, NEW s, s = screen[1], s.hand # <<>>,
         NEW h, h = s.hand[1], h.at # "judge"
  PROVE  /\ s.req \in ScreenRequests /\ DOMAIN h = {"row", "failed", "at", "chain"}
         /\ DOMAIN h.row = RowFields /\ HandInv(h, s.req)
         /\ h.row.day # NoDay
         /\ h.row.day = PickExpiry(DaysOf(h.row, s.req), s.req.low, s.req.high,
                                   Underlyings[h.row.symbol].monthly, s.req.monthly)
<1>1. s.req \in ScreenRequests /\ HandInv(h, s.req)
  BY Zenon DEF ScreenInv, ScreenAtHand
<1> QED BY <1>1, Zenon DEF HandInv

\* Another row that keeps clear, with the days and the report of the one before.
LEMMA HandAfter ==
  ASSUME NEW req, NEW h, HandInv(h, req), h.at # "judge", NEW g, NEW at,
         DOMAIN g = {"row", "failed", "at", "chain"}, DOMAIN g.row = RowFields, g.at = at,
         g.row.symbol = h.row.symbol, g.row.day = h.row.day, g.row.report \in Nat \cup {NoDay},
         RowAvoids(g.row, req), at = "judge" \/ g.row.report = h.row.report
  PROVE  HandInv(g, req)
<1>1. g.at # "judge" => DaysOf(g.row, req) = DaysOf(h.row, req)
  BY DEF DaysOf
<1> QED BY <1>1, Zenon DEF HandInv

\* What the chain says and what the legs come to changes no expiry and no report.
LEMMA ReadChainStep ==
  ASSUME ScreenInv, ReadChain
  PROVE  ScreenInv'
<1>1. PICK s, h : s = screen[1] /\ s.hand # <<>> /\ h = s.hand[1] /\ h.at = "chain" /\ screen # <<>>
  BY DEF ReadChain, RowStep
<1>2. /\ s.req \in ScreenRequests /\ DOMAIN h = {"row", "failed", "at", "chain"}
      /\ DOMAIN h.row = RowFields /\ HandInv(h, s.req)
  BY <1>1, HandBefore
<1>3. PICK g : /\ \E chain : g = [h EXCEPT !.chain = chain]
               /\ screen' = <<[s EXCEPT !.hand = <<[g EXCEPT !.at = "value"]>>]>>
  BY <1>1 DEF ReadChain, RowStep
<1>4. DOMAIN g = DOMAIN h /\ g.row = h.row
  BY <1>2, <1>3
<1>5. PICK f : f = [g EXCEPT !.at = "value"]
  OBVIOUS
<1>6. DOMAIN f = {"row", "failed", "at", "chain"} /\ f.row = h.row /\ f.at = "value"
  BY <1>2, <1>4, <1>5
<1>7. RowAvoids(h.row, s.req) /\ h.row.report \in Nat \cup {NoDay}
  BY <1>2, Zenon DEF HandInv
<1>8. HandInv(f, s.req)
  BY <1>1, <1>2, <1>6, <1>7, HandAfter
<1> QED
  <2>1. /\ DOMAIN g = {"row", "failed", "at", "chain"} /\ HandInv([g EXCEPT !.at = f.at], s.req)
        /\ screen' = <<[s EXCEPT !.hand = <<[g EXCEPT !.at = f.at]>>]>>
    BY <1>2, <1>3, <1>4, <1>5, <1>6, <1>8, Zenon
  <2> QED BY <1>1, <2>1, RowStepIs, Zenon

\* The structure of the row at hand, on the expiry that was picked.
LEMMA ReadRowStep ==
  ASSUME ScreenInv, ReadRow
  PROVE  ScreenInv'
<1>1. PICK s, h : s = screen[1] /\ s.hand # <<>> /\ h = s.hand[1] /\ h.at = "value" /\ screen # <<>>
  BY DEF ReadRow, RowStep
<1>2. /\ s.req \in ScreenRequests /\ DOMAIN h = {"row", "failed", "at", "chain"}
      /\ DOMAIN h.row = RowFields /\ HandInv(h, s.req)
  BY <1>1, HandBefore
<1>3. PICK a, b, c, d, g : /\ g = [h EXCEPT !.row.iv = a, !.row.open = b, !.row.traded = c, !.row.parts = d]
                           /\ screen' = <<[s EXCEPT !.hand = <<[g EXCEPT !.at = "outcome"]>>]>>
  BY <1>1 DEF ReadRow, RowStep
<1>4. /\ DOMAIN g = DOMAIN h /\ DOMAIN g.row = RowFields
      /\ g.row.symbol = h.row.symbol /\ g.row.report = h.row.report /\ g.row.excluded = h.row.excluded
      /\ g.row.day = h.row.day /\ g.row.candidates = h.row.candidates /\ g.row.back = h.row.back
  <2>1. PICK r, x : r = h.row /\ x = [r EXCEPT !.iv = a, !.open = b, !.traded = c, !.parts = d]
    OBVIOUS
  <2>2. DOMAIN g = DOMAIN h /\ g.row = x
    BY <1>2, <1>3, <2>1 DEF RowFields
  <2>3. /\ DOMAIN x = RowFields /\ x.symbol = r.symbol /\ x.excluded = r.excluded /\ x.day = r.day
        /\ x.report = r.report /\ x.candidates = r.candidates /\ x.back = r.back
    BY <1>2, <2>1 DEF RowFields
  <2> QED BY <2>1, <2>2, <2>3
<1>5. PICK f : f = [g EXCEPT !.at = "outcome"]
  OBVIOUS
<1>6. DOMAIN f = {"row", "failed", "at", "chain"} /\ f.row = g.row /\ f.at = "outcome"
  BY <1>2, <1>4, <1>5
<1>7. RowAvoids(h.row, s.req) /\ h.row.report \in Nat \cup {NoDay}
  BY <1>2, Zenon DEF HandInv
<1>8. RowAvoids(g.row, s.req)
  BY <1>4, <1>7, SameAvoids
<1>9. HandInv(f, s.req)
  BY <1>1, <1>2, <1>4, <1>6, <1>7, <1>8, HandAfter
<1> QED
  <2>1. /\ DOMAIN g = {"row", "failed", "at", "chain"} /\ HandInv([g EXCEPT !.at = f.at], s.req)
        /\ screen' = <<[s EXCEPT !.hand = <<[g EXCEPT !.at = f.at]>>]>>
    BY <1>2, <1>3, <1>4, <1>5, <1>6, <1>9, Zenon
  <2> QED BY <1>1, <2>1, RowStepIs, Zenon

\* What that structure is worth, at the same expiry.
LEMMA ValueRowStep ==
  ASSUME ScreenInv, ValueRow
  PROVE  ScreenInv'
<1>1. PICK s, h : s = screen[1] /\ s.hand # <<>> /\ h = s.hand[1] /\ h.at = "outcome" /\ screen # <<>>
  BY DEF ValueRow, RowStep
<1>2. /\ s.req \in ScreenRequests /\ DOMAIN h = {"row", "failed", "at", "chain"}
      /\ DOMAIN h.row = RowFields /\ HandInv(h, s.req)
  BY <1>1, HandBefore
<1>3. PICK a, b, c, g : /\ g = [h EXCEPT !.row.judged = a, !.row.rank = b, !.row.outcome = c]
                        /\ screen' = <<[s EXCEPT !.hand = <<[g EXCEPT !.at = "others"]>>]>>
  BY <1>1 DEF ValueRow, RowStep
<1>4. /\ DOMAIN g = DOMAIN h /\ DOMAIN g.row = RowFields
      /\ g.row.symbol = h.row.symbol /\ g.row.report = h.row.report /\ g.row.excluded = h.row.excluded
      /\ g.row.day = h.row.day /\ g.row.candidates = h.row.candidates /\ g.row.back = h.row.back
  <2>1. PICK r, x : r = h.row /\ x = [r EXCEPT !.judged = a, !.rank = b, !.outcome = c]
    OBVIOUS
  <2>2. DOMAIN g = DOMAIN h /\ g.row = x
    BY <1>2, <1>3, <2>1 DEF RowFields
  <2>3. /\ DOMAIN x = RowFields /\ x.symbol = r.symbol /\ x.excluded = r.excluded /\ x.day = r.day
        /\ x.report = r.report /\ x.candidates = r.candidates /\ x.back = r.back
    BY <1>2, <2>1 DEF RowFields
  <2> QED BY <2>1, <2>2, <2>3
<1>5. PICK f : f = [g EXCEPT !.at = "others"]
  OBVIOUS
<1>6. DOMAIN f = {"row", "failed", "at", "chain"} /\ f.row = g.row /\ f.at = "others"
  BY <1>2, <1>4, <1>5
<1>7. RowAvoids(h.row, s.req) /\ h.row.report \in Nat \cup {NoDay}
  BY <1>2, Zenon DEF HandInv
<1>8. RowAvoids(g.row, s.req)
  BY <1>4, <1>7, SameAvoids
<1>9. HandInv(f, s.req)
  BY <1>1, <1>2, <1>4, <1>6, <1>7, <1>8, HandAfter
<1> QED
  <2>1. /\ DOMAIN g = {"row", "failed", "at", "chain"} /\ HandInv([g EXCEPT !.at = f.at], s.req)
        /\ screen' = <<[s EXCEPT !.hand = <<[g EXCEPT !.at = f.at]>>]>>
    BY <1>2, <1>3, <1>4, <1>5, <1>6, <1>9, Zenon
  <2> QED BY <1>1, <2>1, RowStepIs, Zenon

\* The structure at other deltas and on a second expiry (candidates_on).
LEMMA TryOthersStep ==
  ASSUME ScreenInv, TryOthers
  PROVE  ScreenInv'
<1>1. PICK s, h : s = screen[1] /\ s.hand # <<>> /\ h = s.hand[1] /\ h.at = "others" /\ screen # <<>>
  BY DEF TryOthers, RowStep
<1>2. /\ s.req \in ScreenRequests /\ DOMAIN h = {"row", "failed", "at", "chain"}
      /\ DOMAIN h.row = RowFields /\ HandInv(h, s.req) /\ h.row.day # NoDay
  BY <1>1, HandBefore
<1> DEFINE req == s.req
           u == Underlyings[h.row.symbol]
           start == [seen |-> {<<h.row.day, h.row.parts>>}, list |-> <<>>]
           second == PickExpiry(DaysOf(h.row, req) \ {h.row.day}, req.low, req.high, u.monthly, req.monthly)
           alone == ~req.seconds \/ second = NoDay \/ "second" \in h.failed
           own == CandidatesOn(h.chain, req, h.row.day, start)
           other == Fetched(u.boards[second], WidthOf(h.row, req))
           taken == IF alone THEN own ELSE CandidatesOn(other, req, second, own)
           list == IF req.candidates /\ h.row.outcome # <<>> THEN taken.list ELSE <<>>
<1>3. PICK a, g : /\ g = [h EXCEPT !.row.noCredit = a, !.row.candidates = list]
                  /\ screen' = <<[s EXCEPT !.hand = <<[g EXCEPT !.at = "back"]>>]>>
  BY <1>1 DEF TryOthers, RowStep
<1>4. /\ DOMAIN g = DOMAIN h /\ DOMAIN g.row = RowFields
      /\ g.row.symbol = h.row.symbol /\ g.row.report = h.row.report /\ g.row.excluded = h.row.excluded
      /\ g.row.day = h.row.day /\ g.row.candidates = list /\ g.row.back = h.row.back
  <2> HIDE DEF list
  <2>1. PICK r, x : r = h.row /\ x = [r EXCEPT !.noCredit = a, !.candidates = list]
    OBVIOUS
  <2>2. DOMAIN g = DOMAIN h /\ g.row = x
    BY <1>2, <1>3, <2>1 DEF RowFields
  <2>3. /\ DOMAIN x = RowFields /\ x.symbol = r.symbol /\ x.excluded = r.excluded /\ x.day = r.day
        /\ x.report = r.report /\ x.candidates = list /\ x.back = r.back
    BY <1>2, <2>1 DEF RowFields
  <2> QED BY <2>1, <2>2, <2>3
<1>5. PICK f : f = [g EXCEPT !.at = "back"]
  OBVIOUS
<1>6. DOMAIN f = {"row", "failed", "at", "chain"} /\ f.row = g.row /\ f.at = "back"
  <2> HIDE DEF list
  <2> QED BY <1>2, <1>4, <1>5
<1>7. RowAvoids(h.row, s.req) /\ h.row.report \in Nat \cup {NoDay} /\ h.row.symbol \in DOMAIN Underlyings
  BY <1>2, Zenon DEF HandInv
<1>8. \A c \in ToSet(list) : c.day = h.row.day \/ (c.day = second /\ second # NoDay)
  <2>1. PICK x : x = second
    OBVIOUS
  <2>2. /\ \A c \in ToSet(own.list) : c.day = h.row.day
        /\ \A c \in ToSet(CandidatesOn(other, req, second, own).list) : c.day \in {h.row.day, second}
    <3> HIDE DEF other, second
    <3> QED BY TriedOnThese, Zenon
  <2>3. ToSet(<<>>) = {}
    BY DEF ToSet
  <2>4. ~alone => second # NoDay
    OBVIOUS
  <2>5. list = <<>> \/ (list = own.list) \/ (list = CandidatesOn(other, req, second, own).list /\ ~alone)
    OBVIOUS
  <2> HIDE DEF list, own, second, other, alone
  <2> QED BY <2>2, <2>3, <2>4, <2>5
<1>9. RowAvoids(g.row, s.req)
  <2> HIDE DEF list
  <2> QED BY <1>2, <1>4, <1>7, <1>8, OthersAvoid
<1>10. HandInv(f, s.req)
  <2> HIDE DEF list
  <2> QED BY <1>1, <1>2, <1>4, <1>6, <1>7, <1>9, HandAfter
<1> HIDE DEF list
<1> QED
  <2>1. /\ DOMAIN g = {"row", "failed", "at", "chain"} /\ HandInv([g EXCEPT !.at = f.at], s.req)
        /\ screen' = <<[s EXCEPT !.hand = <<[g EXCEPT !.at = f.at]>>]>>
    BY <1>2, <1>3, <1>4, <1>5, <1>6, <1>10, Zenon
  <2> QED BY <1>1, <2>1, RowStepIs, Zenon

\* A calendar's later expiry, and the report where it was not asked for before.
LEMMA ReadBackStep ==
  ASSUME ScreenInv, ReadBack
  PROVE  ScreenInv'
<1>1. PICK s, h : s = screen[1] /\ s.hand # <<>> /\ h = s.hand[1] /\ h.at = "back" /\ screen # <<>>
  BY DEF ReadBack, RowStep
<1>2. /\ s.req \in ScreenRequests /\ DOMAIN h = {"row", "failed", "at", "chain"}
      /\ DOMAIN h.row = RowFields /\ HandInv(h, s.req) /\ h.row.day # NoDay
      /\ h.row.day = PickExpiry(DaysOf(h.row, s.req), s.req.low, s.req.high,
                                Underlyings[h.row.symbol].monthly, s.req.monthly)
  BY <1>1, HandBefore
<1> DEFINE req == s.req
           u == Underlyings[h.row.symbol]
           back == PickExpiry(DaysOf(h.row, req), 2 * req.low, 3 * req.high, u.monthly, req.monthly)
           paired == req.strategy = "calendar" /\ back \notin {NoDay, h.row.day} /\ "back" \notin h.failed
           shown == IF paired THEN back ELSE NoDay
           report == IF Policy(req) # "avoid" /\ "earnings" \notin h.failed THEN u.report ELSE h.row.report
<1>3. PICK a, g : /\ g = [h EXCEPT !.row.back = shown, !.row.backIv = a, !.row.report = report]
                  /\ screen' = <<[s EXCEPT !.hand = <<[g EXCEPT !.at = "judge"]>>]>>
  BY <1>1 DEF ReadBack, RowStep
<1>4. /\ DOMAIN g = DOMAIN h /\ DOMAIN g.row = RowFields
      /\ g.row.symbol = h.row.symbol /\ g.row.report = report /\ g.row.excluded = h.row.excluded
      /\ g.row.day = h.row.day /\ g.row.candidates = h.row.candidates /\ g.row.back = shown
  <2> HIDE DEF shown, report
  <2>1. PICK r, x : r = h.row /\ x = [r EXCEPT !.back = shown, !.backIv = a, !.report = report]
    OBVIOUS
  <2>2. DOMAIN g = DOMAIN h /\ g.row = x
    BY <1>2, <1>3, <2>1 DEF RowFields
  <2>3. /\ DOMAIN x = RowFields /\ x.symbol = r.symbol /\ x.excluded = r.excluded /\ x.day = r.day
        /\ x.report = report /\ x.candidates = r.candidates /\ x.back = shown
    BY <1>2, <2>1 DEF RowFields
  <2> QED BY <2>1, <2>2, <2>3
<1>5. PICK f : f = [g EXCEPT !.at = "judge"]
  OBVIOUS
<1>6. DOMAIN f = {"row", "failed", "at", "chain"} /\ f.row = g.row /\ f.at = "judge"
  <2> HIDE DEF shown, report
  <2> QED BY <1>2, <1>4, <1>5
<1>7. RowAvoids(h.row, s.req) /\ h.row.report \in Nat \cup {NoDay} /\ h.row.symbol \in DOMAIN Underlyings
  BY <1>2, Zenon DEF HandInv
<1>8. shown = NoDay \/ (shown = back /\ back \notin {NoDay, h.row.day})
  OBVIOUS
<1>9. report \in Nat \cup {NoDay} /\ (Policy(req) = "avoid" => report = h.row.report)
  BY <1>7, ScreenAssumption
<1> HIDE DEF shown, report
<1>10. RowAvoids(g.row, s.req)
  BY <1>2, <1>4, <1>7, <1>8, <1>9, BackAvoids
<1>11. HandInv(f, s.req)
  BY <1>1, <1>2, <1>4, <1>6, <1>7, <1>9, <1>10, HandAfter
<1> QED
  <2>1. /\ DOMAIN g = {"row", "failed", "at", "chain"} /\ HandInv([g EXCEPT !.at = f.at], s.req)
        /\ screen' = <<[s EXCEPT !.hand = <<[g EXCEPT !.at = f.at]>>]>>
    BY <1>2, <1>3, <1>4, <1>5, <1>6, <1>11, Zenon
  <2> QED BY <1>1, <2>1, RowStepIs, Zenon

\* The row at hand is in, with its verdicts.
LEMMA JudgeRowStep ==
  ASSUME ScreenInv, JudgeRow
  PROVE  ScreenInv'
<1>1. PICK s, h : /\ s = screen[1] /\ s.hand # <<>> /\ h = s.hand[1] /\ screen # <<>>
                  /\ \E v : screen' = <<[s EXCEPT !.hand = <<>>,
                                                  !.rows = Append(@, [h.row EXCEPT !.verdicts = v])]>>
  BY DEF JudgeRow
<1>2. PICK row : /\ \E v : row = [h.row EXCEPT !.verdicts = v]
                 /\ screen' = <<[s EXCEPT !.hand = <<>>, !.rows = Append(@, row)]>>
  BY <1>1
<1>3. ScreenAtHand(s) /\ HandInv(h, s.req)
  BY <1>1, Zenon DEF ScreenInv, ScreenAtHand
<1>4. DOMAIN h.row = RowFields /\ RowAvoids(h.row, s.req)
  BY <1>3, Zenon DEF HandInv
<1>5. /\ row.symbol = h.row.symbol /\ row.report = h.row.report /\ row.excluded = h.row.excluded
      /\ row.day = h.row.day /\ row.candidates = h.row.candidates /\ row.back = h.row.back
  BY <1>2, <1>4 DEF RowFields
<1>6. RowAvoids(row, s.req)
  BY <1>4, <1>5, SameAvoids
<1>7. PICK rows, more, req : rows = s.rows /\ req = s.req /\ more = Append(rows, row)
  OBVIOUS
<1>8. rows \in Seq(ToSet(rows)) /\ \A i \in DOMAIN rows : RowAvoids(rows[i], req)
  BY <1>3, <1>7, Zenon DEF ScreenAtHand
<1>9. more \in Seq(ToSet(more)) /\ \A i \in DOMAIN more : RowAvoids(more[i], req)
  BY <1>6, <1>7, <1>8, RowsStep
<1>10. PICK t : t = [s EXCEPT !.hand = <<>>, !.rows = Append(@, row)]
  OBVIOUS
<1>11. /\ DOMAIN t = DOMAIN s /\ t.hand = <<>> /\ t.rows = more
       /\ t.req = s.req /\ t.pending = s.pending
  BY <1>3, <1>7, <1>10 DEF ScreenAtHand
<1>12. ScreenAtHand(t)
  BY <1>3, <1>7, <1>9, <1>11, Zenon DEF ScreenAtHand
<1>13. screen' = <<t>> /\ screen'[1] = t
  BY <1>2, <1>10
<1> QED BY <1>12, <1>13, Zenon DEF ScreenInv

\* The answer.
LEMMA ShowScreenStep ==
  ASSUME ScreenInv, ShowScreen
  PROVE  ScreenInv'
<1>1. PICK s : /\ s = screen[1] /\ screen # <<>>
               /\ \E ranked : screen' = <<[s EXCEPT !.rows = <<>>, !.ranked = ranked]>>
  BY DEF ShowScreen
<1>2. PICK t : /\ \E ranked : t = [s EXCEPT !.rows = <<>>, !.ranked = ranked]
               /\ screen' = <<t>>
  BY <1>1
<1>3. ScreenAtHand(s)
  BY <1>1, Zenon DEF ScreenInv
<1>4. /\ DOMAIN t = DOMAIN s /\ t.hand = s.hand /\ t.rows = <<>>
      /\ t.req = s.req /\ t.pending = s.pending
  BY <1>2, <1>3 DEF ScreenAtHand
<1>5. <<>> \in Seq(ToSet(<<>>)) /\ DOMAIN <<>> = {}
  OBVIOUS
<1>6. t.rows \in Seq(ToSet(t.rows)) /\ \A i \in DOMAIN t.rows : RowAvoids(t.rows[i], t.req)
  BY <1>4, <1>5, Zenon
<1>7. ScreenAtHand(t)
  BY <1>3, <1>4, <1>6, Zenon DEF ScreenAtHand
<1>8. screen'[1] = t
  BY <1>2
<1> QED BY <1>2, <1>7, <1>8, Zenon DEF ScreenInv

\* Where reports are to be avoided, nothing that is shown holds the one the
\* calendar named, whatever the boards, the requests and the calls that fail
\* (_priced).
THEOREM ReportsAlwaysAvoided == ScreenSpec => []AvoidedReportsAreAvoided
<1>1. ScreenInit => ScreenInv
  BY DEF ScreenInit, ScreenInv
<1>2. ScreenInv /\ [ScreenNext]_screen => ScreenInv'
  <2>1. SUFFICES ASSUME ScreenInv, [ScreenNext]_screen PROVE ScreenInv'
    OBVIOUS
  <2>2. CASE \E req \in ScreenRequests, equity \in Equities, b \in BOOLEAN : StartScreen(req, equity, b)
    BY <2>1, <2>2, StartScreenStep
  <2>3. CASE \E failed \in Failures : LookUp(failed)
    BY <2>1, <2>3, LookUpStep
  <2>4. CASE ReadChain
    BY <2>1, <2>4, ReadChainStep
  <2>5. CASE ReadRow
    BY <2>1, <2>5, ReadRowStep
  <2>6. CASE ValueRow
    BY <2>1, <2>6, ValueRowStep
  <2>7. CASE TryOthers
    BY <2>1, <2>7, TryOthersStep
  <2>8. CASE ReadBack
    BY <2>1, <2>8, ReadBackStep
  <2>9. CASE JudgeRow
    BY <2>1, <2>9, JudgeRowStep
  <2>10. CASE ShowScreen
    BY <2>1, <2>10, ShowScreenStep
  <2>11. CASE NewScreen
    BY <2>11 DEF NewScreen, ScreenInv
  <2>12. CASE UNCHANGED screen
    BY <2>1, <2>12, Zenon DEF ScreenInv
  <2> QED BY <2>1, <2>2, <2>3, <2>4, <2>5, <2>6, <2>7, <2>8, <2>9, <2>10, <2>11, <2>12, Zenon
          DEF ScreenNext
<1>3. ScreenInv => AvoidedReportsAreAvoided
  <2>1. SUFFICES ASSUME ScreenInv, NEW n \in DOMAIN screen, NEW i \in DOMAIN screen[n].rows
                 PROVE  RowAvoids(screen[n].rows[i], screen[n].req)
    BY Zenon DEF AvoidedReportsAreAvoided, RowAvoids
  <2>2. screen = <<screen[1]>> /\ ScreenAtHand(screen[1])
    <3>1. DOMAIN <<>> = {}
      OBVIOUS
    <3> QED BY <2>1, <3>1, Zenon DEF ScreenInv
  <2>3. n = 1
    BY <2>2
  <2> QED BY <2>1, <2>2, <2>3, Zenon DEF ScreenAtHand
<1> QED BY <1>1, <1>2, <1>3, PTL DEF ScreenSpec
=============================================================================

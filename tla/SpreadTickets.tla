---------------------------- MODULE SpreadTickets -----------------------------
(***************************************************************************)
(* What the options ticket says a package risks, before it is sent: the    *)
(* shapes check_shape lets through, the closed forms of spread_risk for    *)
(* the named ones, and for a built package the shorts nothing covers and   *)
(* the extremes of its payoff.  The reference is the payoff itself, at any *)
(* price the underlying settles at.                                        *)
(*                                                                         *)
(* Amounts are per share: the multiplier and the quantity are factors of   *)
(* all of them.  Legs come in the order leg_specs_full lists them in, for  *)
(* no check depends on the order the user gave.  The value of a leg that   *)
(* outlives the first expiry needs a model of volatility and is left out.  *)
(***************************************************************************)
EXTENDS Integers, Sequences, FiniteSets, SequencesExt

CONSTANTS
  StrikesOnTicket,  \* strikes to put in the fields of a ticket
  LegsOnTicket,     \* [kind, strike, expiry, side, ratio] legs to list in one
  NetPrices,        \* net prices of a package
  StockPrices,      \* prices of the underlying at the time of the preview
  Settlements,      \* prices it may settle at
  ShareLots         \* lots of 100 shares held, per package

ASSUME TicketAssumption ==
  /\ StrikesOnTicket \subseteq Nat \ {0}
  /\ IsFiniteSet(LegsOnTicket)
  /\ LegsOnTicket \subseteq
       [kind : {"call", "put"}, strike : Nat \ {0}, expiry : Nat, side : {"buy", "sell"}, ratio : 1..10]
  /\ NetPrices \subseteq Nat \ {0} /\ StockPrices \subseteq Nat \ {0}
  /\ Settlements \subseteq Nat /\ ShareLots \subseteq Nat

VARIABLE preview  \* the last preview, empty before the first

Larger(m, n) == IF m >= n THEN m ELSE n
Smaller(m, n) == IF m <= n THEN m ELSE n

-----------------------------------------------------------------------------
(* The shapes.                                                             *)

SingleLegs == {"long_call", "long_put"}
Verticals == {"bull_call", "bull_put", "bear_put", "bear_call"}
LongBelowShort == {"bull_call", "bull_put"}
TimeStrategies == {"calendar", "diagonal"}
LegsStrategies ==
  {"long_straddle", "long_strangle", "call_butterfly", "put_butterfly", "iron_butterfly",
   "calendar", "diagonal", "covered_call", "cash_secured_put"}

Leg(kind, strike, side, ratio, expiry) ==
  [kind |-> kind, strike |-> strike, expiry |-> expiry, side |-> side, ratio |-> ratio]

\* A ticket that names its strikes in fields (check_shape).
FieldsFit(strategy, k) ==
  \/ strategy \in SingleLegs /\ Len(k) = 1
  \/ strategy = "iron_condor" /\ Len(k) = 4 /\ k[1] < k[2] /\ k[2] < k[3] /\ k[3] < k[4]
  \/ /\ strategy \in Verticals /\ Len(k) = 2
     /\ IF strategy \in LongBelowShort THEN k[1] < k[2] ELSE k[1] > k[2]

FieldLegs(strategy, k) ==
  LET bought(kind, strike) == Leg(kind, strike, "buy", 1, 1)
      sold(kind, strike) == Leg(kind, strike, "sell", 1, 1)
      kind == IF strategy \in {"bull_call", "bear_call"} THEN "call" ELSE "put"
  IN  CASE strategy = "long_call" -> <<bought("call", k[1])>>
        [] strategy = "long_put" -> <<bought("put", k[1])>>
        [] strategy = "iron_condor" ->
             <<bought("put", k[1]), sold("put", k[2]), sold("call", k[3]), bought("call", k[4])>>
        [] OTHER -> <<bought(kind, k[1]), sold(kind, k[2])>>

\* leg_specs_full: puts first, the earlier expiry first, then the lower strike.
Follows(a, b) ==
  \/ a.kind = "call" /\ b.kind = "put"
  \/ a.kind = b.kind /\ (a.expiry > b.expiry \/ (a.expiry = b.expiry /\ a.strike > b.strike))
InTicketOrder(legs) == \A i, j \in DOMAIN legs : i < j => ~Follows(legs[i], legs[j])

KindsAre(legs, kinds) == Len(legs) = Len(kinds) /\ \A i \in DOMAIN kinds : legs[i].kind = kinds[i]
SidesAre(legs, sides) == \A i \in DOMAIN sides : legs[i].side = sides[i]
OneExpiry(legs) == \A i \in DOMAIN legs : legs[i].expiry = legs[1].expiry
OneEach(legs) == \A i \in DOMAIN legs : legs[i].ratio = 1

IsPair(legs) == KindsAre(legs, <<"put", "call">>) /\ SidesAre(legs, <<"buy", "buy">>)

IsFly(legs, kind) ==
  /\ KindsAre(legs, <<kind, kind, kind>>)
  /\ legs[1].strike < legs[2].strike /\ legs[2].strike < legs[3].strike
  /\ SidesAre(legs, <<"buy", "sell", "buy">>)
  /\ legs[1].ratio = 1 /\ legs[2].ratio = 2 /\ legs[3].ratio = 1

IsIronFly(legs) ==
  /\ KindsAre(legs, <<"put", "put", "call", "call">>)
  /\ SidesAre(legs, <<"buy", "sell", "sell", "buy">>)
  /\ legs[2].strike = legs[3].strike
  /\ legs[1].strike < legs[2].strike /\ legs[2].strike < legs[4].strike

\* The sold leg is the one that expires first.
IsTimeSpread(legs) ==
  /\ Len(legs) = 2 /\ legs[1].kind = legs[2].kind
  /\ SidesAre(legs, <<"sell", "buy">>) /\ legs[1].expiry < legs[2].expiry

\* A ticket that lists its legs (_check_legs).
LegsFit(strategy, legs) ==
  /\ \/ strategy = "long_straddle" /\ IsPair(legs) /\ legs[1].strike = legs[2].strike
     \/ strategy = "long_strangle" /\ IsPair(legs) /\ legs[1].strike < legs[2].strike
     \/ strategy = "call_butterfly" /\ IsFly(legs, "call")
     \/ strategy = "put_butterfly" /\ IsFly(legs, "put")
     \/ strategy = "iron_butterfly" /\ IsIronFly(legs)
     \/ strategy = "calendar" /\ IsTimeSpread(legs) /\ legs[1].strike = legs[2].strike
     \/ strategy = "diagonal" /\ IsTimeSpread(legs) /\ legs[1].strike # legs[2].strike
     \/ strategy = "covered_call" /\ KindsAre(legs, <<"call">>) /\ SidesAre(legs, <<"sell">>)
     \/ strategy = "cash_secured_put" /\ KindsAre(legs, <<"put">>) /\ SidesAre(legs, <<"sell">>)
  /\ strategy \notin {"call_butterfly", "put_butterfly"} => OneEach(legs)
  /\ strategy \notin TimeStrategies => OneExpiry(legs)

\* A built package: any legs, each contract once.
BuiltFits(legs) ==
  \A i, j \in DOMAIN legs :
    i # j => <<legs[i].kind, legs[i].strike, legs[i].expiry>>
               # <<legs[j].kind, legs[j].strike, legs[j].expiry>>

Strikes(legs) == [i \in DOMAIN legs |-> legs[i].strike]

-----------------------------------------------------------------------------
(* The named shapes: closed forms over the strikes (spread_risk).          *)

Flies == {"call_butterfly", "put_butterfly"}
Pairs == {"long_straddle", "long_strangle"}
Debits ==
  {"long_call", "long_put", "bull_call", "bear_put"} \cup Pairs \cup Flies \cup TimeStrategies

\* Fault: the iron shapes are judged by their put side alone.
RoomPutSide(strategy, k) ==
  CASE strategy \in Flies -> Smaller(k[2] - k[1], k[3] - k[2])
    [] strategy \in {"iron_butterfly", "iron_condor"} -> k[2] - k[1]
    [] strategy \in Verticals -> IF k[1] < k[2] THEN k[2] - k[1] ELSE k[1] - k[2]
    [] OTHER -> k[1]

\* The distance the net price must stay below: the wing, the width, or for a
\* lone put its strike.
Room(strategy, k) ==
  CASE strategy \in Flies -> Smaller(k[2] - k[1], k[3] - k[2])
    [] strategy = "iron_butterfly" -> Larger(k[2] - k[1], k[4] - k[2])
    [] strategy = "iron_condor" -> Larger(k[2] - k[1], k[4] - k[3])
    [] strategy \in Verticals -> IF k[1] < k[2] THEN k[2] - k[1] ELSE k[1] - k[2]
    [] OTHER -> k[1]

PriceFits(strategy, k, price) ==
  strategy \notin Pairs \cup TimeStrategies \cup {"covered_call", "long_call"}
    => price < Room(strategy, k)

\* The most it makes; nothing where there is no limit or no closed form.
MaxProfit(strategy, k, price, stock) ==
  CASE strategy \in {"long_call"} \cup Pairs \cup TimeStrategies -> {}
    [] strategy = "covered_call" -> {k[1] - stock + price}
    [] strategy \in Debits \ ({"long_call"} \cup Pairs \cup TimeStrategies) ->
         {Room(strategy, k) - price}
    [] OTHER -> {price}

MaxLoss(strategy, k, price, stock) ==
  CASE strategy \in Debits -> price
    [] strategy = "covered_call" -> stock - price
    [] OTHER -> Room(strategy, k) - price

Breakevens(strategy, k, price, stock) ==
  CASE strategy \in Pairs -> {k[1] - price, k[2] + price}
    [] strategy \in Flies -> {k[1] + price, k[3] - price}
    [] strategy = "iron_butterfly" -> {k[2] - price, k[2] + price}
    [] strategy = "iron_condor" -> {k[2] - price, k[3] + price}
    [] strategy = "covered_call" -> {stock - price}
    [] strategy \in {"long_call", "bull_call"} -> {k[1] + price}
    [] strategy \in {"long_put", "bear_put", "cash_secured_put"} -> {k[1] - price}
    [] strategy = "bull_put" -> {k[2] - price}
    [] strategy = "bear_call" -> {k[2] + price}
    [] OTHER -> {}

\* A put is secured by its strike, a call by the shares, the rest by the loss.
Collateral(strategy, k, price, stock) ==
  CASE strategy = "cash_secured_put" -> k[1]
    [] strategy = "covered_call" -> 0
    [] OTHER -> MaxLoss(strategy, k, price, stock)

SpreadRisk(strategy, k, price, stock) ==
  [maxProfit |-> MaxProfit(strategy, k, price, stock),
   maxLoss |-> {MaxLoss(strategy, k, price, stock)},
   breakevens |-> Breakevens(strategy, k, price, stock),
   collateral |-> Collateral(strategy, k, price, stock)]

-----------------------------------------------------------------------------
(* The payoff.                                                             *)

Intrinsic(l, s) ==
  IF l.kind = "call" THEN Larger(0, s - l.strike) ELSE Larger(0, l.strike - s)

LegWorth(l, s) ==
  IF l.side = "buy" THEN l.ratio * Intrinsic(l, s) ELSE -(l.ratio * Intrinsic(l, s))

\* A ticket has at most four legs.
InTurn(step(_, _), start) == step(step(step(step(start, 1), 2), 3), 4)

NthWorth(legs, i, s) == IF i \in DOMAIN legs THEN LegWorth(legs[i], s) ELSE 0
PackageWorth(legs, s) ==
  NthWorth(legs, 1, s) + NthWorth(legs, 2, s) + NthWorth(legs, 3, s) + NthWorth(legs, 4, s)

\* net is what the package cost, below zero when it brought money in; a lot of
\* shares stands at what they are worth now.
PositionPnl(legs, net, lots, stock, s) == PackageWorth(legs, s) - net + lots * (s - stock)

-----------------------------------------------------------------------------
(* The built package: the shorts nothing covers, and the payoff's extremes. *)

Covers(legs, j, i) ==
  /\ {i, j} \subseteq DOMAIN legs
  /\ legs[j].side = "buy" /\ legs[j].kind = legs[i].kind /\ legs[j].expiry >= legs[i].expiry

\* Fault: each short looks for cover alone, and two may find the same.
CoverShortAlone(legs, st, i) ==
  LET enough == \E j \in DOMAIN legs : Covers(legs, j, i) /\ legs[j].ratio >= legs[i].ratio
  IN  [left |-> st.left, bare |-> IF enough THEN st.bare ELSE st.bare \cup {i}]

\* What a short still needs, it takes from what is left of a long.
TakeCover(legs, i, a, j) ==
  LET n == IF Covers(legs, j, i) THEN Smaller(a.need, a.left[j]) ELSE 0
  IN  [need |-> a.need - n, left |-> [a.left EXCEPT ![j] = @ - n]]

\* One short takes what it needs from the longs, in the order they are listed.
CoverShort(legs, st, i) ==
  LET done == InTurn(LAMBDA a, j : TakeCover(legs, i, a, j), [need |-> legs[i].ratio, left |-> st.left])
  IN  [left |-> done.left, bare |-> IF done.need > 0 THEN st.bare \cup {i} ELSE st.bare]

NakedShorts(legs) ==
  LET start == [left |-> [i \in 1..4 |-> IF i \in DOMAIN legs THEN legs[i].ratio ELSE 0], bare |-> {}]
      cover(st, i) ==
        IF i \in DOMAIN legs /\ legs[i].side = "sell" THEN CoverShort(legs, st, i) ELSE st
  IN  InTurn(cover, start).bare

\* Held shares cover bare calls, in order, each all or not at all.
AfterShares(legs, bare, lots) ==
  LET cover(st, i) ==
        IF i \in bare /\ legs[i].kind = "call" /\ st.spare >= legs[i].ratio
        THEN [spare |-> st.spare - legs[i].ratio, bare |-> st.bare \ {i}]
        ELSE st
  IN  FoldLeft(cover, [spare |-> lots, bare |-> bare], [i \in DOMAIN legs |-> i]).bare

\* The prices the curve bends and ends at; a cent is nothing here.
Grid(legs, stock) ==
  LET strikes == {legs[i].strike : i \in DOMAIN legs}
      far == Max({Larger(k - stock, stock - k) : k \in strikes})
      half == far + Larger(1, Max(strikes) - Min(strikes))
  IN  {Larger(0, stock - half), stock + half} \cup strikes

\* Calls bought over calls sold, shares among them: the slope beyond the grid.
NetCalls(legs, lots) ==
  LET sign(i) == IF i \notin DOMAIN legs \/ legs[i].kind = "put" THEN 0
                 ELSE IF legs[i].side = "buy" THEN legs[i].ratio ELSE -legs[i].ratio
  IN  sign(1) + sign(2) + sign(3) + sign(4) + lots

\* Fault: the end of the chart is taken for the worst, whatever is bare.
WorstCaseGrid(legs, bare, net, charted, stock) ==
  {-Min({PositionPnl(legs, net, charted, stock, s) : s \in Grid(legs, stock)})}

\* The most a built package can lose; nothing where it has no limit.
WorstCase(legs, bare, net, charted, stock) ==
  IF bare = {}
  THEN IF NetCalls(legs, charted) < 0 THEN {}
       ELSE {-Min({PositionPnl(legs, net, charted, stock, s) : s \in Grid(legs, stock)})}
  ELSE IF \E i \in bare : legs[i].kind = "call" THEN {}
  ELSE {-PositionPnl(legs, net, 0, stock, 0)}

\* Tickets written against shares carry one lot of them in their chart.
BuiltRisk(legs, net, shares, lots, stock) ==
  LET bare == IF shares = "with" THEN AfterShares(legs, NakedShorts(legs), lots) ELSE NakedShorts(legs)
      charted == IF shares = "with" THEN 1 ELSE 0
  IN  [maxProfit |->
         IF NetCalls(legs, charted) > 0 THEN {}
         ELSE {Max({PositionPnl(legs, net, charted, stock, s) : s \in Grid(legs, stock)})},
       maxLoss |-> WorstCase(legs, bare, net, charted, stock),
       bare |-> bare]

-----------------------------------------------------------------------------
(* The preview.                                                            *)

LegLists(n) == {legs \in [1..n -> LegsOnTicket] : InTicketOrder(legs)}

SpreadInit == preview = <<>>

\* The preview of a ticket with a name, whose strikes are k.
Named(strategy, legs, k, price, stock) ==
  [strategy |-> strategy, legs |-> legs, price |-> price, stock |-> stock, shares |-> "without",
   risk |-> SpreadRisk(strategy, k, price, stock)]

PreviewFields(strategy, k) ==
  \E price \in NetPrices, stock \in StockPrices :
    /\ FieldsFit(strategy, k) /\ PriceFits(strategy, k, price)
    /\ preview' = <<Named(strategy, FieldLegs(strategy, k), k, price, stock)>>

PreviewLegs(strategy, legs) ==
  \E price \in NetPrices, stock \in StockPrices :
    /\ LegsFit(strategy, legs) /\ PriceFits(strategy, Strikes(legs), price)
    /\ preview' = <<Named(strategy, legs, Strikes(legs), price, stock)>>

\* The quotes of a market in which no package is a sure gain or a sure loss.
FairNet(legs, net) ==
  LET outcomes == {PackageWorth(legs, s) : s \in Settlements}
  IN  Min(outcomes) < net /\ net < Max(outcomes)

\* What the legs come to decides whether a built package is paid for.
PreviewBuilt(legs) ==
  \E price \in NetPrices, sign \in {-1, 1}, stock \in StockPrices, lots \in ShareLots,
     shares \in {"with", "without"} :
    /\ BuiltFits(legs) /\ FairNet(legs, sign * price)
    /\ preview' = <<[strategy |-> "custom", legs |-> legs, price |-> sign * price,
                     stock |-> stock, shares |-> shares,
                     risk |-> BuiltRisk(legs, sign * price, shares, lots, stock)]>>

\* The user starts another ticket.
NewTicket == preview # <<>> /\ preview' = <<>>

SpreadNext ==
  \/ /\ preview = <<>>
     /\ \/ \E n \in 1..4 : \E k \in [1..n -> StrikesOnTicket] :
             \E strategy \in SingleLegs \cup Verticals \cup {"iron_condor"} :
               PreviewFields(strategy, k)
        \/ \E n \in 1..4 : \E legs \in LegLists(n) :
             \/ \E strategy \in LegsStrategies : PreviewLegs(strategy, legs)
             \/ PreviewBuilt(legs)
  \/ NewTicket

SpreadSpec == SpreadInit /\ [][SpreadNext]_preview

-----------------------------------------------------------------------------
(* Correctness.                                                            *)

Net(p) == IF p.strategy = "custom" \/ p.strategy \in Debits THEN p.price ELSE -p.price
Charted(p) == IF p.strategy = "covered_call" \/ p.shares = "with" THEN 1 ELSE 0
Pnl(p, s) == PositionPnl(p.legs, Net(p), Charted(p), p.stock, s)

EvenWings(p) ==
  p.strategy \in Flies => 2 * p.legs[2].strike = p.legs[1].strike + p.legs[3].strike

\* Breakevens that are said to be zeros: those of an iron shape that lie between
\* its outer strikes, and that of a covered call below its strike.
Within(p, b) ==
  /\ b >= 0
  /\ p.strategy \in {"iron_condor", "iron_butterfly"} =>
       p.legs[1].strike <= b /\ b <= p.legs[4].strike
  /\ p.strategy = "covered_call" => b <= p.legs[1].strike

RiskHolds(p) ==
  /\ \A s \in Settlements :
       /\ \A loss \in p.risk.maxLoss : Pnl(p, s) >= -loss
       /\ \A profit \in p.risk.maxProfit : Pnl(p, s) <= profit
  /\ \A b \in p.risk.breakevens : Within(p, b) => Pnl(p, b) = 0

\* What a named ticket of one expiry says it can lose and make bounds what it
\* comes to at any settlement, flies of uneven wings excepted, and it comes to
\* nothing at its breakevens (spread_risk against the payoff).
StatedRiskHolds ==
  \A i \in DOMAIN preview :
    preview[i].strategy \notin TimeStrategies \cup {"custom"} /\ EvenWings(preview[i])
      => RiskHolds(preview[i])

\* A built package without shares says it can lose without limit when it can,
\* and what it says otherwise is the worst it comes to, unless a put is bare.
BuiltRiskHolds ==
  \A i \in DOMAIN preview :
    LET p == preview[i]
        far == Max({l.strike : l \in LegsOnTicket})
    IN  (p.strategy = "custom" /\ p.shares = "without" /\ OneExpiry(p.legs)) =>
          /\ p.risk.maxLoss = {} <=> Pnl(p, far + 1) < Pnl(p, far)
          /\ p.risk.bare = {} => \A loss \in p.risk.maxLoss, s \in Settlements : Pnl(p, s) >= -loss

\* The contracts of a kind that are bought, or sold, and still run at e.
StillRun(legs, kind, side, e) ==
  LET counts(i) ==
        i \in DOMAIN legs /\ legs[i].kind = kind /\ legs[i].side = side /\ legs[i].expiry >= e
  IN  InTurn(LAMBDA n, i : IF counts(i) THEN n + legs[i].ratio ELSE n, 0)

\* A built package is naked only if, at some expiry, the shorts still open
\* outnumber the longs of their kind: the order in which cover is handed out
\* never leaves a short bare that another order would cover.
NakedOnlyIfUncovered ==
  \A i \in DOMAIN preview :
    LET p == preview[i]
    IN  (p.strategy = "custom" /\ p.shares = "without") =>
          (p.risk.bare = {} <=>
             \A kind \in {"call", "put"}, l \in ToSet(p.legs) :
               StillRun(p.legs, kind, "buy", l.expiry) >= StillRun(p.legs, kind, "sell", l.expiry))
=============================================================================

---------------------------- MODULE OptionsBook -----------------------------
(***************************************************************************)
(* The simulated options book of one user on one underlying: packages of   *)
(* contracts that fill at the natural price or rest, closes and rolls that *)
(* must not close more than is held, and the settlement of contracts past  *)
(* their expiry, which moves the shares and the cash of the stock book.    *)
(*                                                                         *)
(* A package is the signed count of each contract it trades (bought above  *)
(* zero, sold below), the contracts it trades "to close", and the most it  *)
(* may cost; what it costs when it fills is the natural, read anew from    *)
(* the quotes by each call, so any net of Nets may be the one it reads.    *)
(* Handlers run one at a time; settle_expired is a loop over the positions *)
(* it listed and each turn of it is a step, during which the market moves. *)
(***************************************************************************)
EXTENDS Integers, Sequences, FiniteSets, Functions

CONSTANTS
  Contracts,      \* [kind, strike, expiry] records of one underlying
  Multiplier,     \* shares of a contract: CONTRACT_MULTIPLIER
  Spots,          \* prices of the underlying
  Nets,           \* natural nets of a package, above zero when paid
  Limits,         \* limits, as the most a package may cost
  NoLimit,        \* a market package
  NoPrice,        \* a leg without a quote
  PackageTickets,        \* opening packages: [legs, strategy]
  ShareCounts,    \* share positions the stock book may hold
  OptionsStartingCash,
  OptionsMargin,         \* trading_sim_margin_multiplier
  MaxQty,         \* bound: packages of an order
  MaxRatio,       \* bound: contracts of one leg of a close, per package
  MaxOrders,      \* bound: packages ever submitted
  MaxShareTrades  \* bound: trades of the stock book

Contract == [kind : {"call", "put"}, strike : Nat, expiry : Nat]
Strategies == {"cash_secured_put", "covered_call", "other"}

ASSUME ContractsAssumption == Contracts \subseteq Contract
ASSUME MultiplierAssumption == Multiplier \in Nat \ {0}
ASSUME QuotesAssumption ==
  /\ Spots \subseteq Nat
  /\ Nets \subseteq Int /\ NoPrice \notin Nets
  /\ Limits \subseteq Int /\ NoLimit \notin Limits
ASSUME TicketsAssumption == PackageTickets \subseteq [legs : [Contracts -> Int], strategy : Strategies]
ASSUME AccountAssumption == ShareCounts \subseteq Int /\ OptionsStartingCash \in Int /\ OptionsMargin \in Nat
ASSUME BoundsAssumption ==
  /\ MaxQty \in Nat /\ MaxRatio \in Nat /\ MaxOrders \in Nat
  /\ MaxShareTrades \in Nat

VARIABLES
  held,      \* contract -> contracts held, below zero when short
  orders,    \* the packages, in the order they were submitted
  shares,    \* the stock book's position in the underlying
  cash,
  spot,      \* the price of the underlying
  day,       \* closes of the market so far
  settling,  \* the positions settle_expired has listed and not yet settled
  trades     \* trades of the stock book so far, for their bound

optionVars == <<held, orders, shares, cash, spot, day, settling, trades>>

Positive(n) == IF n > 0 THEN n ELSE 0
Least(m, n) == IF m <= n THEN m ELSE n
Size(n) == IF n < 0 THEN -n ELSE n
SumOver(S, F(_)) == SumFunctionOnSet([x \in S |-> F(x)], S)

Package ==
  [legs : [Contracts -> Int], closes : SUBSET Contracts, qty : 1..MaxQty,
   limit : Limits \cup {NoLimit}, status : {"new", "filled", "canceled"}]

WorkingPackages == {i \in DOMAIN orders : orders[i].status = "new"}
BookIdle == settling = {}

-----------------------------------------------------------------------------
(* Booking a package.                                                      *)

\* Whether the natural net is within the limit of a package.
LimitAllows(p, net) == net # NoPrice /\ (p.limit # NoLimit => net <= p.limit)

\* _fill: every leg moves the position of its contract, the money moves, and
\* the row is marked.
Fill(rows, i, net) ==
  /\ orders' = [rows EXCEPT ![i].status = "filled"]
  /\ held' = [c \in Contracts |-> held[c] + rows[i].qty * rows[i].legs[c]]
  /\ cash' = cash - Multiplier * rows[i].qty * net

\* submit: the package is inserted, and fills at once if the natural allows it.
Place(legs, closes, qty, lim) ==
  LET p == [legs |-> legs, closes |-> closes, qty |-> qty, limit |-> lim, status |-> "new"]
      rows == Append(orders, p)
  IN  /\ Len(orders) < MaxOrders
      /\ \E net \in Nets \cup {NoPrice} :
           IF LimitAllows(p, net) THEN Fill(rows, Len(rows), net)
                                  ELSE orders' = rows /\ UNCHANGED <<held, cash>>
      /\ UNCHANGED <<shares, spot, day, settling, trades>>

-----------------------------------------------------------------------------
(* What the service asks before it books.                                  *)

\* Contracts that resting packages already commit to closing.
WorkingCloses(c) ==
  SumOver({i \in WorkingPackages : c \in orders[i].closes},
          LAMBDA i : orders[i].qty * Size(orders[i].legs[c]))

\* Fault: resting closes are not counted.
NotOverClosingHeld(legs, closes, qty) ==
  \A c \in closes : qty * Size(legs[c]) <= Size(held[c])

NotOverClosing(legs, closes, qty) ==
  \A c \in closes : qty * Size(legs[c]) <= Size(held[c]) - WorkingCloses(c)

\* Long calls at or below the strike that expire no earlier.
LongCallCover(c) ==
  SumOver({d \in Contracts : d.kind = "call" /\ d.strike <= c.strike /\ d.expiry >= c.expiry},
          LAMBDA d : Positive(held[d]))

OptionsBuyingPower == OptionsMargin * Positive(cash)

\* Coverage of an income strategy, with collateral a roll releases.
Covered(t, qty, released) ==
  \A c \in Contracts : t.legs[c] # 0 =>
    CASE t.strategy = "covered_call" ->
           Positive(shares) + Multiplier * LongCallCover(c) >= Multiplier * qty
      [] t.strategy = "cash_secured_put" ->
           OptionsBuyingPower + released >= c.strike * Multiplier * qty
      [] t.strategy = "other" -> TRUE

\* The expiry strip lists today's contracts until midnight, none before.
Listed(t) == \A c \in Contracts : t.legs[c] # 0 => day <= c.expiry

\* The legs that close part of what is held, at a ratio per package.
ClosingLegs(ratio) ==
  [c \in Contracts |-> IF c \notin DOMAIN ratio THEN 0
                       ELSE IF held[c] > 0 THEN -ratio[c] ELSE ratio[c]]

HeldRatios == UNION {[S -> 1..MaxRatio] :
                       S \in {T \in SUBSET {c \in Contracts : held[c] # 0} :
                                T # {} /\ Cardinality(T) <= 4}}

\* The collateral that buying back a lone short put, or a short vertical, releases.
Released(legs, closes, qty) ==
  LET bought == {c \in closes : legs[c] > 0}
      sold == closes \ bought
      width(s, l) == IF s.kind = "put" THEN s.strike - l.strike ELSE l.strike - s.strike
  IN  IF Cardinality(bought) # 1 THEN 0
      ELSE LET s == CHOOSE c \in bought : TRUE
           IN  IF sold = {} THEN IF s.kind = "put" THEN s.strike * Multiplier * qty * legs[s] ELSE 0
               ELSE LET l == CHOOSE c \in sold : TRUE
                    IN  IF s.kind = l.kind /\ s.expiry = l.expiry
                        THEN Positive(width(s, l)) * Multiplier * qty
                        ELSE 0

-----------------------------------------------------------------------------
(* The handlers.                                                           *)

OptionsInit ==
  /\ held = [c \in Contracts |-> 0]
  /\ orders = <<>>
  /\ shares = 0
  /\ cash = OptionsStartingCash
  /\ spot \in Spots
  /\ day = 0
  /\ settling = {}
  /\ trades = 0

SubmitPackage ==
  \E t \in PackageTickets, qty \in 1..MaxQty, lim \in Limits \cup {NoLimit} :
    /\ BookIdle /\ Listed(t) /\ Covered(t, qty, 0)
    /\ Place(t.legs, {}, qty, lim)

CloseSpread ==
  \E ratio \in HeldRatios, qty \in 1..MaxQty, lim \in Limits \cup {NoLimit} :
    /\ BookIdle
    /\ NotOverClosing(ClosingLegs(ratio), DOMAIN ratio, qty)
    /\ Place(ClosingLegs(ratio), DOMAIN ratio, qty, lim)

\* One package closes what is held and opens as many legs in its place.
Roll ==
  \E ratio \in HeldRatios, t \in PackageTickets, qty \in 1..MaxQty, lim \in Limits \cup {NoLimit} :
    LET legs == ClosingLegs(ratio)
    IN  /\ BookIdle
        /\ Cardinality({c \in Contracts : t.legs[c] # 0}) = Cardinality(DOMAIN ratio)
        /\ \A c \in DOMAIN ratio : t.legs[c] = 0
        /\ NotOverClosing(legs, DOMAIN ratio, qty)
        /\ Listed(t) /\ Covered(t, qty, Released(legs, DOMAIN ratio, qty))
        /\ Place([c \in Contracts |-> legs[c] + t.legs[c]], DOMAIN ratio, qty, lim)

\* One turn of check_fills: a resting package whose natural is now within its limit.
TryFill ==
  /\ BookIdle
  /\ \E i \in WorkingPackages, net \in Nets : LimitAllows(orders[i], net) /\ Fill(orders, i, net)
  /\ UNCHANGED <<shares, spot, day, settling, trades>>

CancelPackage ==
  /\ BookIdle
  /\ \E i \in WorkingPackages : orders' = [orders EXCEPT ![i].status = "canceled"]
  /\ UNCHANGED <<held, shares, cash, spot, day, settling, trades>>

\* POST /reset, which empties both books.
ResetBook ==
  /\ BookIdle
  /\ held' = [c \in Contracts |-> 0] /\ orders' = <<>>
  /\ shares' = 0 /\ cash' = OptionsStartingCash /\ trades' = 0
  /\ UNCHANGED <<spot, day, settling>>

-----------------------------------------------------------------------------
(* Settlement.                                                             *)

\* Fault: the close of the expiry day does not count.
PastDay(c) == day > c.expiry

Past(c) == day >= c.expiry

Intrinsic(c) == IF c.kind = "call" THEN Positive(spot - c.strike) ELSE Positive(c.strike - spot)

\* Longs first, then short puts, then short calls, each by expiry, kind and strike.
SettleRank(c) == IF held[c] > 0 THEN 0 ELSE IF c.kind = "put" THEN 1 ELSE 2

SettlesBefore(c, d) ==
  \/ SettleRank(c) < SettleRank(d)
  \/ SettleRank(c) = SettleRank(d) /\ c.expiry < d.expiry
  \/ SettleRank(c) = SettleRank(d) /\ c.expiry = d.expiry /\ c.kind = "call" /\ d.kind = "put"
  \/ SettleRank(c) = SettleRank(d) /\ c.expiry = d.expiry /\ c.kind = d.kind /\ c.strike < d.strike

\* settle_expired lists the positions; those not past their expiry it skips.
BeginSettle ==
  LET expired == {c \in Contracts : held[c] # 0 /\ Past(c)}
  IN  /\ BookIdle /\ expired # {}
      /\ settling' = expired
      /\ UNCHANGED <<held, orders, shares, cash, spot, day, trades>>

\* decide_settlement: of n contracts held, those assigned into shares, and
\* those whose shares are called away; the rest settle in cash.
Assigned(c, n) == IF n < 0 /\ c.kind = "put" /\ Intrinsic(c) > 0 THEN -n ELSE 0

CalledAway(c, n) ==
  IF n < 0 /\ c.kind = "call" /\ Intrinsic(c) > 0
  THEN Least(-n, Positive(shares) \div Multiplier) ELSE 0

\* Fault: an assigned contract closes at intrinsic as well.
CashSettledTwice(c, n) == n + CalledAway(c, n)

\* Contracts, signed, that close at their intrinsic value; the others close at zero.
CashSettled(c, n) == n + Assigned(c, n) + CalledAway(c, n)

\* One position: the option leg closes, the shares move if any do.
Settle(c, n) ==
  /\ held' = [held EXCEPT ![c] = @ - n]
  /\ shares' = shares + Multiplier * (Assigned(c, n) - CalledAway(c, n))
  /\ cash' = cash + Multiplier * (CashSettled(c, n) * Intrinsic(c)
                                  + c.strike * (CalledAway(c, n) - Assigned(c, n)))

\* The position whose turn it is in settle_expired.
IsNext(c) == \A d \in settling \ {c} : SettlesBefore(c, d)

SettleNext ==
  /\ \E c \in settling :
       /\ IsNext(c)
       /\ Settle(c, held[c])
       /\ settling' = settling \ {c}
  /\ UNCHANGED <<orders, spot, day, trades>>

\* The source has no spot: the position waits for the next tick.
SkipUnpriced ==
  /\ \E c \in settling : IsNext(c) /\ settling' = settling \ {c}
  /\ UNCHANGED <<held, orders, shares, cash, spot, day, trades>>

-----------------------------------------------------------------------------
(* The market, the calendar and the stock book.                            *)

MoveSpot ==
  /\ spot' \in Spots \ {spot}
  /\ UNCHANGED <<held, orders, shares, cash, day, settling, trades>>

MarketClose ==
  /\ \E c \in Contracts : day < c.expiry
  /\ day' = day + 1
  /\ UNCHANGED <<held, orders, shares, cash, spot, settling, trades>>

\* A fill of the stock book in the underlying.
TradeShares ==
  /\ BookIdle /\ trades < MaxShareTrades
  /\ \E n \in ShareCounts : shares' = n /\ cash' = cash - (n - shares) * spot
  /\ trades' = trades + 1
  /\ UNCHANGED <<held, orders, spot, day, settling>>

OptionsNext ==
  \/ SubmitPackage \/ CloseSpread \/ Roll \/ TryFill \/ CancelPackage \/ ResetBook
  \/ BeginSettle \/ SettleNext \/ SkipUnpriced
  \/ MoveSpot \/ MarketClose \/ TradeShares

OptionsSpec == OptionsInit /\ [][OptionsNext]_optionVars

\* The loop ticks for ever, whatever a tick has met, and the source does not
\* fail for ever to price the underlying.
OptionsFairSpec == OptionsSpec /\ WF_optionVars(BeginSettle) /\ SF_optionVars(SettleNext)

-----------------------------------------------------------------------------
(* Properties.                                                             *)

OptionsTypeOK ==
  /\ held \in [Contracts -> Int]
  /\ orders \in Seq(Package)
  /\ shares \in Int /\ cash \in Int
  /\ spot \in Spots
  /\ day \in Nat
  /\ settling \subseteq Contracts
  /\ trades \in Nat

\* The resting closes of a contract never commit to more than is held of it,
\* each against the side it is held on, however closes, rolls, fills and
\* cancels follow each other: when they all fill the position is closed and
\* not opened the other way round (_assert_not_over_closing).  Past its expiry
\* a contract is settled under a resting close, and nothing is promised.
ClosesNeverReopen ==
  \A c \in Contracts : day < c.expiry =>
    /\ WorkingCloses(c) <= Size(held[c])
    /\ \A i \in WorkingPackages : c \in orders[i].closes => orders[i].legs[c] * held[c] < 0

\* Whatever way a position is settled, in cash, into shares or out of them,
\* the account is worth the same before and after, at the price it settled
\* at: the option closes at zero where shares carry the value, at intrinsic
\* where they do not, and never both (decide_settlement, _settle_one).
SettlementKeepsEquity ==
  [][SettleNext =>
       \A c \in Contracts : held'[c] # held[c] =>
         /\ cash' + spot * shares' + Multiplier * Intrinsic(c) * held'[c]
              = cash + spot * shares + Multiplier * Intrinsic(c) * held[c]
         /\ \A d \in Contracts \ {c} : held'[d] = held[d]]_optionVars

\* Shares are called away only if they are there: calls that expire together
\* never sell the same shares twice, and settlement leaves no short shares
\* behind (settle_expired reads the shares anew for each position).
CalledAwayAreHeld ==
  [][SettleNext /\ shares' < shares => shares' >= 0]_optionVars

\* A contract held past its expiry is settled, whatever fills, trades and
\* outages come in between (settle_expired in the loop's tick).
ExpiredContractsSettle ==
  \A c \in Contracts : (held[c] # 0 /\ day >= c.expiry) ~> (held[c] = 0)
=============================================================================

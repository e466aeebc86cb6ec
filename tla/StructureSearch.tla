--------------------------- MODULE StructureSearch ----------------------------
(***************************************************************************)
(* The optimizer: for a view of where the underlying goes by a day, the    *)
(* expiries it loads, every shape it enumerates from their quotes, the     *)
(* pricing of each at the target, the filters and the ranking, the preview *)
(* of the finalists and the list it answers with.                          *)
(*                                                                         *)
(* A board is what condense_chain left of the chains: for each expiry and  *)
(* kind, the strikes quoted on both sides.  Today is day 0.  Amounts are   *)
(* per share, and the number of packages is a factor of all of them.  What *)
(* a contract that outlives the horizon is worth then, beyond its          *)
(* intrinsic value, is one unit for each day left; the chance of profit    *)
(* counts the outcomes at which the position has made money.               *)
(* How many shapes were dropped for which reason is not kept.              *)
(***************************************************************************)
EXTENDS SpreadTickets

CONSTANTS
  Boards,          \* [expiry -> [kind -> [strike -> [mid, vol, delta]]]]
  Views,           \* requests, see Fields
  Spot,            \* the price of the underlying
  Moves,           \* implied moves to the horizon, 0 for one that cannot be computed
  Reports,         \* days of the next earnings report, 0 for none known
  Drifts,          \* how far a package moves between its pricing and its preview
  Outcomes,        \* prices of the underlying at the horizon, all as likely
  Crossings,       \* distances from a package's mid to its natural
  MaxExpiries, MaxCandidates, VerticalMaxWidth, FinalistSeats, PerStrategyCap

VARIABLE search  \* the request at hand, empty before the first

Families ==
  {"long_call", "long_put", "covered_call", "cash_secured_put", "bull_call", "bear_call",
   "bull_put", "bear_put", "iron_condor", "call_butterfly", "put_butterfly", "iron_butterfly",
   "long_straddle", "long_strangle", "calendar"}

\* What a request carries.  listed: its horizon is named as an expiry, not as a
\* date; open: today's contracts still trade; target: a range, points, or implied
\* moves away, one way or both.
Fields ==
  {"horizon", "listed", "open", "only", "avoid", "target", "strategies", "preference",
   "budget", "maxLoss", "minWidth", "strict", "topN"}

ASSUME SearchAssumption ==
  /\ \A view \in Views :
       /\ DOMAIN view = Fields
       /\ view.strategies \subseteq Families /\ view.preference \in 0..2
       /\ view.topN \in 1..FinalistSeats
  /\ \A n \in {Spot, MaxExpiries, MaxCandidates, VerticalMaxWidth, FinalistSeats, PerStrategyCap} :
       n \in Nat \ {0}

Away(m, n) == IF m > n THEN m - n ELSE n - m

\* The members of a set of numbers in ascending order.
Ascending(S) ==
  IF S = {} THEN <<>>
  ELSE SelectSeq([n \in 1..(Max(S) + 1) |-> n - 1], LAMBDA n : n \in S)

\* The same sequence; TLC computes its members once.
Listed(seq) == <<>> \o seq

Each(seq, Op(_)) == FlattenSeq([i \in DOMAIN seq |-> Op(seq[i])])

-----------------------------------------------------------------------------
(* The expiries.                                                           *)

Alive(day, open) == day >= 1 \/ open

\* The first of a set of days, as many as are loaded.
Earliest(days) == {d \in days : Cardinality({e \in days : e < d}) < MaxExpiries}

Nearest(days, target) ==
  CHOOSE d \in days : \A e \in days :
    \/ Away(d, target) < Away(e, target)
    \/ Away(d, target) = Away(e, target) /\ d <= e

\* One expiry for each target, none twice.
PickExpiries(days, targets) ==
  LET usable == {d \in days : d >= 1}
      pick(picked, t) == IF picked = usable THEN picked ELSE picked \cup {Nearest(usable \ picked, t)}
  IN  Earliest(FoldLeft(pick, {}, targets))

ChooseExpiries(days, horizon, open) ==
  LET usable == {d \in days : d >= horizon /\ Alive(d, open)}
      chosen == PickExpiries(usable, <<horizon, horizon + 14, horizon + 35>>)
  IN  IF horizon \in usable THEN Earliest(chosen \cup {horizon}) ELSE chosen

\* A request that avoids the report loads no expiry on its day or after it.
KeptByEarnings(days, report, avoid) ==
  IF avoid /\ report # 0 THEN {d \in days : d < report} ELSE days

Horizons(view, board, report) ==
  LET days == KeptByEarnings(DOMAIN board, report, view.avoid)
  IN  IF view.only THEN {d \in days : d = view.horizon /\ Alive(d, view.open)}
      ELSE ChooseExpiries(days, view.horizon, view.open)

\* The requests that are not refused outright: the horizon has not settled, is
\* listed when it is named as an expiry, comes before a report to be avoided, and
\* leaves something to load; a target in moves needs a move.
Answerable(board, move, report) ==
  {view \in Views :
     LET days == Horizons(view, board, report)
     IN  /\ Alive(view.horizon, view.open)
         /\ view.listed => view.horizon \in DOMAIN board
         /\ ~(view.avoid /\ report # 0 /\ report <= view.horizon)
         /\ \E d \in days : DOMAIN board[d].call \cup DOMAIN board[d].put # {}
         /\ view.target.how = "moves" => move # 0}

-----------------------------------------------------------------------------
(* The target.                                                             *)

Target(low, high, explicit) == [low |-> low, high |-> high, explicit |-> explicit]

TargetFor(view, move) ==
  LET t == view.target
      reach == t.moves * move
      span == IF reach = 0 THEN move ELSE Away(reach, 0)
  IN  CASE t.how = "moves" /\ t.both ->
             Target(Spot - span, Spot + span, <<Spot - span, Spot + span>>)
        [] t.how = "moves" -> Target(Spot + reach, Spot + reach, <<>>)
        [] t.how = "points" -> Target(t.points[1], t.points[Len(t.points)], t.points)
        [] OTHER -> Target(t.low, t.high, <<>>)

\* A range is read at five points, a quarter of it apart.
Points(t) ==
  IF t.explicit # <<>> THEN t.explicit
  ELSE IF t.high <= t.low THEN <<t.low>>
  ELSE [i \in 1..5 |-> t.low + ((i - 1) * (t.high - t.low)) \div 4]

-----------------------------------------------------------------------------
(* Every shape.                                                            *)

Raw(strategy, day, legs) == [strategy |-> strategy, expiry |-> day, legs |-> legs]

\* The n strikes nearest the middle of the target, by their places.
NearestIndices(ks, t, n) ==
  LET far(i) == Away(2 * ks[i], t.low + t.high)
  IN  Ascending({i \in DOMAIN ks :
        Cardinality({j \in DOMAIN ks : far(j) < far(i) \/ (far(j) = far(i) /\ j < i)}) < n})

PlaceOf(ks, k) == CHOOSE i \in DOMAIN ks : ks[i] = k

Singles(day, calls, puts) ==
  LET one(strategy, kind, side, k) == <<Raw(strategy, day, <<Leg(kind, k, side, 1, day)>>)>>
  IN  Each(calls, LAMBDA k : one("long_call", "call", "buy", k))
      \o Each(puts, LAMBDA k : one("long_put", "put", "buy", k))
      \o Each(SelectSeq(calls, LAMBDA k : k >= Spot), LAMBDA k : one("covered_call", "call", "sell", k))
      \o Each(SelectSeq(puts, LAMBDA k : k <= Spot), LAMBDA k : one("cash_secured_put", "put", "sell", k))

\* Pairs of one kind no further apart than the move, or where none is known
\* than so many strikes; in both orientations, the long leg first.
VerticalPairs(day, kind, ks, bull, bear, widest) ==
  LET fits(i, j) == IF widest = 0 THEN j - i <= VerticalMaxWidth ELSE ks[j] - ks[i] <= widest
      long(k) == Leg(kind, k, "buy", 1, day)
      short(k) == Leg(kind, k, "sell", 1, day)
      pair(i, j) == <<Raw(bull, day, <<long(ks[i]), short(ks[j])>>),
                      Raw(bear, day, <<long(ks[j]), short(ks[i])>>)>>
      from(i) == Each(Ascending({j \in DOMAIN ks : j > i /\ fits(i, j)}), LAMBDA j : pair(i, j))
  IN  Each([i \in DOMAIN ks |-> i], from)

\* Out of the money, and inside the delta band where the feed gave a delta.
ShortCandidate(quotes, kind, k) ==
  /\ IF kind = "put" THEN k < Spot ELSE k > Spot
  /\ quotes[k].delta # "outside"

Condor(day, a, b, c, d) ==
  Raw("iron_condor", day,
      <<Leg("put", a, "buy", 1, day), Leg("put", b, "sell", 1, day),
        Leg("call", c, "sell", 1, day), Leg("call", d, "buy", 1, day)>>)

Condors(day, board, calls, puts) ==
  LET shorts(ks, kind) ==
        SelectSeq([i \in DOMAIN ks |-> i], LAMBDA i : ShortCandidate(board[day][kind], kind, ks[i]))
      wings(p, c) ==
        Each(SelectSeq(<<1, 2, 3>>, LAMBDA w : p - w >= 1 /\ c + w <= Len(calls)),
             LAMBDA w : <<Condor(day, puts[p - w], puts[p], calls[c], calls[c + w])>>)
  IN  Each(shorts(puts, "put"), LAMBDA p :
        Each(SelectSeq(shorts(calls, "call"), LAMBDA c : puts[p] < calls[c]), LAMBDA c : wings(p, c)))

Wings(down, up, n, Op(_)) ==
  Each(SelectSeq([w \in 1..n |-> w], LAMBDA w : down >= w /\ up >= w), LAMBDA w : <<Op(w)>>)

FliesOf(strategy, day, kind, ks, t) ==
  Each(NearestIndices(ks, t, 3), LAMBDA b :
    Wings(b - 1, Len(ks) - b, 4, LAMBDA w :
      Raw(strategy, day, <<Leg(kind, ks[b - w], "buy", 1, day), Leg(kind, ks[b], "sell", 2, day),
                           Leg(kind, ks[b + w], "buy", 1, day)>>)))

IronFlies(day, calls, puts, both, t) ==
  Each(NearestIndices(both, t, 3), LAMBDA b :
    LET k == both[b]
        p == PlaceOf(puts, k)
        c == PlaceOf(calls, k)
    IN  Wings(p - 1, Len(calls) - c, 4, LAMBDA w :
          Raw("iron_butterfly", day,
              <<Leg("put", puts[p - w], "buy", 1, day), Leg("put", k, "sell", 1, day),
                Leg("call", k, "sell", 1, day), Leg("call", calls[c + w], "buy", 1, day)>>)))

PairsOf(day, calls, puts, both, t) ==
  LET pair(strategy, p, c) ==
        Raw(strategy, day, <<Leg("put", p, "buy", 1, day), Leg("call", c, "buy", 1, day)>>)
      strangles(b) ==
        LET p == PlaceOf(puts, both[b])
            c == PlaceOf(calls, both[b])
        IN  Wings(p - 1, Len(calls) - c, 3, LAMBDA w : pair("long_strangle", puts[p - w], calls[c + w]))
  IN  Each(NearestIndices(both, t, 3), LAMBDA b : <<pair("long_straddle", both[b], both[b])>>)
      \o Each(NearestIndices(both, t, 1), strangles)

\* Fault: each expiry is paired with every other one.
CalendarsAnyFar(board, days, day, t) ==
  LET shared(kind, far) == Ascending(DOMAIN board[day][kind] \cap DOMAIN board[far][kind])
      at(kind, far, k) ==
        Raw("calendar", day, <<Leg(kind, k, "sell", 1, day), Leg(kind, k, "buy", 1, far)>>)
  IN  Each(Ascending(days \ {day}), LAMBDA far :
        Each(<<"call", "put">>, LAMBDA kind :
          LET ks == shared(kind, far)
          IN  Each(NearestIndices(ks, t, 3), LAMBDA i : <<at(kind, far, ks[i])>>)))

\* Each expiry with every later one, at strikes both of them quote.
Calendars(board, days, day, t) ==
  LET shared(kind, far) == Ascending(DOMAIN board[day][kind] \cap DOMAIN board[far][kind])
      at(kind, far, k) ==
        Raw("calendar", day, <<Leg(kind, k, "sell", 1, day), Leg(kind, k, "buy", 1, far)>>)
  IN  Each(Ascending({d \in days : d > day}), LAMBDA far :
        Each(<<"call", "put">>, LAMBDA kind :
          LET ks == shared(kind, far)
          IN  Each(NearestIndices(ks, t, 3), LAMBDA i : <<at(kind, far, ks[i])>>)))

ShapesOf(board, days, day, t, widest) ==
  LET calls == Ascending(DOMAIN board[day].call)
      puts == Ascending(DOMAIN board[day].put)
      both == Ascending(DOMAIN board[day].call \cap DOMAIN board[day].put)
  IN  Singles(day, calls, puts)
      \o VerticalPairs(day, "call", calls, "bull_call", "bear_call", widest)
      \o VerticalPairs(day, "put", puts, "bull_put", "bear_put", widest)
      \o Condors(day, board, calls, puts)
      \o FliesOf("call_butterfly", day, "call", calls, t)
      \o FliesOf("put_butterfly", day, "put", puts, t)
      \o IronFlies(day, calls, puts, both, t)
      \o PairsOf(day, calls, puts, both, t)
      \o Calendars(board, days, day, t)

\* Beyond the cap nothing is kept.
EnumerateCandidates(board, days, t, strategies, widest) ==
  LET all == Each(Ascending(days), LAMBDA day : ShapesOf(board, days, day, t, widest))
      wanted == SelectSeq(all, LAMBDA raw : raw.strategy \in strategies)
  IN  SubSeq(wanted, 1, Smaller(Len(wanted), MaxCandidates))

-----------------------------------------------------------------------------
(* What a shape comes to at the target.                                    *)

LegSign(l) == IF l.side = "buy" THEN 1 ELSE -1
Quote(board, l) == board[l.expiry][l.kind][l.strike]

\* Above zero paid, below received.
Mid(board, legs) == FoldLeft(LAMBDA n, l : n + LegSign(l) * l.ratio * Quote(board, l).mid, 0, legs)

Valued(board, legs, horizon) == \A i \in DOMAIN legs : legs[i].expiry > horizon => Quote(board, legs[i]).vol

PnlAt(raw, net, horizon, s) ==
  LET timeLeft == FoldLeft(LAMBDA n, l : n + LegSign(l) * l.ratio * (l.expiry - horizon), 0, raw.legs)
      lots == IF raw.strategy = "covered_call" THEN 1 ELSE 0
  IN  PositionPnl(raw.legs, net, lots, Spot, s) + timeLeft

ChanceOfProfit(raw, net, horizon, threshold) ==
  Cardinality({s \in Outcomes : PnlAt(raw, net, horizon, s) > threshold})

\* What the account puts up; for a covered call, which needs the shares, what it
\* can lose.
AtRisk(strategy, ks, price) ==
  LET collateral == Collateral(strategy, ks, price, Spot)
  IN  IF collateral > 0 THEN collateral ELSE MaxLoss(strategy, ks, price, Spot)

\* A shape has a price when the market pays the way the shape is meant, its risk
\* has a form, and its legs can be valued at the horizon.
Priceable(raw, board, horizon) ==
  LET net == Mid(board, raw.legs)
      price == Away(net, 0)
      ks == Strikes(raw.legs)
  IN  /\ IF raw.strategy \in Debits THEN net > 0 ELSE net < 0
      /\ PriceFits(raw.strategy, ks, price)
      /\ AtRisk(raw.strategy, ks, price) > 0
      /\ Valued(board, raw.legs, horizon)

Candidate(raw, net, points, horizon, threshold) ==
  LET pnl == [i \in DOMAIN points |-> PnlAt(raw, net, horizon, points[i]) - threshold]
  IN
  [strategy |-> raw.strategy, expiry |-> raw.expiry, legs |-> raw.legs, net |-> net,
   risk |-> AtRisk(raw.strategy, Strikes(raw.legs), Away(net, 0)),
   maxLoss |-> MaxLoss(raw.strategy, Strikes(raw.legs), Away(net, 0), Spot),
   worst |-> Min(ToSet(pnl)), total |-> FoldLeft(LAMBDA m, n : m + n, 0, pnl),
   chance |-> ChanceOfProfit(raw, net, horizon, threshold), score |-> 0]

PriceCandidates(raws, board, t, horizon) ==
  LET priced == SelectSeq(raws, LAMBDA raw : Priceable(raw, board, horizon))
  IN  [i \in DOMAIN priced |->
         Candidate(priced[i], Mid(board, priced[i].legs), Points(t), horizon, 0)]

-----------------------------------------------------------------------------
(* The ranking.                                                            *)

\* The return on risk of a is below that of b.
ReturnsLess(a, b) == a.worst * b.risk < b.worst * a.risk

\* Where the i-th is in the list sorted by its return, and by its chance.
ReturnRank(list, i) ==
  Cardinality({j \in DOMAIN list : ReturnsLess(list[j], list[i])
                                     \/ (j < i /\ ~ReturnsLess(list[i], list[j]))})
ChanceRank(list, i) ==
  Cardinality({j \in DOMAIN list : list[j].chance < list[i].chance
                                     \/ (j < i /\ list[j].chance = list[i].chance)})

\* The slider between return and chance has three positions; without a move there
\* is no chance to blend in.
RankScore(list, view, move, i) ==
  IF move = 0 THEN ReturnRank(list, i)
  ELSE (2 - view.preference) * ReturnRank(list, i) + view.preference * ChanceRank(list, i)

Scored(list, view, move) ==
  Listed([i \in DOMAIN list |-> [list[i] EXCEPT !.score = RankScore(list, view, move, i)]])

\* What decides between two of the same score and return.
Unsorted(a, b) == FALSE
LessRisk(a, b) == a.risk < b.risk
MoreOnAverage(a, b) == a.total > b.total \/ (a.total = b.total /\ a.risk < b.risk)

BestFirst(list, Tie(_, _)) ==
  LET better(a, b) ==
        \/ a.score > b.score
        \/ /\ a.score = b.score
           /\ \/ ReturnsLess(b, a)
              \/ ~ReturnsLess(a, b) /\ Tie(a, b)
      before(i, j) == better(list[i], list[j]) \/ (i < j /\ ~better(list[j], list[i]))
      order == SortSeq([i \in DOMAIN list |-> i], before)
  IN  Listed([p \in DOMAIN list |-> list[order[p]]])

\* The best of every family before any family takes a second seat.
RepresentEachFamily(list, topK) ==
  LET all == [i \in DOMAIN list |-> i]
      first(i) == \A j \in 1..(i - 1) : list[j].strategy # list[i].strategy
      firsts == SelectSeq(all, first)
      seat(chosen, i) ==
        LET held == Cardinality({j \in DOMAIN chosen : list[chosen[j]].strategy = list[i].strategy})
        IN  IF first(i) \/ Len(chosen) >= topK \/ held >= PerStrategyCap THEN chosen
            ELSE Append(chosen, i)
      seats == FoldLeft(seat, SubSeq(firsts, 1, Smaller(Len(firsts), topK)), all)
  IN  [p \in DOMAIN seats |-> list[seats[p]]]

\* Legs of two expiries have no width.
WideEnough(cand, minWidth) ==
  LET ks == ToSet(Strikes(cand.legs))
  IN  Cardinality(ks) < 2 \/ ~OneExpiry(cand.legs) \/ Max(ks) - Min(ks) >= minWidth

\* A budget or a loss of nothing is none named; no amount here is as small as the
\* floor of what a shape must risk.
FilterAndRank(cands, view, move) ==
  LET keep(cand) ==
        /\ WideEnough(cand, view.minWidth)
        /\ view.budget # 0 => cand.risk <= view.budget
        /\ view.maxLoss # 0 => cand.maxLoss <= view.maxLoss
        /\ cand.worst > 0
      ranked == BestFirst(Scored(SelectSeq(cands, keep), view, move), MoreOnAverage)
  IN  BestFirst(RepresentEachFamily(ranked, FinalistSeats), Unsorted)

-----------------------------------------------------------------------------
(* The preview of the finalists.                                           *)

\* The finalist at the price the ticket carries, net of what crossing costs.
Repriced(cand, view, t, drift, cross) ==
  LET net == IF cand.net > 0 THEN cand.net + drift ELSE cand.net - drift
  IN  Candidate(cand, net, Points(t), view.horizon, cross)

\* The preview prices it, crossing is neither a quarter of its price nor a fifth
\* of what it puts up, and it pays at the target before and after crossing.
Passes(cand, view, t, drift, cross) ==
  LET card == Repriced(cand, view, t, drift, cross)
      price == Away(cand.net, 0) + drift
  IN  /\ price > 0
      /\ PriceFits(cand.strategy, Strikes(cand.legs), price)
      /\ card.risk > 0 /\ card.worst + cross > 0
      /\ view.strict =>
           /\ 4 * cross <= price /\ 5 * cross <= card.risk
           /\ card.worst > 0

-----------------------------------------------------------------------------
(* One request.                                                            *)

SearchInit == search = <<>>

NoOffer == <<>>

\* Enumerated, priced and ranked.
SearchFor(view, board, move, report) ==
  LET days == Horizons(view, board, report)
      t == TargetFor(view, move)
      raws == EnumerateCandidates(board, days, t, view.strategies, (5 * move) \div 4)
  IN  /\ search = <<>>
      /\ search' =
           <<[view |-> view, board |-> board, move |-> move, report |-> report, days |-> days,
              raws |-> raws, priced |-> <<>>, offers |-> <<>>,
              finalists |-> FilterAndRank(PriceCandidates(raws, board, t, view.horizon), view, move)]>>

\* The finalists are previewed at once; one of them may fail.
PreviewFinalists(drift, cross, failed) ==
  /\ search # <<>>
  /\ search[1].priced = <<>>
  /\ LET s == search[1]
         t == TargetFor(s.view, s.move)
         survive == SelectSeq([i \in DOMAIN s.finalists |-> i], LAMBDA i :
                      i # failed /\ Passes(s.finalists[i], s.view, t, drift, cross))
         cards == Listed([p \in DOMAIN survive |->
                            Repriced(s.finalists[survive[p]], s.view, t, drift, cross)])
     IN  /\ cards # <<>>
         /\ search' = <<[s EXCEPT !.priced = cards,
                                  !.offers = RepresentEachFamily(
                                    BestFirst(Scored(cards, s.view, s.move), LessRisk), s.view.topN)]>>

NewSearch == search # <<>> /\ search' = <<>>

SearchNext ==
  \/ \E board \in Boards, move \in Moves, report \in Reports :
       \E view \in Answerable(board, move, report) : SearchFor(view, board, move, report)
  \/ \E drift \in Drifts, cross \in Crossings : \E failed \in 0..FinalistSeats :
       PreviewFinalists(drift, cross, failed)
  \/ NewSearch

SearchSpec == SearchInit /\ [][SearchNext]_search

-----------------------------------------------------------------------------
(* Correctness.                                                            *)

IsTicket(raw) ==
  IF raw.strategy \in LegsStrategies THEN LegsFit(raw.strategy, raw.legs)
  ELSE FieldsFit(raw.strategy, Strikes(raw.legs))

\* Every shape enumerated is one the ticket takes, each once, of legs the board
\* quotes: nothing the ranking puts forward is lost when its ticket is built.
ShapesAreTickets ==
  \A n \in DOMAIN search :
    LET s == search[n]
        raws == ToSet(s.raws)
    IN  s.priced = <<>> =>
          /\ Cardinality(raws) = Len(s.raws)
          /\ \A raw \in raws :
               /\ IsTicket(raw)
               /\ \A l \in ToSet(raw.legs) :
                    l.expiry \in s.days /\ l.strike \in DOMAIN s.board[l.expiry][l.kind]
=============================================================================

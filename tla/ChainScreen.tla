------------------------------ MODULE ChainScreen ------------------------------
(***************************************************************************)
(* The screener: which symbols get a chain, and for each of them the       *)
(* expiry it is screened on, the legs it would write there, what they come *)
(* to, the same structure at other deltas and on a second expiry, and the  *)
(* verdicts the rows are ranked by.                                        *)
(*                                                                         *)
(* Every call for a row may fail and is then done without; rows share      *)
(* nothing, so one is at hand at a time.  Today is day 0.  Prices are per  *)
(* share; a point of volatility is a move of a point in a day.  Deltas are *)
(* hundredths without their sign.  The chance and the expectation count    *)
(* the outcomes.  Readings that are shown and judge nothing are left out:  *)
(* the cone, the forecast, the two sides valued apart, touch and distance. *)
(***************************************************************************)
EXTENDS StructureSearch, TLC

CONSTANTS
  Underlyings,     \* [symbol -> its price, dollar volume, board and history], see UnderlyingFields
  ScreenRequests,  \* see ScreenFields
  Equities,        \* of the account, 0 where it cannot be read
  Failures,        \* sets of calls that may fail for one row
  CandidateDeltas, \* deltas every structure is also tried at
  StripDays,       \* how far the short list of expiries reaches
  FullWingDays,    \* the time the wing's width is sized for
  RefDays, ComparableDays,        \* <<first, last>>
  DefaultWidth, UnknownWidth, MaxWidth  \* strikes fetched around the price

VARIABLE screen  \* the screen at hand, empty before the first

NoDay == -1

ScreenFields ==
  {"symbols", "limit", "minVolume", "minPrice", "maxPrice", "strategy", "side", "natural",
   "low", "high", "band", "monthly", "policy", "avoid", "wing", "points", "candidates",
   "seconds", "minOpen", "minTraded", "maxRisk", "maxSpread"}

\* boards: the chain of each expiry; vol: the realised volatility, 0 without bars.
UnderlyingFields == {"price", "volume", "boards", "monthly", "report", "vol", "rank"}

Written == {"cash_secured_put", "covered_call", "credit_spread", "iron_condor"}
Spreads == {"credit_spread", "iron_condor", "debit_spread"}
Structures == Written \cup Spreads

ASSUME ScreenAssumption ==
  /\ \A req \in ScreenRequests :
       /\ DOMAIN req = ScreenFields
       /\ req.strategy \in Structures \cup {"long_option", "calendar"}
       /\ req.symbols \in Seq(DOMAIN Underlyings) /\ req.limit \in Nat /\ req.monthly \in BOOLEAN
       /\ req.low \in Nat /\ req.high \in Nat
       /\ req.low <= req.high /\ req.band[1] <= req.band[2] /\ req.wing[1] <= req.wing[2]
  /\ IsFiniteSet(DOMAIN Underlyings)
  /\ \A name \in DOMAIN Underlyings :
       /\ DOMAIN Underlyings[name] = UnderlyingFields
       /\ Underlyings[name].volume \in Nat /\ DOMAIN Underlyings[name].boards \subseteq Nat
       /\ Underlyings[name].report \in Nat \cup {NoDay}
  /\ CandidateDeltas \in Seq(Nat)

\* The whole part of a root.
Root(n) == Max({r \in 0..n : r * r <= n})

-----------------------------------------------------------------------------
(* The request.                                                            *)

SidesFor(req) ==
  CASE req.strategy = "cash_secured_put" -> <<"put">>
    [] req.strategy = "covered_call" -> <<"call">>
    [] req.strategy \in {"credit_spread", "debit_spread"} -> <<req.side>>
    [] OTHER -> <<"put", "call">>

\* A named policy, or the strategy's own unless reports are not to matter.
Policy(req) ==
  IF req.policy # "unset" THEN req.policy
  ELSE IF ~req.avoid THEN "ignore"
  ELSE IF req.strategy \in Written THEN "early" ELSE "avoid"

\* Width aimed at and furthest accepted: named in points, or sized for a month
\* and shrunk with the root of the time left, never under a point.
WingFor(req, day) ==
  LET scaled(n) == IF day >= FullWingDays THEN n ELSE (n * Root(day)) \div Root(FullWingDays)
      aim == Larger(scaled(req.wing[1]), 1)
  IN  IF req.points # 0 THEN <<req.points, (req.points * req.wing[2]) \div req.wing[1]>>
      ELSE <<aim, Larger(scaled(req.wing[2]), aim)>>

MostTraded(names) ==
  CHOOSE a \in names : \A b \in names : Underlyings[b].volume <= Underlyings[a].volume

\* The first n of the names in the order of their volume.
FirstTraded(names, n) ==
  FoldLeft(LAMBDA taken, i : Append(taken, MostTraded(names \ ToSet(taken))), <<>>, [i \in 1..n |-> i])

\* The symbols named, or the most traded of those in the price range.
Selected(req) ==
  LET fits(u) == /\ u.price > 0 /\ u.price >= req.minPrice /\ u.price <= req.maxPrice
                 /\ u.volume >= req.minVolume
      kept == {name \in DOMAIN Underlyings : fits(Underlyings[name])}
  IN  IF req.symbols # <<>> THEN req.symbols
      ELSE FirstTraded(kept, Smaller(Cardinality(kept), req.limit))

-----------------------------------------------------------------------------
(* The expiries.                                                           *)

\* In the window, nearest its middle, a monthly one before any other.
PickExpiry(days, low, high, monthly, prefer) ==
  LET inside == {d \in days : low <= d /\ d <= high}
      candidates == IF prefer /\ inside \cap monthly # {} THEN inside \cap monthly ELSE inside
      far(d) == Away(2 * d, low + high)
  IN  IF inside = {} THEN NoDay
      ELSE CHOOSE d \in candidates : \A e \in candidates :
             far(d) < far(e) \/ (far(d) = far(e) /\ d <= e)

\* The long list is asked for only where the window reaches past the short one.
ListedDays(u, req) ==
  IF req.strategy = "calendar" \/ req.high > StripDays THEN DOMAIN u.boards
  ELSE {d \in DOMAIN u.boards : d <= StripDays}

InWindow(days, req) == {d \in days : req.low <= d /\ d <= req.high}

\* Fault: the report decides which symbols are left out, and no expiry.
UsableAnyExpiry(days, req, report) == days

\* With a report to avoid, the window ends before it; what is past the window
\* stays, for the back of a calendar.
UsableDays(days, req, report) ==
  IF Policy(req) = "avoid" /\ report # NoDay
  THEN {d \in days : d < report \/ d > req.high}
  ELSE days

ExcludedByReport(days, req, report) ==
  /\ Policy(req) = "avoid" /\ report # NoDay
  /\ InWindow(days, req) # {}
  /\ \A d \in InWindow(days, req) : d >= report

-----------------------------------------------------------------------------
(* The chain.                                                              *)

TwoSided(q) == q.bid > 0 /\ q.ask >= q.bid

\* Two-sided, or the last print, 0 without either.
MidOf(q) == IF TwoSided(q) THEN (q.bid + q.ask) \div 2 ELSE q.last

\* A side that is not quoted, which is below zero, costs nothing; a bid of
\* nothing costs half of the ask.
HalfSpread(q) == IF q.bid < 0 \/ q.ask < q.bid THEN 0 ELSE (q.ask - q.bid) \div 2

\* The strikes that are fetched: as far as the stock may move, and the wing.
ChainWidth(vol, day, reach) ==
  IF vol = 0 \/ day = 0 THEN UnknownWidth
  ELSE Smaller(Larger((3 * vol * Root(day)) \div 2 + reach, DefaultWidth), MaxWidth)

Fetched(chain, width) ==
  LET near(quotes) == [k \in {s \in DOMAIN quotes : Away(s, Spot) <= width} |-> quotes[k]]
  IN  [chain EXCEPT !.call = near(@), !.put = near(@)]

\* Twice the volatility at the money, read from contracts somebody bids for.
AtmIv(chain) ==
  LET iv(kind, k) == IF k \in DOMAIN chain[kind] /\ chain[kind][k].bid > 0 THEN chain[kind][k].iv ELSE 0
      quoted == {k \in DOMAIN chain.call \cup DOMAIN chain.put : iv("call", k) + iv("put", k) > 0}
      k == Nearest(quoted, Spot)
  IN  IF quoted = {} THEN 0
      ELSE IF iv("call", k) = 0 \/ iv("put", k) = 0 THEN 2 * (iv("call", k) + iv("put", k))
      ELSE iv("call", k) + iv("put", k)

\* The strike whose delta is nearest the middle of the band, 0 for none.
PickShort(quotes, band) ==
  LET judged == {k \in DOMAIN quotes : quotes[k].delta \in 1..99}
      far(k) == Away(2 * quotes[k].delta, band[1] + band[2])
  IN  IF judged = {} THEN 0
      ELSE CHOOSE k \in judged : \A j \in judged : far(k) < far(j) \/ (far(k) = far(j) /\ k <= j)

\* The strike beyond the short one whose distance is nearest the one aimed at.
PickWing(quotes, kind, short, width) ==
  LET further(k) == IF kind = "call" THEN k > short ELSE k < short
      wings == {k \in DOMAIN quotes :
                  further(k) /\ Away(k, short) <= width[2] /\ MidOf(quotes[k]) > 0}
      far(k) == Away(Away(k, short), width[1])
  IN  IF wings = {} THEN 0
      ELSE CHOOSE k \in wings : \A j \in wings : far(k) < far(j) \/ (far(k) = far(j) /\ k <= j)

\* The short strike of each side traded, and the wing of a pair that has prices.
StructureOn(chain, req, band, day) ==
  [kind \in ToSet(SidesFor(req)) |->
     LET short == PickShort(chain[kind], band)
         paired == short # 0 /\ req.strategy \in Spreads /\ MidOf(chain[kind][short]) > 0
     IN  [short |-> short,
          wing |-> IF paired THEN PickWing(chain[kind], kind, short, WingFor(req, day)) ELSE 0]]

NoStructure(req) == [kind \in ToSet(SidesFor(req)) |-> [short |-> 0, wing |-> 0]]

-----------------------------------------------------------------------------
(* What the legs come to.                                                  *)

Complete(chain, req, parts) ==
  /\ req.strategy \in Structures
  /\ \A kind \in DOMAIN parts :
       /\ parts[kind].short # 0 /\ MidOf(chain[kind][parts[kind].short]) > 0
       /\ req.strategy \in Spreads => parts[kind].wing # 0

\* Fault: only the price of a debit vertical is turned around.
StructureLegsWritten(req, parts, day) ==
  Each(SidesFor(req), LAMBDA kind :
    <<Leg(kind, parts[kind].short, "sell", 1, day)>>
    \o (IF parts[kind].wing = 0 THEN <<>> ELSE <<Leg(kind, parts[kind].wing, "buy", 1, day)>>))

\* A debit vertical buys the leg of the band and sells the wing.
StructureLegs(req, parts, day) ==
  LET bought == req.strategy = "debit_spread"
      short(kind) == Leg(kind, parts[kind].short, IF bought THEN "buy" ELSE "sell", 1, day)
      wing(kind) == Leg(kind, parts[kind].wing, IF bought THEN "sell" ELSE "buy", 1, day)
  IN  Each(SidesFor(req), LAMBDA kind :
        <<short(kind)>> \o (IF parts[kind].wing = 0 THEN <<>> ELSE <<wing(kind)>>))

OverLegs(chain, parts, Op(_, _)) ==
  LET side(n, kind) ==
        LET wing == parts[kind].wing
        IN  n + Op(chain[kind][parts[kind].short], 1)
              + (IF wing = 0 THEN 0 ELSE Op(chain[kind][wing], -1))
  IN  FoldLeft(side, 0, SetToSeq(DOMAIN parts))

CreditOf(chain, req, parts) ==
  LET credit == OverLegs(chain, parts, LAMBDA q, sign : sign * MidOf(q))
  IN  IF req.strategy = "debit_spread" THEN -Away(credit, 0) ELSE credit

CrossOf(chain, parts) == OverLegs(chain, parts, LAMBDA q, sign : HalfSpread(q))

\* Where the payoff changes its sign, between strikes and to both sides of them.
BreakevensOf(legs, net) ==
  LET ks == ToSet(Strikes(legs))
      points == <<0>> \o Ascending(ks) \o <<3 * Max(ks)>>
      pnl(s) == PositionPnl(legs, net, 0, Spot, s)
      crosses(i) == pnl(points[i]) = 0 \/ pnl(points[i]) * pnl(points[i + 1]) < 0
      zero(i) ==
        LET a == points[i]
            b == points[i + 1]
        IN  IF pnl(a) = 0 THEN a
            ELSE IF pnl(a) > 0 THEN a + ((b - a) * pnl(a)) \div (pnl(a) - pnl(b))
            ELSE a + ((a - b) * pnl(a)) \div (pnl(b) - pnl(a))
  IN  {zero(i) : i \in {j \in 1..(Len(points) - 1) : crosses(j)}}

\* A covered call is valued as the call alone.
Outcome(legs, credit, cross) ==
  LET pnl == [s \in Outcomes |-> PositionPnl(legs, -credit, 0, Spot, s)]
  IN  [expected |-> FoldLeft(LAMBDA n, s : n + pnl[s], 0, SetToSeq(Outcomes)),
       wins |-> Cardinality({s \in Outcomes : pnl[s] > cross}),
       worst |-> Min({pnl[s] : s \in Outcomes}), best |-> Max({pnl[s] : s \in Outcomes})]

\* At the natural the credit shrinks by the cross, and the chance has nothing
\* left to clear.
ValueStructure(chain, req, parts, day, iv) ==
  LET legs == StructureLegs(req, parts, day)
      credit == CreditOf(chain, req, parts)
      cross == CrossOf(chain, parts)
      paid == IF req.natural THEN credit - cross ELSE credit
  IN  IF ~Complete(chain, req, parts) \/ iv = 0 THEN <<>>
      ELSE <<Outcome(legs, paid, IF req.natural THEN 0 ELSE cross)
             @@ [legs |-> legs, net |-> -paid, natural |-> credit - cross,
                 breakevens |-> BreakevensOf(legs, -paid)]>>

\* Nothing comes in once every leg is crossed.
NoCredit(outcome, req) == outcome # <<>> /\ req.strategy \in Written /\ outcome[1].natural <= 0

\* Fault: a structure found again is listed again.
TakeUnseen(taken, day, parts, outcome) ==
  [seen |-> taken.seen,
   list |-> Append(taken.list, [day |-> day, parts |-> parts, outcome |-> outcome[1]])]

Take(taken, day, parts, outcome) ==
  [seen |-> taken.seen \cup {<<day, parts>>},
   list |-> Append(taken.list, [day |-> day, parts |-> parts, outcome |-> outcome[1]])]

TryDelta(chain, req, day, iv, taken, delta) ==
  LET parts == StructureOn(chain, req, <<delta, delta>>, day)
      outcome == ValueStructure(chain, req, parts, day, iv)
  IN  IF <<day, parts>> \in taken.seen \/ outcome = <<>> \/ NoCredit(outcome, req) THEN taken
      ELSE Take(taken, day, parts, outcome)

CandidatesOn(chain, req, day, taken) ==
  FoldLeft(LAMBDA acc, delta : TryDelta(chain, req, day, AtmIv(chain), acc, delta), taken, CandidateDeltas)

-----------------------------------------------------------------------------
(* The verdicts.                                                           *)

Judge(b) == IF b THEN "pass" ELSE "fail"
When(asked, key, verdict) == IF asked THEN key :> verdict ELSE <<>>

OpenVerdict(row, req) == IF row.open = 0 THEN "unknown" ELSE Judge(row.open >= req.minOpen)

TradedVerdict(row, req) ==
  IF row.traded = NoDay \/ req.minTraded = 0 THEN "unknown" ELSE Judge(row.traded >= req.minTraded)

SpreadVerdict(row, req, chain) ==
  LET shorts == {chain[kind][row.parts[kind].short] :
                   kind \in {k \in DOMAIN row.parts : row.parts[k].short # 0}}
      quoted == {q \in shorts : TwoSided(q)}
  IN  IF quoted = {} THEN "unknown"
      ELSE Judge(\A q \in quoted : 200 * (q.ask - q.bid) <= req.maxSpread * (q.bid + q.ask))

\* A report in the first third of the position's life is an early one.
EarningsVerdict(row, req) ==
  LET inside == row.day > 0 /\ row.report <= row.day
  IN  IF row.report = NoDay THEN "unknown"
      ELSE Judge(~inside \/ (Policy(req) = "early" /\ 3 * row.report <= row.day))

DeltaVerdict(row, req, chain, kind) ==
  LET short == row.parts[kind].short
  IN  IF short = 0 THEN "unknown"
      ELSE Judge(chain[kind][short].delta \in req.band[1]..req.band[2])

Paired(row) == {kind \in DOMAIN row.parts : row.parts[kind].wing # 0}

\* A tenth of the width has to come back.
CreditVerdict(row, chain) ==
  LET enough(kind) ==
        LET p == row.parts[kind]
        IN  10 * (MidOf(chain[kind][p.short]) - MidOf(chain[kind][p.wing])) >= Away(p.short, p.wing)
  IN  IF Paired(row) = {} THEN "unknown" ELSE Judge(\A kind \in Paired(row) : enough(kind))

SlopeVerdict(row) ==
  IF row.iv = 0 \/ row.backIv = 0 THEN "unknown" ELSE Judge(100 * row.iv >= 103 * row.backIv)

RiskVerdict(row, req, equity) ==
  IF equity = 0 THEN "unknown" ELSE Judge(100 * Away(row.outcome[1].worst, 0) <= req.maxRisk * equity)

\* Rich from 1.2 times what was realised, cheap up to 0.95 times; a calendar only
\* has to have a ratio.
RatioVerdict(row, req) ==
  LET rich == 10 * row.judged >= 24 * row.vol
      cheap == 100 * row.judged <= 190 * row.vol
  IN  IF row.judged = 0 \/ row.vol = 0
      THEN IF req.strategy = "calendar" THEN "fail" ELSE "unknown"
      ELSE Judge(CASE req.strategy \in Written -> rich
                   [] req.strategy = "calendar" -> TRUE
                   [] OTHER -> cheap)

RankVerdict(row, req) ==
  IF row.rank = NoDay THEN "unknown"
  ELSE Judge(IF req.strategy \in Written THEN row.rank >= 60 ELSE row.rank <= 30)

Verdicts(row, req, chain, equity) ==
  LET sides == ToSet(SidesFor(req))
      valued == row.outcome # <<>>
  IN  ("open_interest" :> OpenVerdict(row, req))
      @@ When(req.minTraded > 0 \/ row.traded # NoDay, "option_volume", TradedVerdict(row, req))
      @@ ("spread" :> SpreadVerdict(row, req, chain))
      @@ ("dte" :> Judge(row.day # NoDay))
      @@ When(Policy(req) # "ignore", "earnings", EarningsVerdict(row, req))
      @@ [kind \in sides |-> DeltaVerdict(row, req, chain, kind)]
      @@ When(req.strategy \in Spreads, "wing", Judge(Paired(row) = sides))
      @@ When(req.strategy \in Spreads \cap Written, "credit_to_width", CreditVerdict(row, chain))
      @@ When(req.strategy = "calendar", "term_structure", SlopeVerdict(row))
      @@ When(valued /\ req.maxRisk > 0, "position_risk", RiskVerdict(row, req, equity))
      @@ When(valued, "expected_value", Judge(valued /\ row.outcome[1].expected > 0))
      @@ ("iv_vs_rv" :> RatioVerdict(row, req))
      @@ ("iv_rank" :> RankVerdict(row, req))

Passed(row) == Cardinality({key \in DOMAIN row.verdicts : row.verdicts[key] = "pass"})

-----------------------------------------------------------------------------
(* One row.                                                                *)

BlankRow(name, req) ==
  [symbol |-> name, day |-> NoDay, report |-> NoDay, excluded |-> FALSE, noCredit |-> FALSE,
   vol |-> 0, iv |-> 0, judged |-> 0, open |-> 0, traded |-> NoDay, parts |-> NoStructure(req),
   outcome |-> <<>>, candidates |-> <<>>, back |-> NoDay, backIv |-> 0, rank |-> NoDay,
   verdicts |-> <<>>]

Comparable(day) == ComparableDays[1] <= day /\ day <= ComparableDays[2]

\* What "is premium rich" is judged on: the chain's own volatility, or outside
\* the band that is recorded that of the expiry the record is kept on.
JudgedIv(row, u, days, failed) ==
  LET ref == PickExpiry(days, RefDays[1], RefDays[2], u.monthly, TRUE)
      iv == AtmIv(Fetched(u.boards[ref], DefaultWidth))
      kept == row.iv = 0 \/ Comparable(row.day) \/ ref \in {NoDay, row.day} \/ "reference" \in failed
      other == IF kept THEN 0 ELSE iv
  IN  IF other = 0 THEN [iv |-> row.iv, recorded |-> Comparable(row.day)]
      ELSE [iv |-> other, recorded |-> TRUE]

\* The expiry the row is screened on.  Without a calendar, or without a report that
\* is known, the report decides nothing.
FoundRow(name, req, failed, bars) ==
  LET u == Underlyings[name]
      listed == ListedDays(u, req)
      asked == Policy(req) = "avoid" /\ "earnings" \notin failed
      report == IF asked THEN u.report ELSE NoDay
      blank == [BlankRow(name, req) EXCEPT !.report = report]
      day == PickExpiry(UsableDays(listed, req, report), req.low, req.high, u.monthly, req.monthly)
  IN  IF "expiries" \in failed THEN BlankRow(name, req)
      ELSE IF ExcludedByReport(listed, req, report) THEN [blank EXCEPT !.excluded = TRUE]
      ELSE [blank EXCEPT !.day = day, !.vol = IF bars /\ day # NoDay THEN u.vol ELSE 0]

\* The days the row at hand may use.
DaysOf(row, req) == UsableDays(ListedDays(Underlyings[row.symbol], req), req, row.report)

WidthOf(row, req) == ChainWidth(row.vol, row.day, WingFor(req, FullWingDays)[2])

-----------------------------------------------------------------------------
(* The list.                                                               *)

\* The ratio of implied to realised volatility in the direction asked for.
VolKey(row, req) ==
  IF row.judged = 0 \/ row.vol = 0 \/ req.strategy = "calendar" THEN [over |-> 0, of |-> 1]
  ELSE IF req.strategy \in Written THEN [over |-> row.judged, of |-> row.vol]
  ELSE [over |-> -row.judged, of |-> row.vol]

RanksBefore(a, b, req) ==
  LET ka == VolKey(a, req)
      kb == VolKey(b, req)
      known(row) == row.day # NoDay
      of == ka.over * kb.of - kb.over * ka.of
  IN  \/ known(a) /\ ~known(b)
      \/ /\ known(a) = known(b)
         /\ \/ Passed(a) > Passed(b)
            \/ Passed(a) = Passed(b) /\ (of > 0 \/ (of = 0 /\ a.open > b.open))

RankRows(rows, req) ==
  LET before(i, j) ==
        \/ RanksBefore(rows[i], rows[j], req)
        \/ i < j /\ ~RanksBefore(rows[j], rows[i], req)
      order == SortSeq([i \in DOMAIN rows |-> i], before)
  IN  [p \in DOMAIN rows |-> rows[order[p]]]

ScreenInit == screen = <<>>

\* Refused where nothing is left to screen; the account and the bars may fail.
StartScreen(req, equity, bars) ==
  /\ screen = <<>>
  /\ Selected(req) # <<>>
  /\ screen' = <<[req |-> req, pending |-> Selected(req), hand |-> <<>>, rows |-> <<>>,
                 equity |-> equity, bars |-> bars, ranked |-> <<>>]>>

\* The next symbol, whichever calls for it are going to fail.  A row without
\* expiries, and one left out for its report, is not judged; one without a chain
\* is judged on nothing.
LookUp(failed) ==
  /\ screen # <<>>
  /\ LET s == screen[1]
     IN  /\ s.hand = <<>> /\ s.pending # <<>>
         /\ LET row == FoundRow(Head(s.pending), s.req, failed, s.bars)
                over == "expiries" \in failed \/ row.excluded
                at == IF row.day = NoDay \/ "chain" \in failed THEN "judge" ELSE "chain"
            IN  screen' = <<[s EXCEPT
                  !.pending = Tail(@),
                  !.hand = IF over THEN <<>>
                           ELSE <<[row |-> row, failed |-> failed, at |-> at,
                                   chain |-> [call |-> <<>>, put |-> <<>>]]>>,
                  !.rows = IF over THEN Append(@, row) ELSE @]>>

\* One step of the row at hand, from one of its calls to another.
RowStep(at, next, Changed(_, _)) ==
  /\ screen # <<>>
  /\ LET s == screen[1]
     IN  /\ s.hand # <<>> /\ s.hand[1].at = at
         /\ screen' = <<[s EXCEPT !.hand = <<[Changed(s.hand[1], s.req) EXCEPT !.at = next]>>]>>

ReadChain ==
  RowStep("chain", "value", LAMBDA h, req :
    [h EXCEPT !.chain = Fetched(Underlyings[h.row.symbol].boards[h.row.day], WidthOf(h.row, req))])

\* What the chain says of itself, and the legs on it.
ReadRow ==
  RowStep("value", "outcome", LAMBDA h, req :
    [h EXCEPT !.row.iv = AtmIv(h.chain), !.row.open = h.chain.open, !.row.traded = h.chain.traded,
              !.row.parts = StructureOn(h.chain, req, req.band, h.row.day)])

\* The volatility it is judged on, and what the legs come to.
ValueRow ==
  RowStep("outcome", "others", LAMBDA h, req :
    LET judged == JudgedIv(h.row, Underlyings[h.row.symbol], DaysOf(h.row, req), h.failed)
    IN  [h EXCEPT !.row.judged = judged.iv,
                  !.row.rank = IF judged.iv # 0 /\ judged.recorded /\ "rank" \notin h.failed
                               THEN Underlyings[h.row.symbol].rank ELSE NoDay,
                  !.row.outcome = ValueStructure(h.chain, req, h.row.parts, h.row.day, h.row.iv)])

\* The structure at other deltas, and on a second expiry of the window.
TryOthers ==
  RowStep("others", "back", LAMBDA h, req :
    LET u == Underlyings[h.row.symbol]
        start == [seen |-> {<<h.row.day, h.row.parts>>}, list |-> <<>>]
        second == PickExpiry(DaysOf(h.row, req) \ {h.row.day}, req.low, req.high, u.monthly, req.monthly)
        alone == ~req.seconds \/ second = NoDay \/ "second" \in h.failed
        own == CandidatesOn(h.chain, req, h.row.day, start)
        taken == IF alone THEN own
                 ELSE CandidatesOn(Fetched(u.boards[second], WidthOf(h.row, req)), req, second, own)
    IN  [h EXCEPT !.row.noCredit = NoCredit(h.row.outcome, req),
                  !.row.candidates = IF req.candidates /\ h.row.outcome # <<>> THEN taken.list ELSE <<>>])

\* A calendar's later expiry; and the report, where it was not asked for before.
ReadBack ==
  RowStep("back", "judge", LAMBDA h, req :
    LET u == Underlyings[h.row.symbol]
        back == PickExpiry(DaysOf(h.row, req), 2 * req.low, 3 * req.high, u.monthly, req.monthly)
        paired == req.strategy = "calendar" /\ back \notin {NoDay, h.row.day} /\ "back" \notin h.failed
    IN  [h EXCEPT !.row.back = IF paired THEN back ELSE NoDay,
                  !.row.backIv = IF paired THEN AtmIv(Fetched(u.boards[back], DefaultWidth)) ELSE 0,
                  !.row.report = IF Policy(req) # "avoid" /\ "earnings" \notin h.failed THEN u.report
                                  ELSE h.row.report])

JudgeRow ==
  /\ screen # <<>>
  /\ LET s == screen[1]
     IN  /\ s.hand # <<>> /\ s.hand[1].at = "judge"
         /\ LET h == s.hand[1]
                row == [h.row EXCEPT !.verdicts = Verdicts(h.row, s.req, h.chain, s.equity)]
            IN  screen' = <<[s EXCEPT !.hand = <<>>, !.rows = Append(@, row)]>>

\* Every row is in; those that were left out are named beside the table.
ShowScreen ==
  /\ screen # <<>>
  /\ LET s == screen[1]
         shown == SelectSeq(s.rows, LAMBDA row : ~row.excluded /\ ~row.noCredit)
     IN  /\ s.pending = <<>> /\ s.hand = <<>> /\ s.rows # <<>>
         /\ screen' = <<[s EXCEPT !.rows = <<>>, !.ranked = RankRows(shown, s.req)]>>

NewScreen ==
  /\ screen # <<>>
  /\ screen[1].pending = <<>> /\ screen[1].hand = <<>> /\ screen[1].rows = <<>>
  /\ screen' = <<>>

ScreenNext ==
  \/ \E req \in ScreenRequests, equity \in Equities, bars \in BOOLEAN : StartScreen(req, equity, bars)
  \/ \E failed \in Failures : LookUp(failed)
  \/ ReadChain \/ ReadRow \/ ValueRow \/ TryOthers \/ ReadBack \/ JudgeRow
  \/ ShowScreen
  \/ NewScreen

ScreenSpec == ScreenInit /\ [][ScreenNext]_screen

-----------------------------------------------------------------------------
(* Correctness.                                                            *)

\* Where reports are to be avoided, nothing that is shown holds the one the
\* calendar named: neither the expiry of the row nor that of another structure of
\* it.  A symbol is left out for its report when the window would not do without
\* it, and only then; and what a calendar is compared with expires later.
AvoidedReportsAreAvoided ==
  \A n \in DOMAIN screen : \A i \in DOMAIN screen[n].rows :
    LET row == screen[n].rows[i]
        req == screen[n].req
        window == InWindow(ListedDays(Underlyings[row.symbol], req), req)
    IN  /\ Policy(req) = "avoid" /\ row.report # NoDay =>
             /\ row.excluded = (window # {} /\ Min(window) >= row.report)
             /\ row.excluded \/ window = {} \/ row.day \in window
             /\ row.day < row.report
             /\ \A c \in ToSet(row.candidates) : c.day < row.report
        /\ row.back # NoDay => row.back > row.day

TicketName(req) ==
  CASE req.strategy = "credit_spread" -> IF req.side = "put" THEN "bull_put" ELSE "bear_call"
    [] req.strategy = "debit_spread" -> IF req.side = "put" THEN "bear_put" ELSE "bull_call"
    [] OTHER -> req.strategy

TicketStrikes(req, parts) ==
  CASE req.strategy = "iron_condor" ->
         <<parts["put"].wing, parts["put"].short, parts["call"].short, parts["call"].wing>>
    [] req.strategy = "credit_spread" -> <<parts[req.side].wing, parts[req.side].short>>
    [] req.strategy = "debit_spread" -> <<parts[req.side].short, parts[req.side].wing>>
    [] OTHER -> <<parts["put"].short>>

\* What the screen says of a structure is what the ticket says of it: its legs make
\* the ticket of that name, its breakevens are the ticket's, and it neither loses
\* nor makes more than the ticket says it can.  No structure is listed twice.
\* (The market pays the way the structure is meant, for less than it can come to,
\* and the shorts of a condor are apart; a covered call is valued without shares.)
ScreenAgreesWithTicket ==
  \A n \in DOMAIN screen : \A i \in DOMAIN screen[n].rows :
    LET row == screen[n].rows[i]
        req == screen[n].req
        own == IF row.outcome = <<>> THEN <<>>
               ELSE <<[day |-> row.day, parts |-> row.parts, outcome |-> row.outcome[1]]>>
        listed == own \o row.candidates
        name == TicketName(req)
        agrees(c) ==
          LET ks == TicketStrikes(req, c.parts)
              price == Away(c.outcome.net, 0)
              risk == SpreadRisk(name, ks, price, Spot)
              market == /\ IF req.strategy \in Written THEN c.outcome.net < 0 ELSE c.outcome.net > 0
                        /\ PriceFits(name, ks, price)
              apart == req.strategy = "iron_condor" => ks[2] < ks[3]
          IN  /\ apart => FieldsFit(name, ks) \/ LegsFit(name, c.outcome.legs)
              /\ apart /\ market =>
                   /\ c.outcome.breakevens = risk.breakevens
                   /\ \A loss \in risk.maxLoss : -c.outcome.worst <= loss
                   /\ \A profit \in risk.maxProfit : c.outcome.best <= profit
    IN  /\ Cardinality({<<listed[j].day, listed[j].parts>> : j \in DOMAIN listed}) = Len(listed)
        /\ req.strategy # "covered_call" => \A j \in DOMAIN listed : agrees(listed[j])
=============================================================================

----------------------------- MODULE SignalWalks -----------------------------
(***************************************************************************)
(* Backtests walked over one tape of five-minute bars of one symbol, and   *)
(* what the live side reads off the same bars: strategy setups             *)
(* (strategy_backtest beside strategies.runner, the scanner's rows and the *)
(* chart), momentum alarms (momentum_backtest beside MomentumCache), the   *)
(* screen replayed bar by bar (intraday_backtest) and the first crossing   *)
(* of a relative volume (rvol_backtest).                                   *)
(*                                                                         *)
(* The tape grows bar by bar.  A bar is stamped with its day and the slot  *)
(* of the day it starts in, and any slot may be missing; every bar trades  *)
(* the same volume.  The strategies are the long side of the two range     *)
(* breakouts; prices are so coarse that a touch band holds one of them and *)
(* every excursion is large enough to be a rejection.                      *)
(***************************************************************************)
EXTENDS Integers, Sequences, FiniteSets, SequencesExt, FiniteSetsExt

CONSTANTS
  OpenSlot,       \* the slot the regular session opens in
  CloseSlot,      \* ... and the one it has closed in
  BoxSlots,       \* opening_range_minutes, in slots
  BreakWindow,    \* BREAKOUT_WINDOW_MINUTES, in slots
  MinTargetR,     \* MIN_TARGET_R and MEASURED_MOVE_R
  MeasuredMove,   \* the measured-move switch
  HourSlots,      \* the slots of an hour
  PivotWindow,    \* _PIVOT_WINDOW
  MinBars,        \* MIN_BARS, in hours
  MinVisits,      \* MIN_VISITS
  AtrWindow,      \* WINDOW_SESSIONS
  MinSessions,    \* MIN_SESSIONS
  Horizon,        \* bars a momentum alarm is followed for
  Window,         \* MOMENTUM_WINDOW, in slots
  MinMove,        \* the momentum threshold, in percent
  MinRvol,        \* the relative volume to cross
  MinFraction,    \* MIN_FRACTION, in thousandths
  SurgeBars,      \* the window of rvol_1h, in bars
  Asides,         \* what a replay is handed beside the tape: see Entries
  Prints          \* bound: the bars that may close

ASSUME WalkAssumption ==
  /\ OpenSlot \in Nat /\ CloseSlot \in Nat /\ OpenSlot < CloseSlot
  /\ {BoxSlots, HourSlots, PivotWindow, MinVisits, AtrWindow, MinSessions} \subseteq Nat \ {0}
  /\ {BreakWindow, MinTargetR, MinBars, MinFraction, SurgeBars} \subseteq Nat
  /\ MeasuredMove \in BOOLEAN
  /\ Prints \subseteq [day : Nat \ {0}, slot : Nat, low : Nat \ {0}, high : Nat \ {0},
                       close : Nat \ {0}, paid : Nat \ {0}, green : BOOLEAN]
  /\ Horizon \in Nat \ {0} /\ Window \in Nat \ {0} /\ MinMove \in Nat \ {0}
  /\ MinRvol \in Nat \ {0}

VARIABLE tape

NoSignal == [entry |-> 0, stop |-> 0, target |-> 0]
Places(bars) == [i \in DOMAIN bars |-> i]

-----------------------------------------------------------------------------
(* What every walk asks of a bar.                                          *)

IsRegularBar(b) == OpenSlot <= b.slot /\ b.slot < CloseSlot
SameDay(b, c) == b.day = c.day

\* SessionVwapState: a running total of the day's prints from the open on.
NoPrints == [day |-> 0, paid |-> 0, prints |-> 0]
Update(vwap, b) ==
  LET today == IF vwap.day = b.day THEN vwap ELSE [NoPrints EXCEPT !.day = b.day]
  IN  IF b.slot < OpenSlot THEN today
      ELSE [today EXCEPT !.paid = @ + b.paid, !.prints = @ + 1]
SeededFrom(bars) == FoldLeft(Update, NoPrints, bars)
AboveVwap(b, vwap) == vwap.prints > 0 /\ b.close * vwap.prints > vwap.paid

HighsAt(bars, at) == {bars[i].high : i \in at}
LowsAt(bars, at) == {bars[i].low : i \in at}

Bounds(bars, at) ==
  IF at = {} THEN {} ELSE {Max(HighsAt(bars, at)), Min(LowsAt(bars, at))}

PremarketRange(bars, day) ==
  Bounds(bars, {i \in DOMAIN bars : bars[i].day = day /\ bars[i].slot < OpenSlot})

\* The last earlier day that traded, up to and including the bar stamped at the
\* close.
InHours(b) == b.slot \in OpenSlot..CloseSlot
PriorSession(bars, day) ==
  LET earlier == {i \in DOMAIN bars : bars[i].day < day /\ InHours(bars[i])}
  IN  {i \in earlier : \A j \in earlier : bars[j].day <= bars[i].day}

MarksForSession(bars, day) ==
  LET prior == PriorSession(bars, day)
  IN  PremarketRange(bars, day) \cup Bounds(bars, prior)
        \cup (IF prior = {} THEN {} ELSE {bars[Max(prior)].close})

\* The bars rolled up into hours.
HourOf(b) == <<b.day, b.slot \div HourSlots>>
ToHourly(bars) ==
  LET EndsHour(i) == i = Len(bars) \/ HourOf(bars[i + 1]) # HourOf(bars[i])
      ends == SelectSeq(Places(bars), EndsHour)
      Of(h) == {i \in DOMAIN bars : HourOf(bars[i]) = HourOf(bars[ends[h]])}
  IN  [h \in DOMAIN ends |-> [high |-> Max(HighsAt(bars, Of(h))), low |-> Min(LowsAt(bars, Of(h)))]]

\* The prices the move turned at: extremes of a window centred on them that gave
\* way afterwards.
Rejections(hours) ==
  LET inner == (1 + PivotWindow)..(Len(hours) - PivotWindow)
      Around(h) == (h - PivotWindow)..(h + PivotWindow)
      After(h) == {k \in DOMAIN hours : h < k /\ k <= h + 4 * PivotWindow}
      Peak(h) == /\ \A k \in Around(h) : hours[k].high <= hours[h].high
                 /\ \E k \in After(h) : hours[k].low < hours[h].high
      Trough(h) == /\ \A k \in Around(h) : hours[k].low >= hours[h].low
                   /\ \E k \in After(h) : hours[k].high > hours[h].low
  IN  {hours[h].high : h \in {k \in inner : Peak(k)}}
        \cup {hours[h].low : h \in {k \in inner : Trough(k)}}

\* Separate returns to a price.
CountVisits(hours, price) ==
  LET Touches(h) == hours[h].low <= price /\ price <= hours[h].high
  IN  Cardinality({h \in DOMAIN hours : Touches(h) /\ ~(h > 1 /\ Touches(h - 1))})

FindLevels(bars) ==
  LET hours == ToHourly(bars)
  IN  IF Len(hours) < MinBars THEN {}
      ELSE {p \in Rejections(hours) : CountVisits(hours, p) >= MinVisits}

\* The average true range of the last sessions before a day, as a sum and a
\* number of them; of too few it is unknown.
NoAtr == [sum |-> 0, n |-> 0]
EarlierBars(bars, day) ==
  {bars[i] : i \in {j \in DOMAIN bars : bars[j].day < day /\ InHours(bars[j])}}

AtrOf(earlier) ==
  LET sessions == {b.day : b \in earlier}
      On(d) == {b \in earlier : b.day = d}
      CloseOf(d) == (CHOOSE b \in On(d) : \A c \in On(d) : c.slot <= b.slot).close
      Before(d) == {e \in sessions : e < d}
      Reached(d) == {b.high : b \in On(d)} \cup {b.low : b \in On(d)}
                      \cup (IF Before(d) = {} THEN {} ELSE {CloseOf(Max(Before(d)))})
      TrueRange(d) == Max(Reached(d)) - Min(Reached(d))
      recent == {d \in sessions : Cardinality(sessions \ Before(d)) <= AtrWindow}
  IN  IF Cardinality(sessions) < MinSessions THEN NoAtr
      ELSE [sum |-> MapThenSumSet(TrueRange, recent), n |-> Cardinality(recent)]

DailyAtr(bars, day) == AtrOf(EarlierBars(bars, day))

-----------------------------------------------------------------------------
(* The rules: a close beyond a box.                                        *)

Rules == {"opening_range", "premarket_range"}

\* The box is finished in this slot, and then it may be broken for a while.
ReadyAt(rule) == IF rule = "opening_range" THEN OpenSlot + BoxSlots ELSE OpenSlot
Box(bars, i, rule) ==
  LET from == IF rule = "opening_range" THEN OpenSlot ELSE 0
  IN  {j \in 1..i : SameDay(bars[j], bars[i]) /\ bars[j].slot \in from..(ReadyAt(rule) - 1)}

\* A box of half the day's usual range leaves no room; of an unknown range the
\* veto declines.
Vetoed(height, atr) == atr.n > 0 /\ 2 * atr.n * height >= atr.sum

\* The next level ahead is the target, and one nearer than the floor is no trade;
\* where no level is ahead a measured move may stand in.
Target(entry, risk, levels) ==
  LET ahead == {l \in levels : l > entry}
  IN  IF ahead = {} THEN IF MeasuredMove THEN entry + MinTargetR * risk ELSE 0
      ELSE IF Min(ahead) - entry < MinTargetR * risk THEN 0 ELSE Min(ahead)

\* A rule asked about the bar at i: only a regular bar above the line may trigger.
Evaluate(bars, i, vwap, levels, atr, rule) ==
  LET b == bars[i]
      box == Box(bars, i, rule)
      high == Max(HighsAt(bars, box))
      low == Min(LowsAt(bars, box))
      target == Target(b.close, b.close - low, levels)
  IN  IF /\ IsRegularBar(b) /\ b.slot \in ReadyAt(rule)..(ReadyAt(rule) + BreakWindow)
         /\ box # {} /\ low < high /\ b.close > high
         /\ rule = "opening_range" => ~Vetoed(high - low, atr)
         /\ target > 0 /\ AboveVwap(b, vwap)
      THEN [entry |-> b.close, stop |-> low, target |-> target] ELSE NoSignal

-----------------------------------------------------------------------------
(* Strategies: the backtest and the live walk.                             *)

\* The bars an entry is followed over.
ForwardSessionBars(bars, i) ==
  {j \in DOMAIN bars : j > i /\ SameDay(bars[j], bars[i]) /\ IsRegularBar(bars[j])}

\* Fault: what a day starts with is fixed at the first day alone.
NewSessionOnce(walk, b) == walk.day = 0

NewSession(walk, b) == b.day # walk.day

\* What is fixed at a day's first bar, from the bars before it.
MorningLevels(before, day) == FindLevels(before) \cup MarksForSession(before, day)

\* One bar of simulate_strategy: only the first bar of a streak is a pick.
StrategyBar(bars, walk, i, rule) ==
  LET b == bars[i]
      before == SubSeq(bars, 1, i - 1)
      first == NewSession(walk, b)
      vwap == Update(walk.vwap, b)
      levels == IF first THEN MorningLevels(before, b.day) ELSE walk.levels
      atr == IF first THEN DailyAtr(before, b.day) ELSE walk.atr
      active == walk.active /\ ~first
      signal == Evaluate(bars, i, vwap, levels, atr, rule)
      picked == signal # NoSignal /\ ~active /\ ForwardSessionBars(bars, i) # {}
  IN  [vwap |-> vwap, levels |-> levels, atr |-> atr, day |-> b.day,
       active |-> signal # NoSignal,
       picks |-> walk.picks \cup IF picked THEN {[at |-> i, signal |-> signal]} ELSE {}]

NoWalk == [vwap |-> NoPrints, levels |-> {}, atr |-> NoAtr, day |-> 0, active |-> FALSE,
           picks |-> {}]
SimulateStrategy(bars, rule) ==
  FoldLeft(LAMBDA walk, i : StrategyBar(bars, walk, i, rule), NoWalk, Places(bars)).picks

\* The live walk, with the levels it is given: the setups of the last day.
WalkLatestSession(bars, levels, rule) ==
  LET today == Last(bars).day
      atr == DailyAtr(bars, today)
  IN  [i \in {j \in DOMAIN bars : bars[j].day = today} |->
         Evaluate(bars, i, SeededFrom(SubSeq(bars, 1, i)), levels, atr, rule)]

\* The scanner: the cache holds the session alone, and the levels are its marks.
OneSession(bars) == SelectSeq(bars, LAMBDA b : SameDay(b, Last(bars)))
AttachStrategies(bars, rule) ==
  LET held == OneSession(bars)
  IN  WalkLatestSession(held, MarksForSession(held, Last(bars).day), rule)

\* The chart: structure of every hour at hand, and the marks.
\* Fault: the marks are left out.
LevelsForStructure(bars) == FindLevels(bars)

LevelsFor(bars) == FindLevels(bars) \cup MarksForSession(bars, Last(bars).day)
SharedFirings(bars, rule) == WalkLatestSession(bars, LevelsFor(bars), rule)

-----------------------------------------------------------------------------
(* Momentum: the backtest and the live cache.                              *)

\* The move since the last bar a window ago, among those given.
Moves(bars, i, among) ==
  LET before == {j \in among : bars[j].slot <= bars[i].slot - Window}
  IN  /\ before # {}
      /\ LET ref == bars[Max(before)].close
         IN  100 * (bars[i].close - ref) >= MinMove * ref

\* A candle that closed at its high.
IsShavedTop(b) == b.low < b.high /\ b.close = b.high

\* What is asked of a bar: a move, and a candle that confirms it.
Alert(bars, i, among, vwap) ==
  LET moves == IsRegularBar(bars[i]) /\ Moves(bars, i, among)
  IN  [threshold_only |-> moves,
       full_alert |-> moves /\ IsShavedTop(bars[i]) /\ bars[i].green /\ AboveVwap(bars[i], vwap)]

Kinds == {"threshold_only", "full_alert"}

\* The bars of the day among the last few.
TrailingBars == 2 * Window
Trailing(bars, i) ==
  {j \in DOMAIN bars : i - TrailingBars <= j /\ j <= i /\ SameDay(bars[j], bars[i])}

Measurable(bars, i) ==
  IsRegularBar(bars[i + Horizon]) /\ SameDay(bars[i + Horizon], bars[i])

MomentumBar(bars, walk, i) ==
  LET vwap == Update(walk.vwap, bars[i])
      alert == Alert(bars, i, Trailing(bars, i), vwap)
      edges == {k \in Kinds : alert[k] /\ ~walk.active[k]}
  IN  [vwap |-> vwap, active |-> alert,
       picks |-> walk.picks \cup
         IF Measurable(bars, i) THEN {[at |-> i, kind |-> k] : k \in edges} ELSE {}]

SimulateMomentumAlerts(bars) ==
  FoldLeft(LAMBDA walk, i : MomentumBar(bars, walk, i),
           [vwap |-> NoPrints, active |-> [k \in Kinds |-> FALSE], picks |-> {}],
           [i \in 1..(Len(bars) - Horizon) |-> i]).picks

\* MomentumCache.refresh: the reading of the last bar.
LiveAlert(bars) ==
  LET n == Len(bars)
  IN  Alert(bars, n, {j \in 1..n : SameDay(bars[j], bars[n])}, SeededFrom(bars))

-----------------------------------------------------------------------------
(* The screen, replayed, and the relative volume.                          *)

RegularBars(bars, day) == {i \in DOMAIN bars : bars[i].day = day /\ IsRegularBar(bars[i])}
DaysOf(bars) == {bars[i].day : i \in DOMAIN bars}

\* The daily bars of the days before, external: the last is what the change and
\* the usual volume are measured by, with one day of history for twenty.
DaysBefore(bars, day) == {d \in DaysOf(bars) : d < day /\ RegularBars(bars, d) # {}}
UsualVolume(bars, day) == Cardinality(RegularBars(bars, Max(DaysBefore(bars, day))))

\* Fault: the row shows the finished day's high.
RowHighOfDay(bars, i) == Max(HighsAt(bars, RegularBars(bars, bars[i].day)))

RowHigh(bars, i) == Max(HighsAt(bars, {j \in RegularBars(bars, bars[i].day) : j <= i}))

\* The share of a usual day's volume that is in by a slot, in thousandths, off a
\* curve of such shares by slot.
FractionAt(curve, slot) ==
  LET past == {s \in DOMAIN curve : s <= slot}
  IN  IF DOMAIN curve = {} THEN 1000
      ELSE IF past = {} THEN MinFraction
      ELSE Max({MinFraction, Min({1000, curve[Max(past)]})})

\* The volume of the last bars against their share of a usual day: of a green bar,
\* once the window fits.
NoRvol == [recent |-> 0, usual |-> 0, share |-> 0]
Rvol1h(bars, i, curve) ==
  LET sofar == {j \in RegularBars(bars, bars[i].day) : j <= i}
      slot == bars[i].slot + 1
      share == FractionAt(curve, slot) - FractionAt(curve, slot - SurgeBars)
  IN  IF DOMAIN curve # {} /\ bars[i].green /\ Cardinality(sofar) >= SurgeBars /\ share > 0
      THEN [recent |-> SurgeBars, usual |-> UsualVolume(bars, bars[i].day), share |-> share]
      ELSE NoRvol

\* Every bar at the high of its day so far is a pick, to the close of its day, of
\* a symbol that today's fundamentals let pass.
SimulateScreen(bars, aside) ==
  {[at |-> i, high |-> RowHigh(bars, i), rvol_1h |-> Rvol1h(bars, i, aside.curve)] : i \in
     {j \in DOMAIN bars : /\ IsRegularBar(bars[j]) /\ DaysBefore(bars, bars[j].day) # {}
                          /\ bars[j].close >= RowHigh(bars, j) /\ aside.passes}}

\* The bars whose volume so far can be compared and whose outcome measured, to
\* the close, with the share of the day that is usually in by then.
ObserveRvol(bars, day, curve) ==
  LET session == RegularBars(bars, day)
  IN  {[at |-> i, volume |-> Cardinality({j \in session : j <= i}),
        usual |-> UsualVolume(bars, day), fraction |-> FractionAt(curve, bars[i].slot)] :
         i \in {j \in session : DaysBefore(bars, day) # {} /\ \E later \in session : later > j}}

Definitions == {"rvol_raw", "rvol_normalized"}
CrossesRvol(r, definition) ==
  LET fraction == IF definition = "rvol_raw" THEN 1000 ELSE r.fraction
  IN  1000 * r.volume >= MinRvol * r.usual * fraction

\* The first of each day.
FirstCrossings(bars, curve, definition) ==
  LET CrossingsOn(day) == {r \in ObserveRvol(bars, day, curve) : CrossesRvol(r, definition)}
  IN  UNION {{r \in CrossingsOn(day) : \A s \in CrossingsOn(day) : r.at <= s.at} :
               day \in DaysOf(bars)}

-----------------------------------------------------------------------------
TapeInit == tape = <<>>

Later(b, c) == b.day > c.day \/ (b.day = c.day /\ b.slot > c.slot)

\* A bar closes and is on the tape.
BarCloses(b) ==
  /\ tape # <<>> => Later(b, Last(tape))
  /\ tape' = Append(tape, b)

TapeNext == \E b \in Prints : BarCloses(b)

TapeSpec == TapeInit /\ [][TapeNext]_tape
-----------------------------------------------------------------------------
(* Correctness.                                                            *)

\* What is entered off the tape alone, and what with the help of what a replay is
\* handed beside it: the volume curve, and whether the symbol's fundamentals pass.
Entries(bars) ==
  UNION {{<<r, p>> : p \in SimulateStrategy(bars, r)} : r \in Rules}
    \cup {<<"momentum", p>> : p \in SimulateMomentumAlerts(bars)}
AidedEntries(bars, aside) ==
  {<<"screen", p>> : p \in SimulateScreen(bars, aside)}
    \cup UNION {{<<d, p>> : p \in FirstCrossings(bars, aside.curve, d)} : d \in Definitions}

\* No replay looks ahead on its tape: whatever is printed next, every entry found
\* so far is found again at the same bar, at the same price, with the same stop,
\* target and readings (bars[:i], levels_as_of, daily_atr, the trailing window, the
\* running high).  The curve and the fundamentals are held fixed: both are taken
\* over the whole range of a replay, and looking ahead through them is not excluded.
EntriesStay ==
  [][/\ Entries(tape) \subseteq Entries(tape')
     /\ \A aside \in Asides : AidedEntries(tape, aside) \subseteq AidedEntries(tape', aside)]_tape

\* The bars at which a condition turns true within a day.
Edges(Holds(_)) ==
  {i \in DOMAIN tape :
     Holds(i) /\ ~(i > 1 /\ SameDay(tape[i - 1], tape[i]) /\ Holds(i - 1))}

SoFar(i) == SubSeq(tape, 1, i)

\* The levels a replay fixes in the morning, and those known at the open.
FirstBar(day) == Min({i \in DOMAIN tape : tape[i].day = day})
LevelsFixed(day) == MorningLevels(SubSeq(tape, 1, FirstBar(day) - 1), day)
LevelsAtOpen(day) ==
  LevelsFixed(day) \cup MarksForSession(SelectSeq(tape, LAMBDA b : b.day <= day), day)

\* The picks of the live walk taken as the bars came in, with given levels.
LivePicks(Levels(_), rule) ==
  LET Signal(i) == WalkLatestSession(SoFar(i), Levels(tape[i].day), rule)[i]
  IN  {[at |-> i, signal |-> Signal(i)] :
         i \in {j \in Edges(LAMBDA k : Signal(k) # NoSignal) : ForwardSessionBars(tape, j) # {}}}

MomentumEdges(kind) ==
  {[at |-> i, kind |-> kind] :
     i \in {j \in Edges(LAMBDA k : LiveAlert(SoFar(k))[kind]) :
              j + Horizon \in DOMAIN tape /\ Measurable(tape, j)}}

\* A replay enters exactly where the live reading of the same rule, taken as the
\* bars came in, turned true, once for each time it did, and with the trade the live
\* walk shows when it is handed the levels of the day's morning (simulate_strategy
\* and walk_latest_session, simulate_momentum_alerts and MomentumCache.refresh).
WalksAgree ==
  /\ \A rule \in Rules : SimulateStrategy(tape, rule) = LivePicks(LevelsFixed, rule)
  /\ SimulateMomentumAlerts(tape) = UNION {MomentumEdges(k) : k \in Kinds}

\* ... and when it is handed those known at the open, the night's range among them.
NightIsALevel == \A rule \in Rules : SimulateStrategy(tape, rule) = LivePicks(LevelsAtOpen, rule)

\* The scanner marks the same bars as the chart with fewer levels and no ATR, so it
\* over-flags: with the measured move on, every setup the chart draws is marked with
\* the same entry and stop; a marked setup the chart does not draw fell to the ATR or
\* to a level too near; and a level the scanner aims at is on the chart too, or one
\* that is nearer (ScannerEngine._attach_strategies, levels_for).
ScannerOverFlags ==
  \A rule \in Rules :
    LET n == Len(tape)
        row == Last(AttachStrategies(tape, rule))
        drawn == SharedFirings(tape, rule)[n]
        height == Max(HighsAt(tape, Box(tape, n, rule))) - row.stop
        Near(l) == l > row.entry /\ l - row.entry < MinTargetR * (row.entry - row.stop)
        Mark(l) == l \in MarksForSession(OneSession(tape), tape[n].day)
    IN  tape # <<>> =>
        /\ MeasuredMove /\ drawn # NoSignal => drawn = [row EXCEPT !.target = drawn.target]
        /\ row # NoSignal /\ drawn = NoSignal =>
             \/ \E l \in LevelsFor(tape) : Near(l)
             \/ rule = "opening_range" /\ Vetoed(height, DailyAtr(tape, tape[n].day))
        /\ row # NoSignal /\ drawn # NoSignal /\ Mark(row.target) => drawn.target <= row.target
=============================================================================

------------------------------ MODULE ExitRules ------------------------------
(***************************************************************************)
(* How a backtest decides where a trade got out: simulate_exit over the    *)
(* bars after its entry.  A bar says how far the price went and not in     *)
(* which order, so the reference is every tape that a bar may have been    *)
(* made of, traded by a stop and a target that rest in the market.         *)
(*                                                                         *)
(* Results are in ticks for each of Parts equal parts of the position: the *)
(* distance to the stop that makes an R of it, and the costs, are the same *)
(* for every outcome of one trade.                                         *)
(***************************************************************************)
EXTENDS Integers, Sequences, SequencesExt

CONSTANTS
  EntryPrice,      \* price of the entry
  Rules,      \* [side, trigger, risk, reward, scaleOut]
  BarPrices,  \* prices of the bars
  Parts,      \* parts of a position; scaleOut of them leave at the target
  MaxBars     \* bars from the entry to the close of the session

ASSUME ExitRulesAssumption ==
  /\ EntryPrice \in Nat /\ Parts \in Nat \ {0} /\ MaxBars \in Nat /\ BarPrices \subseteq Nat
  /\ \A rule \in Rules :
       /\ rule.side \in {"long", "short"} /\ rule.trigger \in {"touch", "close"}
       /\ rule.risk \in Nat \ {0} /\ rule.reward \in Nat \ {0}
       /\ rule.scaleOut \in 0..(Parts - 1)

VARIABLES rule, bars

exitVars == <<rule, bars>>

Bar == {b \in [open : BarPrices, high : BarPrices, low : BarPrices, close : BarPrices] :
          b.low <= b.open /\ b.open <= b.high /\ b.low <= b.close /\ b.close <= b.high}

\* Everything is compared along the trade: up is the way it hopes for.
SignOf == IF rule.side = "long" THEN 1 ELSE -1
Up(price) == SignOf * price
Adverse(b) == IF rule.side = "long" THEN b.low ELSE b.high
Favourable(b) == IF rule.side = "long" THEN b.high ELSE b.low

StopPrice == EntryPrice - SignOf * rule.risk
TargetPrice == EntryPrice + SignOf * rule.risk * rule.reward

NoTarget == -1

-----------------------------------------------------------------------------
(* The backtest.                                                           *)

Leaving(price, reason, ambiguous, i) ==
  [price |-> price, reason |-> reason, ambiguous |-> ambiguous, at |-> i]

Reaches(b, target) == target # NoTarget /\ Up(Favourable(b)) >= Up(target)
OpensBeyond(b, target) == target # NoTarget /\ Up(b.open) >= Up(target)
TargetFill(b, target) == IF OpensBeyond(b, target) THEN b.open ELSE target

\* A stop that is read at the close of a bar; the target rests in the market.
LeavesAtClose(b, stop, target, i) ==
  IF Reaches(b, target) THEN <<Leaving(TargetFill(b, target), "target", "no", i)>>
  ELSE IF Up(b.close) <= Up(stop) THEN <<Leaving(b.close, "stop", "no", i)>>
  ELSE <<>>

\* An open beyond a level decides; otherwise a bar that spans both is a stop.
LeavesOnTouch(b, stop, target, i) ==
  LET stopped == Up(Adverse(b)) <= Up(stop)
  IN  IF Up(b.open) <= Up(stop) THEN <<Leaving(b.open, "stop", "no", i)>>
      ELSE IF OpensBeyond(b, target) THEN <<Leaving(b.open, "target", "no", i)>>
      ELSE IF stopped THEN <<Leaving(stop, "stop", IF Reaches(b, target) THEN "yes" ELSE "no", i)>>
      ELSE IF Reaches(b, target) THEN <<Leaving(target, "target", "no", i)>>
      ELSE <<>>

\* _walk: the first bar from start on in which the position leaves, or the last.
Walk(start, stop, target) ==
  LET leaves(i) == IF rule.trigger = "close" THEN LeavesAtClose(bars[i], stop, target, i)
                   ELSE LeavesOnTouch(bars[i], stop, target, i)
      out == {i \in start..Len(bars) : leaves(i) # <<>>}
  IN  IF out = {} THEN Leaving(Last(bars).close, "close", "no", Len(bars))
      ELSE leaves(CHOOSE i \in out : \A j \in out : i <= j)[1]

Portion(parts, leaving) ==
  [parts |-> parts, price |-> leaving.price, reason |-> leaving.reason, ambiguous |-> leaving.ambiguous]

\* Fault: the bar that reached the target is not looked at again.
RunnerFromNextBar(target) == Walk(target.at + 1, EntryPrice, NoTarget)

\* The rest runs with its stop at the entry.  The bar that reached the target
\* may have come back through the entry before it got there, or after.
Runner(target) ==
  LET later == Walk(target.at + 1, EntryPrice, NoTarget)
  IN  IF Up(Adverse(bars[target.at])) <= Up(EntryPrice)
      THEN Leaving(EntryPrice, "breakeven", "yes", target.at)
      ELSE IF later.reason = "stop" THEN [later EXCEPT !.reason = "breakeven"]
      ELSE later

\* simulate_exit: every portion, in the order it left.
ExitLegs ==
  IF bars = <<>> THEN <<Portion(Parts, Leaving(EntryPrice, "close", "no", 0))>>
  ELSE LET first == Walk(1, StopPrice, TargetPrice)
       IN  IF first.reason # "target" \/ rule.scaleOut = 0 THEN <<Portion(Parts, first)>>
           ELSE <<Portion(rule.scaleOut, first), Portion(Parts - rule.scaleOut, Runner(first))>>

\* _compose: the portions blended into one outcome.
Gain(parts, price) == parts * SignOf * (price - EntryPrice)
Exit ==
  [gain |-> FoldLeft(LAMBDA sum, leg : sum + Gain(leg.parts, leg.price), 0, ExitLegs),
   ambiguous |-> \E i \in DOMAIN ExitLegs : ExitLegs[i].ambiguous = "yes"]

-----------------------------------------------------------------------------
(* The tape: what the orders of the rule do, print by print.               *)

\* left: the parts still held; stop, target: where they leave; gain: so far.
Opened == [left |-> Parts, stop |-> StopPrice, target |-> TargetPrice, gain |-> 0]

AllOut(t, price) == [t EXCEPT !.left = 0, !.gain = @ + Gain(t.left, price)]

AtTarget(t, price) ==
  IF rule.scaleOut = 0 THEN AllOut(t, price)
  ELSE [left |-> t.left - rule.scaleOut, stop |-> EntryPrice, target |-> NoTarget,
        gain |-> t.gain + Gain(rule.scaleOut, price)]

TargetMet(t, price) == t.left > 0 /\ t.target # NoTarget /\ Up(price) >= Up(t.target)
StopMet(t, price) == t.left > 0 /\ Up(price) <= Up(t.stop)

\* The price jumps to an open, and runs to every other print through all that
\* lies between.
Jump(t, price) ==
  IF TargetMet(t, price) THEN AtTarget(t, price)
  ELSE IF rule.trigger = "touch" /\ StopMet(t, price) THEN AllOut(t, price)
  ELSE t
Run(t, price) ==
  IF TargetMet(t, price) THEN AtTarget(t, t.target)
  ELSE IF rule.trigger = "touch" /\ StopMet(t, price) THEN AllOut(t, t.stop)
  ELSE t
ReadClose(t, price) == IF rule.trigger = "close" /\ StopMet(t, price) THEN AllOut(t, price) ELSE t

\* A bar whose high comes first, or its low.
Trade(t, b, first) ==
  LET one == IF first = "high" THEN b.high ELSE b.low
      other == IF first = "high" THEN b.low ELSE b.high
  IN  ReadClose(Run(Run(Run(Jump(t, b.open), one), other), b.close), b.close)

\* What the rule makes when the bars went this way.
TapeGain(order) ==
  LET end == FoldLeft(LAMBDA t, i : Trade(t, bars[i], order[i]), Opened, [i \in DOMAIN bars |-> i])
  IN  IF bars = <<>> THEN 0 ELSE AllOut(end, Last(bars).close).gain
Tapes == [DOMAIN bars -> {"high", "low"}]

-----------------------------------------------------------------------------
ExitInit == rule \in Rules /\ bars = <<>>

NextBar ==
  /\ Len(bars) < MaxBars
  /\ \E b \in Bar : bars' = Append(bars, b)
  /\ UNCHANGED rule

ExitNext == NextBar

ExitSpec == ExitInit /\ [][ExitNext]_exitVars

-----------------------------------------------------------------------------
(* Correctness.                                                            *)

\* The outcome is what every tape of these bars makes, for either side, gaps and
\* portions included, unless it is marked ambiguous; then the assumption about
\* a bar that spans stop and target is made in the pessimistic direction, and
\* no tape makes less.  A runner is excepted from the last: it is taken out at
\* the entry by the bar that reached the target, and may lose more on a tape
\* that lets it live, in a gap through the entry or at a close beyond it.
OutcomeIsTheTapes ==
  \A order \in Tapes :
    \/ Exit.gain = TapeGain(order)
    \/ Exit.ambiguous /\ (rule.scaleOut = 0 => Exit.gain <= TapeGain(order))
=============================================================================

---------------------------- MODULE MCSignalWalks ----------------------------
(* Two days whose hours may leave a level, the second with a premarket and a  *)
(* bar at its close, and a third with a premarket and a whole session.        *)
EXTENDS SignalWalks, TLC

Bar(low, high, close, paid, green) ==
  [low |-> low, high |-> high, close |-> close, paid |-> paid, green |-> green]
Base == Bar(1, 2, 1, 1, FALSE)      \* a red bar
Break == Bar(2, 3, 3, 2, TRUE)      \* ... broken by a step, at its high
Jump == Bar(3, 5, 4, 3, TRUE)       \* ... and by two, off its high
Peak == Bar(8, 9, 9, 8, TRUE)
Night == Bar(10, 10, 10, 10, FALSE)

MayPrint ==
  {<<1, 2, {Base, Peak}>>, <<1, 3, {Base}>>, <<2, 1, {Base, Peak}>>, <<2, 6, {Base, Break}>>,
   <<3, 1, {Base, Jump, Night}>>, <<3, 2, {Base, Break, Jump}>>, <<3, 3, {Base, Break, Jump}>>,
   <<3, 4, {Break}>>, <<3, 5, {Base}>>}
MCPrints == UNION {{[day |-> m[1], slot |-> m[2]] @@ v : v \in m[3]} : m \in MayPrint}

\* No curve, and one that rises over the day; a symbol that passes and one that does
\* not.
MCAsides ==
  {[curve |-> <<>>, passes |-> FALSE],
   [curve |-> [s \in {2, 3, 4} |-> 300 * (s - 1)], passes |-> TRUE]}
=============================================================================

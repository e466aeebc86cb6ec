-------------------------- MODULE MCSimBrokerTasks --------------------------
(***************************************************************************)
(* Model-checking instances of SimBrokerTasks.                             *)
(***************************************************************************)
EXTENDS SimBrokerTasks

CONSTANTS t1, t2, loop, request

TwoTickets == {t1, t2}
TwoTicketSymmetry == Permutations(TwoTickets)
MCPrices == 1..3

Order(side, type, qty, lim, trig, tp, sl) ==
  [side |-> side, type |-> type, qty |-> qty, limit |-> lim, stop |-> trig,
   takeProfit |-> tp, stopLoss |-> sl]

\* A bracket whose limit entry rests or fills on arrival.
Brackets == {Order("buy", "limit", 1, 2, 0, 3, 1)}

\* ... and a market sell of more than the bracket holds.
BracketAndShort == Brackets \cup {Order("sell", "market", 2, 0, 0, 0, 0)}

\* A stop entry with a stop behind it: it never fills as it is submitted.
StopBrackets == {Order("buy", "stop", 1, 0, 2, 3, 1)}

\* A limit at the top of the market's range: always marketable.
MarketableLimit == {Order("buy", "limit", 1, 3, 0, 0, 0)}

\* One task at a time, running every handler but the re-pricing ones.
OneTask == {request}
EveryRequest == [k \in OneTask |-> {"submit", "poll", "cancel", "close"}]

\* The fill loop beside one request of the user, of one kind.
LoopAndRequest == {loop, request}
PollWith(kinds) == [k \in LoopAndRequest |-> IF k = loop THEN {"poll"} ELSE kinds]
PollAndSubmit == PollWith({"submit"})
PollAndReplace == PollWith({"submit", "replace"})

\* The invariants do not read the remembered tables.
WithoutSaved == <<tables, task, crashes, applied>>
=============================================================================

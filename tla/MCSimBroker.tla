---------------------------- MODULE MCSimBroker -----------------------------
(***************************************************************************)
(* Model-checking instance of SimBroker: a bracket, a sell that may exceed *)
(* the position and a short stop-limit behind a stop, over submissions and *)
(* closes that share two tickets.                                          *)
(***************************************************************************)
EXTENDS SimBroker

CONSTANTS t1, t2

TwoTickets == {t1, t2}
TwoTicketSymmetry == Permutations(TwoTickets)
MCPrices == 1..3

Order(side, type, qty, lim, trig, tp, sl) ==
  [side |-> side, type |-> type, qty |-> qty, limit |-> lim, stop |-> trig,
   takeProfit |-> tp, stopLoss |-> sl]

MCSubmissions ==
  {Order("buy", "limit", 1, 2, 0, 3, 1), Order("sell", "market", 2, 0, 0, 0, 0),
   Order("sell", "stop_limit", 1, 1, 2, 0, 3)}
=============================================================================

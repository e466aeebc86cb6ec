----------------------------- MODULE MCLiveClose -----------------------------
(* A bracketed long, one with a stop and an order that adds to it, one with    *)
(* two stops, one partly covered, and a short.                                *)
EXTENDS LiveClose, TLC

Resting(id, group, side, kind, qty, status) ==
  [id |-> id, group |-> group, side |-> side, kind |-> kind, qty |-> qty, status |-> status]

MCAccounts ==
  {[held |-> 3, book |-> {Resting(1, 1, "sell", "limit", 3, "new"), Resting(2, 1, "sell", "stop", 3, "held")}],
   [held |-> 2, book |-> {Resting(1, 1, "sell", "stop", 2, "new"), Resting(2, 2, "buy", "stop", 1, "new")}],
   [held |-> 3, book |-> {Resting(1, 1, "sell", "stop", 1, "new"), Resting(2, 2, "sell", "stop", 2, "new")}],
   [held |-> 3, book |-> {Resting(1, 1, "sell", "stop", 1, "new"), Resting(2, 2, "sell", "limit", 1, "new")}],
   [held |-> -3, book |-> {Resting(1, 1, "buy", "stop", 3, "new")}]}
\* Which request is which does not matter.
CloseSymmetry == Permutations(Closes)
=============================================================================

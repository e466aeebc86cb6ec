--------------------------- MODULE MCSpreadTickets ---------------------------
(* Even and uneven wings, doubled bodies, and contracts that expire later.    *)
EXTENDS SpreadTickets

MCLegs ==
  [kind : {"call", "put"}, strike : {2, 4, 7}, side : {"buy", "sell"}, ratio : {1}, expiry : {1}]
    \cup [kind : {"call", "put"}, strike : {4}, side : {"sell"}, ratio : {2}, expiry : {1}]
    \cup {Leg("call", 6, "buy", 1, 1), Leg("call", 4, "buy", 1, 2),
          Leg("call", 7, "sell", 1, 2), Leg("put", 2, "buy", 1, 2)}

\* Nothing, every strike and what lies beyond the last.
MCSettlements == 0..11
=============================================================================

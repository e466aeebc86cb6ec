--------------------------- MODULE MCOptionsBook ----------------------------
(***************************************************************************)
(* Model-checking instance of OptionsBook: a cash-secured put, a call that *)
(* shares or the later call cover, and that later call, on contracts of    *)
(* two shares.                                                             *)
(***************************************************************************)
EXTENDS OptionsBook

Put == [kind |-> "put", strike |-> 3, expiry |-> 1]
Near == [kind |-> "call", strike |-> 1, expiry |-> 1]
Far == [kind |-> "call", strike |-> 1, expiry |-> 2]

MCContracts == {Put, Near, Far}
MCSpots == {2, 3}
MCNets == {0, 1}
MCLimits == {0}

Trade(c, n) == [d \in MCContracts |-> IF d = c THEN n ELSE 0]

MCTickets ==
  {[legs |-> Trade(Put, -1), strategy |-> "cash_secured_put"],
   [legs |-> Trade(Near, -1), strategy |-> "covered_call"],
   [legs |-> Trade(Far, 1), strategy |-> "other"]}
MCShareCounts == {0, 3}

\* The states without what no step reads: which packages came first, and the rows
\* of those that are done, but their number.
LiveBook ==
  LET working == {orders[i] : i \in WorkingPackages}
  IN  <<held, Len(orders),
        [p \in working |-> Cardinality({i \in WorkingPackages : orders[i] = p})],
        shares, cash, spot, day, settling, trades>>
=============================================================================

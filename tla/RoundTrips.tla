----------------------------- MODULE RoundTrips -----------------------------
(***************************************************************************)
(* Two computations of a trade's profit, fed the same fills of one symbol. *)
(*                                                                         *)
(* app.trading.trades.round_trips pairs them after the fact (FillPairing). *)
(* app.trading.sim.broker keeps one position row and applies each fill to  *)
(* it the moment it happens (SimFill).  log is the fills so far; position  *)
(* and trades are what the simulator has written.                          *)
(***************************************************************************)
EXTENDS FillPairing

CONSTANTS
  MaxQty,         \* bound: shares of a fill
  FillPrices      \* prices a fill may have

ASSUME BoundsAssumption == MaxQty \in Nat \ {0}
ASSUME FillPricesAssumption == FillPrices \subseteq Nat \ {0}

VARIABLES log, position, trades

tripVars == <<log, position, trades>>

Fill == [order : 1..MaxFills, side : {"buy", "sell"}, qty : 1..MaxQty, price : FillPrices]

-----------------------------------------------------------------------------
(* broker.py: one position row, its average taken over the shares it holds.*)

OpenFresh(f, qty) ==
  [side |-> Opens(f), qty |-> qty, avg |-> Ratio(f.price, 1), entry |-> f.order,
   exitQty |-> 0, exitValue |-> 0, exits |-> {}, fills |-> 1]

AddTo(pos, f) ==
  [pos EXCEPT !.qty = @ + f.qty,
              !.avg = Ratio(@.num * pos.qty + f.price * f.qty * @.den,
                            @.den * (pos.qty + f.qty))]

Reduce(pos, f, qty) ==
  [pos EXCEPT !.qty = @ - qty, !.exitQty = @ + qty, !.exitValue = @ + qty * f.price,
              !.exits = @ \cup {f.order}, !.fills = @ + 1]

TradeRow(pos) ==
  [id |-> <<pos.entry, 0>>, side |-> pos.side, qty |-> pos.exitQty,
   entryAvg |-> pos.avg, exitAvg |-> Ratio(pos.exitValue, pos.exitQty),
   pnl |-> Ratio(Sign(pos.side) *
                   (pos.exitValue * pos.avg.den - pos.avg.num * pos.exitQty),
                 pos.avg.den),
   exits |-> pos.exits, fills |-> pos.fills]

\* Fault: the excess of a flip is dropped.
SimFillNoFlip(pos, f) ==
  LET take == Least(f.qty, pos.qty)
      after == Reduce(pos, f, take)
  IN  IF pos = Flat THEN <<OpenFresh(f, f.qty), <<>> >>
      ELSE IF Opens(f) = pos.side THEN <<AddTo(pos, f), <<>> >>
      ELSE IF after.qty > 0 THEN <<after, <<>> >>
      ELSE <<Flat, <<TradeRow(after)>> >>

\* The position after one fill and the trade rows it adds (none or one).
SimFill(pos, f) ==
  LET take == Least(f.qty, pos.qty)
      after == Reduce(pos, f, take)
      rest == f.qty - take
  IN  IF pos = Flat THEN <<OpenFresh(f, f.qty), <<>> >>
      ELSE IF Opens(f) = pos.side THEN <<AddTo(pos, f), <<>> >>
      ELSE IF after.qty > 0 THEN <<after, <<>> >>
      ELSE <<IF rest > 0 THEN OpenFresh(f, rest) ELSE Flat, <<TradeRow(after)>> >>

-----------------------------------------------------------------------------

TripsInit == log = <<>> /\ position = Flat /\ trades = <<>>

\* An order has one side and may fill in several parts, in any order with the
\* fills of other orders.
FillOrder(f) ==
  /\ Len(log) < MaxFills
  /\ \A i \in DOMAIN log : log[i].order = f.order => log[i].side = f.side
  /\ f.order <= 1 + Cardinality({log[i].order : i \in DOMAIN log})
  /\ log' = Append(log, f)
  /\ position' = SimFill(position, f)[1]
  /\ trades' = trades \o SimFill(position, f)[2]

TripsNext == \E f \in Fill : FillOrder(f)

TripsSpec == TripsInit /\ [][TripsNext]_tripVars

-----------------------------------------------------------------------------
(* Correctness.                                                            *)

Signed(f) == IF f.side = "buy" THEN f.qty ELSE -f.qty
NetShares == FoldLeft(LAMBDA n, f : n + Signed(f), 0, log)
NetCash == FoldLeft(LAMBDA n, f : n - Signed(f) * f.price, 0, log)
Boundary(t) == [id |-> t.id, side |-> t.side, qty |-> t.qty, exitAvg |-> t.exitAvg, exits |-> t.exits]
Boundaries(ts) == [i \in DOMAIN ts |-> Boundary(ts[i])]
SumRatios(ts) ==
  FoldLeft(LAMBDA r, t : Ratio(r.num * t.pnl.den + t.pnl.num * r.den, r.den * t.pnl.den),
           Ratio(0, 1), ts)

\* When the account is flat, the profits of the round trips paired from the
\* fills add up to exactly the cash the fills moved, and what is still open is
\* at all times the net of the fills: no fill is counted twice or dropped,
\* whatever was added, reduced or flipped on the way.  No two round trips get
\* the same id, even when an order that flipped the position fills again later
\* and opens a second one.
TripsAccountForCash ==
  LET trips == TripsOf(log)
  IN  /\ StillOpen(log) = NetShares
      /\ NetShares = 0 => SumRatios(trips) = Ratio(NetCash, 1)
      /\ \A i, j \in DOMAIN trips : trips[i].id = trips[j].id => i = j

\* Every order so far filled once: the simulator's orders always fill in full.
FilledInFull == \A i, j \in DOMAIN log : log[i].order = log[j].order => i = j

\* A reload: the position is added to after part of it was sold.  (When every
\* order fills once, in full, order n is the n-th fill of the log.)
Reloads(trip) ==
  \E first, last \in trip.exits : \E i \in first..last : Opens(log[i]) = trip.side

\* Applying fills one at a time cuts the log into the same round trips as
\* walking it afterwards: same openers, sides, sizes, exits and open position;
\* and a trip that was never reloaded reports the same entry average and the
\* same profit from either computation.
SimCutsTheSameTrips ==
  LET trips == TripsOf(log)
  IN  FilledInFull =>
        /\ Boundaries(trades) = Boundaries(trips)
        /\ NetShares = IF position = Flat THEN 0 ELSE Sign(position.side) * position.qty
        /\ \A i \in DOMAIN trades :
             ~Reloads(trades[i]) => /\ trades[i].pnl = trips[i].pnl
                                    /\ trades[i].entryAvg = trips[i].entryAvg
=============================================================================

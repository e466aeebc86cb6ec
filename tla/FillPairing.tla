---------------------------- MODULE FillPairing -----------------------------
(***************************************************************************)
(* app.trading.trades.round_trips: the fills of one symbol, walked after   *)
(* the fact and paired into round trips (TripsOf).  Averages are           *)
(* fractions, so that no rounding hides a difference: the code's floats    *)
(* stand for these values.                                                 *)
(***************************************************************************)
EXTENDS Integers, Sequences, FiniteSets, SequencesExt

CONSTANT MaxFills  \* bound: fills, and the orders they are of

ASSUME PairingAssumption == MaxFills \in Nat

Flat == [side |-> "flat"]
Sign(side) == IF side = "long" THEN 1 ELSE -1
Least(m, n) == IF m <= n THEN m ELSE n

\* The fraction n / d in lowest terms, d > 0.
Ratio(n, d) ==
  LET m == IF n < 0 THEN -n ELSE n
      g == CHOOSE k \in 1..d : /\ d % k = 0 /\ m % k = 0
                               /\ \A j \in (k + 1)..d : d % j # 0 \/ m % j # 0
  IN  [num |-> n \div g, den |-> d \div g]

Opens(f) == IF f.side = "buy" THEN "long" ELSE "short"

\* Fault: every trip an order opens is its first.
OpenTripNoLeg(f, qty, leg) ==
  [side |-> Opens(f), entry |-> f.order, leg |-> 0, entryQty |-> qty,
   entryValue |-> qty * f.price, exitQty |-> 0, exitValue |-> 0, exits |-> {}, fills |-> 1]

OpenTrip(f, qty, leg) ==
  [side |-> Opens(f), entry |-> f.order, leg |-> leg, entryQty |-> qty,
   entryValue |-> qty * f.price, exitQty |-> 0, exitValue |-> 0, exits |-> {}, fills |-> 1]

AddEntry(trip, f) ==
  [trip EXCEPT !.entryQty = @ + f.qty, !.entryValue = @ + f.qty * f.price, !.fills = @ + 1]

AddExit(trip, f, qty) ==
  [trip EXCEPT !.exitQty = @ + qty, !.exitValue = @ + qty * f.price,
               !.exits = @ \cup {f.order}, !.fills = @ + 1]

OpenQty(trip) == trip.entryQty - trip.exitQty

Finish(trip) ==
  LET qty == trip.entryQty
  IN  [id |-> <<trip.entry, trip.leg>>, side |-> trip.side, qty |-> qty,
       entryAvg |-> Ratio(trip.entryValue, qty),
       exitAvg |-> Ratio(trip.exitValue, trip.exitQty),
       \* (exit average - entry average) x qty x direction
       pnl |-> Ratio(Sign(trip.side) *
                       (trip.exitValue * qty - trip.entryValue * trip.exitQty),
                     trip.exitQty),
       exits |-> trip.exits, fills |-> trip.fills]

\* Walking one fill: s is the trip that is open, the trips closed so far and,
\* by order, how many trips it has opened.
WalkFill(s, f) ==
  LET fresh(qty) == OpenTrip(f, qty, s.legs[f.order])
      opened == [s.legs EXCEPT ![f.order] = @ + 1]
      take == Least(f.qty, OpenQty(s.current))
      after == AddExit(s.current, f, take)
      rest == f.qty - take
  IN  IF s.current = Flat
      THEN [s EXCEPT !.current = fresh(f.qty), !.legs = opened]
      ELSE IF Opens(f) = s.current.side
      THEN [s EXCEPT !.current = AddEntry(@, f)]
      ELSE IF OpenQty(after) > 0
      THEN [s EXCEPT !.current = after]
      ELSE [current |-> IF rest > 0 THEN fresh(rest) ELSE Flat,
            closed |-> Append(s.closed, Finish(after)),
            legs |-> IF rest > 0 THEN opened ELSE s.legs]

Walked(fills) ==
  FoldLeft(WalkFill, [current |-> Flat, closed |-> <<>>, legs |-> [o \in 1..MaxFills |-> 0]], fills)

TripsOf(fills) == Walked(fills).closed
StillOpen(fills) ==
  LET trip == Walked(fills).current
  IN  IF trip = Flat THEN 0 ELSE Sign(trip.side) * OpenQty(trip)
=============================================================================

----------------------------- MODULE SimBroker ------------------------------
(***************************************************************************)
(* app.trading.sim.broker.SimBroker with the account behind it: the order  *)
(* table of SimOrderBook and, moved by every fill, the position row, the   *)
(* recorded round trips and the cash of one user in one symbol.  Each      *)
(* handler runs from start to end; SimBrokerTasks is the same code split   *)
(* at its awaits.                                                          *)
(*                                                                         *)
(* A position row is its signed share count and the order that opened it.  *)
(* Its average price and its exit tallies only matter to the profit a      *)
(* round trip reports: they are modelled in RoundTrips.                  *)
(***************************************************************************)
EXTENDS SimOrderBook, SequencesExt

CONSTANTS
  NoOrder,        \* no order: the opener of a flat position
  StartingCash,   \* trading_sim_starting_cash
  Margin          \* trading_sim_margin_multiplier

ASSUME NoOrderAssumption == NoOrder \notin Orders
ASSUME StartingCashAssumption == StartingCash \in Nat
ASSUME MarginAssumption == Margin \in Nat \ {0}

VARIABLE account

vars == <<bookVars, account>>

EmptyAccount ==
  [shares |-> 0, opener |-> NoOrder, trades |-> {}, cash |-> StartingCash]

SignedQty(side, q) == IF side = "buy" THEN q ELSE -q
OppositeSigns(m, n) == (m > 0 /\ n < 0) \/ (m < 0 /\ n > 0)
Magnitude(n) == IF n < 0 THEN -n ELSE n

\* Fault: the position row outlives its last share.
ApplyFillKeepingRow(a, o, delta, price) ==
  LET after == a.shares + delta
      ended == a.shares # 0 /\ (after = 0 \/ OppositeSigns(a.shares, after))
  IN  [shares |-> after, opener |-> IF a.shares = 0 \/ ended THEN o ELSE a.opener,
       trades |-> IF ended THEN a.trades \cup {a.opener} ELSE a.trades,
       cash |-> a.cash - delta * price]

\* One fill on the account: it opens, adds to, reduces, closes or flips the
\* position; a position that comes back to flat is recorded as a trade named
\* after its opener, and the excess of a flip opens a fresh one.
ApplyFill(a, o, delta, price) ==
  LET after == a.shares + delta
      ended == a.shares # 0 /\ (after = 0 \/ OppositeSigns(a.shares, after))
  IN  [shares |-> after,
       opener |-> IF after = 0 THEN NoOrder
                  ELSE IF a.shares = 0 \/ ended THEN o ELSE a.opener,
       trades |-> IF ended THEN a.trades \cup {a.opener} ELSE a.trades,
       cash |-> a.cash - delta * price]

\* Fault: the ticket's own stop price is taken for the one a replace has moved.
ApplyOrderTicketPrice(a, o) ==
  ApplyFill(a, o, SignedQty(Side(o), ticket[o[1]].qty),
            IF o[2] = "stop_loss" THEN ticket[o[1]].stopLoss ELSE TriggerPrice(o))

\* A resting order's fill, at its own trigger.
ApplyOrder(a, o) ==
  ApplyFill(a, o, SignedQty(Side(o), ticket[o[1]].qty), TriggerPrice(o))

\* The bound of the model: no position beyond MaxShares.
Bounded(a) == a.shares \in -MaxShares..MaxShares

-----------------------------------------------------------------------------

BuyingPower == Margin * (IF account.cash > 0 THEN account.cash ELSE 0)

Affordable(r, p) == r.qty * WrittenPrice(r, p) <= BuyingPower

Submit(t, r, p) ==
  /\ Affordable(r, p)
  /\ \/ /\ SubmitResting(t, r, p)
        /\ UNCHANGED account
     \/ /\ SubmitFilled(t, r, p)
        /\ account' = ApplyFill(account, Entry(t), SignedQty(r.side, r.qty), p)
        /\ Bounded(account')

\* One pass of the fill loop: the fills land on the account one after the
\* other, in whatever order the query returned the rows.
Poll(p, F) ==
  /\ CheckFills(p, F)
  /\ \E rows \in SetToSeqs(F) : account' = FoldLeft(ApplyOrder, account, rows)
  /\ Bounded(account')

CancelOrder(o) == Cancel(o) /\ UNCHANGED account

ReplacePrice(o, x, p) ==
  /\ ReplaceStop(o, x, p) \/ ReplaceTarget(o, x, p) \/ ReplaceLimit(o, x)
  /\ UNCHANGED account

\* Closing q shares, the whole position when it holds no more than that.
Close(t, q, p) ==
  LET held == Magnitude(account.shares)
      side == IF account.shares > 0 THEN "sell" ELSE "buy"
      closing == IF q >= held THEN held ELSE q
  IN  /\ account.shares # 0
      /\ ClosePosition(t, side, closing, p)
      /\ account' = ApplyFill(account, Entry(t), SignedQty(side, closing), p)

ResetAccount == Reset /\ account' = EmptyAccount

Init == BookInit /\ account = EmptyAccount

Next ==
  \/ \E t \in Tickets, r \in Submissions, p \in Prices \cup {None} : Submit(t, r, p)
  \/ \E p \in Prices : \E F \in FillSets(p) : Poll(p, F)
  \/ \E o \in Orders : CancelOrder(o)
  \/ \E o \in Orders, x \in Prices, p \in Prices \cup {None} : ReplacePrice(o, x, p)
  \/ \E t \in Tickets, q \in Shares, p \in Prices : Close(t, q, p)
  \/ ResetAccount

Spec == Init /\ [][Next]_vars

-----------------------------------------------------------------------------
(* Correctness.                                                            *)

\* The account row, the position row and the trade rows have their columns; a
\* position row exists exactly while shares are held.
AccountTypeOK ==
  /\ account \in [shares : -MaxShares..MaxShares, opener : Orders \cup {NoOrder},
                  trades : SUBSET Orders, cash : Int]
  /\ account.opener = NoOrder <=> account.shares = 0

TypeOK == BookTypeOK /\ AccountTypeOK

FilledOrders == {o \in Orders : status[o] = "filled"}
FilledQty(o) == SignedQty(Side(o), ticket[o[1]].qty)

PositionIsFills == account.shares = SumFunction([o \in FilledOrders |-> FilledQty(o)])

\* The position is what the filled orders add up to, and the cash is the
\* starting cash less what they paid, net of what they received: the three
\* tables are written in separate statements and nothing reconciles them
\* afterwards.  A position is opened by an order that filled, and each order
\* opens at most one round trip: the id of a trade row, made from its opener,
\* is never inserted twice.
AccountIsFills ==
  /\ PositionIsFills
  /\ account.cash = StartingCash - SumFunction([o \in FilledOrders |-> FilledQty(o) * fillPrice[o]])
  /\ account.trades \subseteq FilledOrders
  /\ account.opener # NoOrder => account.opener \in FilledOrders \ account.trades
=============================================================================

---------------------------- MODULE SimOrderBook ----------------------------
(***************************************************************************)
(* The order table of Simulation Mode: one user's rows of sim_orders in    *)
(* one symbol, and what every handler of app.trading.sim.broker.SimBroker  *)
(* does to them when it runs from start to end without another task in     *)
(* between.  SimBroker adds the position, the cash and the trades to these *)
(* actions; SimBrokerTasks splits them into their database transactions.   *)
(*                                                                         *)
(* An order is named <<ticket, leg>>: a ticket is one submission, its leg  *)
(* "entry" is the order itself and the other two are the bracket children, *)
(* so parent_id and oco_group_id are functions of the name.  The market    *)
(* price is not a variable: each call reads one, and any price of Prices   *)
(* may be the one it reads.                                                *)
(***************************************************************************)
EXTENDS Integers, FiniteSets

CONSTANTS
  Tickets,      \* submissions the model makes room for (fresh uuids)
  Prices,       \* the prices the market and the orders take
  MaxShares,    \* bound: the largest share count of an order or a position
  Submissions   \* the resolved tickets that may be submitted

\* A price column that is NULL, and a reference price that is not available.
None == 0

Sides == {"buy", "sell"}
OrderTypes == {"market", "limit", "stop", "stop_limit"}
Shares == 1..MaxShares

\* A ticket as resolve_ticket hands it to the broker.
ResolvedOrder ==
  [side : Sides, type : OrderTypes, qty : Shares,
   limit : Prices \cup {None}, stop : Prices \cup {None},
   takeProfit : Prices \cup {None}, stopLoss : Prices \cup {None}]

ASSUME PricesAssumption == Prices \subseteq Nat \ {0}
ASSUME MaxSharesAssumption == MaxShares \in Nat
ASSUME SubmissionsAssumption == Submissions \subseteq ResolvedOrder

Legs == {"entry", "take_profit", "stop_loss"}
Orders == Tickets \X Legs
Statuses == {"none", "new", "held", "filled", "canceled"}
Working == {"new", "held"}

VARIABLES
  ticket,     \* ticket -> what it submitted: side, type, qty and its two exits
  status,     \* order -> its status; "none" is a row that does not exist
  limit,      \* order -> limit_price, moved by a replace
  stop,       \* order -> stop_price, moved by a replace
  fillPrice   \* order -> filled_avg_price

bookVars == <<ticket, status, limit, stop, fillPrice>>

Entry(t) == <<t, "entry">>
IsEntry(o) == o[2] = "entry"
OtherSide(s) == IF s = "buy" THEN "sell" ELSE "buy"

-----------------------------------------------------------------------------
(* Reading a row.                                                          *)

LegsOf(r) ==
  {"entry"} \cup {l \in {"take_profit"} : r.takeProfit # None}
            \cup {l \in {"stop_loss"} : r.stopLoss # None}

Side(o) == IF IsEntry(o) THEN ticket[o[1]].side ELSE OtherSide(ticket[o[1]].side)

Type(o) ==
  CASE o[2] = "entry" -> ticket[o[1]].type
    [] o[2] = "take_profit" -> "limit"
    [] o[2] = "stop_loss" -> "stop"

\* The other exit of the same oco_group_id: a group exists only when the
\* ticket carries both exits.
SiblingsIn(r, o) ==
  IF IsEntry(o) \/ r.takeProfit = None \/ r.stopLoss = None
  THEN {}
  ELSE {<<o[1], l>> : l \in {"take_profit", "stop_loss"} \ {o[2]}}

OcoSiblings(o) == SiblingsIn(ticket[o[1]], o)

Children(o) ==
  IF IsEntry(o) THEN {<<o[1], l>> : l \in {"take_profit", "stop_loss"}} ELSE {}

WorkingOrders == {o \in Orders : status[o] \in Working}

\* Whether price p has reached the trigger of resting order o.
Crosses(o, p) ==
  \/ Type(o) = "limit" /\ Side(o) = "buy" /\ p <= limit[o]
  \/ Type(o) = "limit" /\ Side(o) = "sell" /\ p >= limit[o]
  \/ Type(o) \in {"stop", "stop_limit"} /\ Side(o) = "buy" /\ p >= stop[o]
  \/ Type(o) \in {"stop", "stop_limit"} /\ Side(o) = "sell" /\ p <= stop[o]

\* A resting order fills at its own limit or trigger, not at the live price.
TriggerPrice(o) == IF Type(o) \in {"limit", "stop_limit"} THEN limit[o] ELSE stop[o]

-----------------------------------------------------------------------------
(* What a ticket must look like before it reaches the broker, p being the  *)
(* market price or None.                                                   *)

ShapeOK(r) ==
  /\ (r.limit # None) <=> r.type \in {"limit", "stop_limit"}
  /\ (r.stop # None) <=> r.type \in {"stop", "stop_limit"}
  /\ r.type = "stop_limit" =>
       IF r.side = "buy" THEN r.limit >= r.stop ELSE r.limit <= r.stop

\* A stop entry sits on the far side of the market.
TriggerSideOK(r, p) ==
  r.stop # None /\ p # None => IF r.side = "buy" THEN r.stop > p ELSE r.stop < p

\* The price the ticket is written at.
WrittenPrice(r, p) ==
  CASE r.type = "market" -> p
    [] r.type = "stop" -> r.stop
    [] r.type \in {"limit", "stop_limit"} -> r.limit

\* A limit already on the fillable side of the market.
Marketable(r, p) ==
  /\ r.type = "limit" /\ p # None
  /\ IF r.side = "buy" THEN r.limit >= p ELSE r.limit <= p

\* Filled while it is submitted.
FillsNow(r, p) == r.type = "market" \/ Marketable(r, p)

\* Where the entry will actually fill: what the exits are judged against.
ExpectedFill(r, p) == IF FillsNow(r, p) THEN p ELSE WrittenPrice(r, p)

BracketSidesOK(r, fill) ==
  /\ r.takeProfit # None =>
       IF r.side = "buy" THEN r.takeProfit > fill ELSE r.takeProfit < fill
  /\ r.stopLoss # None =>
       IF r.side = "buy" THEN r.stopLoss < fill ELSE r.stopLoss > fill

Accepted(r, p) ==
  /\ ShapeOK(r)
  /\ WrittenPrice(r, p) # None
  /\ TriggerSideOK(r, p)
  /\ BracketSidesOK(r, ExpectedFill(r, p))

-----------------------------------------------------------------------------
(* Statuses after the broker's writes.                                     *)

CancelIn(st, S) ==
  [o \in Orders |-> IF o \in S /\ st[o] \in Working THEN "canceled" ELSE st[o]]

\* Fault: the children of a filled entry are not put to work.
FillInWithoutActivation(st, F) ==
  [o \in Orders |->
     IF o \in F THEN "filled" ELSE CancelIn(st, UNION {OcoSiblings(f) : f \in F})[o]]

\* The orders of F are marked filled, their OCO siblings are canceled, and the
\* held children of their entries go live.
FillIn(st, F) ==
  [o \in Orders |->
     IF o \in F THEN "filled"
     ELSE IF st[o] = "held" /\ Entry(o[1]) \in F THEN "new"
     ELSE CancelIn(st, UNION {OcoSiblings(f) : f \in F})[o]]

\* The rows SimBroker.submit inserts for r under ticket t.
InsertIn(st, t, r) ==
  [o \in Orders |->
     IF o[1] # t \/ o[2] \notin LegsOf(r) THEN st[o]
     ELSE IF IsEntry(o) THEN "new" ELSE "held"]

LegLimit(r, l) ==
  CASE l = "entry" -> r.limit [] l = "take_profit" -> r.takeProfit [] l = "stop_loss" -> None

LegStop(r, l) ==
  CASE l = "entry" -> r.stop [] l = "take_profit" -> None [] l = "stop_loss" -> r.stopLoss

-----------------------------------------------------------------------------
(* The handlers.                                                           *)

NoTicket ==
  [side |-> "buy", type |-> "market", qty |-> 0, limit |-> None, stop |-> None,
   takeProfit |-> None, stopLoss |-> None]

BookInit ==
  /\ ticket = [t \in Tickets |-> NoTicket]
  /\ status = [o \in Orders |-> "none"]
  /\ limit = [o \in Orders |-> None]
  /\ stop = [o \in Orders |-> None]
  /\ fillPrice = [o \in Orders |-> None]

Insert(t, r) ==
  /\ status[Entry(t)] = "none"
  /\ ticket' = [ticket EXCEPT ![t] = r]
  /\ limit' = [o \in Orders |-> IF o[1] = t THEN LegLimit(r, o[2]) ELSE limit[o]]
  /\ stop' = [o \in Orders |-> IF o[1] = t THEN LegStop(r, o[2]) ELSE stop[o]]

\* A ticket that rests: the entry working, its exits held behind it.
SubmitResting(t, r, p) ==
  /\ Accepted(r, p) /\ ~FillsNow(r, p)
  /\ Insert(t, r)
  /\ status' = InsertIn(status, t, r)
  /\ UNCHANGED fillPrice

\* A ticket that fills at the reference price as it is submitted, which puts
\* its exits to work at once.
SubmitFilled(t, r, p) ==
  /\ Accepted(r, p) /\ FillsNow(r, p)
  /\ Insert(t, r)
  /\ status' = FillIn(InsertIn(status, t, r), {Entry(t)})
  /\ fillPrice' = [fillPrice EXCEPT ![Entry(t)] = p]

\* Fault: nothing skips the sibling of an exit filled in the same pass.
FillSetsWithoutSkip(p) ==
  SUBSET {o \in Orders : status[o] = "new" /\ Crosses(o, p)}

\* What one check_fills pass may fill at price p: every crossed order that was
\* live when the pass began, except that of two crossed exits of one group only
\* the one the query returned first.
FillSets(p) ==
  LET crossed == {o \in Orders : status[o] = "new" /\ Crosses(o, p)}
  IN  {F \in SUBSET crossed : \A o \in crossed : o \in F <=> OcoSiblings(o) \cap F = {}}

CheckFills(p, F) ==
  /\ F # {}
  /\ status' = FillIn(status, F)
  /\ fillPrice' = [o \in Orders |-> IF o \in F THEN TriggerPrice(o) ELSE fillPrice[o]]
  /\ UNCHANGED <<ticket, limit, stop>>

Cancel(o) ==
  /\ status[o] \in Working
  /\ status' = CancelIn(status, {o} \cup OcoSiblings(o) \cup Children(o))
  /\ UNCHANGED <<ticket, limit, stop, fillPrice>>

\* A working stop or stop-limit moves to s, on the triggerable side of p.
ReplaceStop(o, s, p) ==
  /\ status[o] \in Working
  /\ Type(o) \in {"stop", "stop_limit"}
  /\ p # None => IF Side(o) = "sell" THEN s < p ELSE s > p
  /\ stop' = [stop EXCEPT ![o] = s]
  /\ UNCHANGED <<ticket, status, limit, fillPrice>>

\* A working limit moves to l: as a take-profit, on the resting side of p ...
ReplaceTarget(o, l, p) ==
  /\ status[o] \in Working
  /\ Type(o) = "limit"
  /\ p # None => IF Side(o) = "sell" THEN l > p ELSE l < p
  /\ limit' = [limit EXCEPT ![o] = l]
  /\ UNCHANGED <<ticket, status, stop, fillPrice>>

\* Fault: a limit is moved whatever has become of its order.
ReplaceLimitAny(o, l) ==
  /\ status[o] # "none"
  /\ Type(o) \in {"limit", "stop_limit"}
  /\ limit' = [limit EXCEPT ![o] = l]
  /\ UNCHANGED <<ticket, status, stop, fillPrice>>

\* ... or as a plain limit, to any price.
ReplaceLimit(o, l) ==
  /\ status[o] \in Working
  /\ Type(o) \in {"limit", "stop_limit"}
  /\ limit' = [limit EXCEPT ![o] = l]
  /\ UNCHANGED <<ticket, status, stop, fillPrice>>

\* A close cancels every working order of the symbol and fills a fresh market
\* order of q shares at p.
MarketOrder(side, q) == [NoTicket EXCEPT !.side = side, !.qty = q]

ClosePosition(t, side, q, p) ==
  /\ Insert(t, MarketOrder(side, q))
  /\ status' = FillIn(InsertIn(CancelIn(status, WorkingOrders), t, MarketOrder(side, q)),
                      {Entry(t)})
  /\ fillPrice' = [fillPrice EXCEPT ![Entry(t)] = p]

Reset ==
  /\ ticket' = [t \in Tickets |-> NoTicket]
  /\ status' = [o \in Orders |-> "none"]
  /\ limit' = [o \in Orders |-> None]
  /\ stop' = [o \in Orders |-> None]
  /\ fillPrice' = [o \in Orders |-> None]

BookNext ==
  \/ \E t \in Tickets, r \in Submissions, p \in Prices \cup {None} :
       SubmitResting(t, r, p) \/ SubmitFilled(t, r, p)
  \/ \E p \in Prices : \E F \in FillSets(p) : CheckFills(p, F)
  \/ \E o \in Orders : Cancel(o)
  \/ \E o \in Orders, x \in Prices, p \in Prices \cup {None} :
       ReplaceStop(o, x, p) \/ ReplaceTarget(o, x, p) \/ ReplaceLimit(o, x)
  \/ \E t \in Tickets, s \in Sides, q \in Shares, p \in Prices : ClosePosition(t, s, q, p)
  \/ Reset

BookSpec == BookInit /\ [][BookNext]_bookVars

-----------------------------------------------------------------------------
(* Correctness.                                                            *)

\* Every row has its columns: the statuses the store writes, prices from the
\* tickets or a replace, a fill price exactly on filled rows.
BookTypeOK ==
  /\ ticket \in [Tickets -> ResolvedOrder \cup {NoTicket}]
  /\ status \in [Orders -> Statuses]
  /\ limit \in [Orders -> Prices \cup {None}]
  /\ stop \in [Orders -> Prices \cup {None}]
  /\ fillPrice \in [Orders -> Prices \cup {None}]

\* The exits of a ticket follow its entry: held while it works, live once it
\* has filled, gone when it is canceled.  A protective stop left "held" behind
\* a filled entry would never fire (check_fills skips it), and one left live
\* behind a canceled entry would open a position nobody asked for.
ExitsFollowEntry ==
  \A t \in Tickets : \A o \in Children(Entry(t)) :
    /\ status[Entry(t)] = "none" => status[o] = "none"
    /\ status[Entry(t)] = "new" => status[o] \in {"none", "held", "canceled"}
    /\ status[Entry(t)] = "filled" => status[o] \in {"none", "new", "filled", "canceled"}
    /\ status[Entry(t)] = "canceled" => status[o] \in {"none", "canceled"}

\* The two exits of one OCO group stand and fall together: neither works once
\* the other is filled or canceled, so at most one of them ever fills, even
\* when one price crosses both.
OcoPairStandsTogether ==
  \A o \in Orders : \A s \in OcoSiblings(o) :
    /\ status[o] \in Working <=> status[s] \in Working
    /\ ~(status[o] = "filled" /\ status[s] = "filled")

\* No order fills at a price worse than the limit it rests at, whether it was
\* marketable on arrival, crossed later, or was re-priced in between.
NeverWorseThanLimit ==
  \A o \in Orders :
    status[o] = "filled" /\ Type(o) \in {"limit", "stop_limit"} =>
      IF Side(o) = "buy" THEN fillPrice[o] <= limit[o] ELSE fillPrice[o] >= limit[o]

\* Short of a reset, a filled or canceled order is final: no cancel, replace,
\* close or later price touches its row again.
FinalOrdersStay ==
  [][ (\E o \in Orders : status'[o] # "none") =>
        \A o \in Orders : status[o] \in {"filled", "canceled"} =>
          /\ status'[o] = status[o] /\ fillPrice'[o] = fillPrice[o]
          /\ limit'[o] = limit[o] /\ stop'[o] = stop[o] ]_bookVars
=============================================================================

------------------------------ MODULE LiveClose ------------------------------
(***************************************************************************)
(* close_position of the live order service: flatten one position at the   *)
(* broker, or sell part of it and put its exits back for the rest.  The    *)
(* service keeps no state: each request is a sequence of calls, any of     *)
(* which may fail, between which orders fill, the user moves a stop and a  *)
(* second request runs.                                                    *)
(*                                                                         *)
(* The broker holds the shares of a resting exit: what would sell more     *)
(* than the shares left over is refused, and the two exits of a group hold *)
(* them once.  A market order fills at once.                               *)
(***************************************************************************)
EXTENDS Integers, FiniteSets, FiniteSetsExt, Functions

CONSTANTS
  Closes,      \* requests to close the position
  Wants,       \* quantities to ask for, All for the whole position
  All,
  Accounts,    \* [held, book] the broker may hold at the start
  MaxTroubles, \* calls that fail though the broker would accept them
  MaxMoves,    \* stops moved by the user
  MaxHeld      \* largest position

\* A resting order; group names the orders that stand and fall together, by the
\* id of an early one: exits of one position, or one order alone.  The stop of
\* a bracket waits as "held" behind its take-profit.
RestingOrder ==
  [id : Nat, group : Nat, side : {"buy", "sell"}, kind : {"stop", "limit"}, qty : Nat \ {0},
   status : {"new", "held"}]

ASSUME ClosesAssumption ==
  /\ All \notin Nat /\ Wants \subseteq (Nat \ {0}) \cup {All}
  /\ Accounts \subseteq [held : Int, book : SUBSET RestingOrder]
  /\ \A a \in Accounts :
       /\ IsFiniteSet(a.book) /\ \A o \in a.book : o.group <= o.id
       /\ \A o, x \in a.book : o.group = x.group => o.side = x.side
  /\ MaxTroubles \in Nat /\ MaxMoves \in Nat /\ MaxHeld \in Nat

VARIABLES
  atBroker,  \* held: the position; book: the working orders
  close,     \* per request, how far it is and what it has read
  nextId,    \* the next order id
  troubles, moves

closeVars == <<atBroker, close, nextId, troubles, moves>>

held == atBroker.held
book == atBroker.book
Abs(n) == IF n < 0 THEN -n ELSE n
ClosingSide(position) == IF position > 0 THEN "sell" ELSE "buy"

\* Shares that resting exits hold: once for each group.
HeldBy(orders) ==
  LET groups == {o.group : o \in orders}
  IN  SumFunctionOnSet([g \in groups |-> Max({o.qty : o \in {x \in orders : x.group = g}})], groups)
ClosingOrders == {o \in book : o.side = ClosingSide(held)}
Available == Abs(held) - HeldBy(ClosingOrders)

StopCover == HeldBy({o \in ClosingOrders : o.kind = "stop"})

\* want and qty: the quantity asked for, and what is left to sell.  alone,
\* smooth, heldBefore and coverBefore are bookkeeping of the model: whether
\* another request or an exit came between, whether every call was answered,
\* and what was held and covered by stops at the start.
NoClose ==
  [at |-> "idle", want |-> All, qty |-> All, exits |-> {}, todo |-> {}, remaining |-> 0,
   side |-> "sell", stopLost |-> "no", answer |-> "none",
   alone |-> "yes", smooth |-> "yes", heldBefore |-> 0, coverBefore |-> 0]

LiveCloseInit ==
  /\ atBroker \in Accounts
  /\ close = [r \in Closes |-> NoClose]
  /\ nextId = 1 + Max({0} \cup {o.id : o \in book})
  /\ troubles = 0 /\ moves = 0

Underway(r) == close[r].at \notin {"idle", "done"}

\* The requests under way but those of own are not alone from now on.
Disturbed(own) ==
  [r \in Closes |-> IF Underway(r) /\ r \notin own THEN [close[r] EXCEPT !.alone = "no"] ELSE close[r]]

\* Of an answered request only the answer is left.
Answered(answer) == [NoClose EXCEPT !.at = "done", !.answer = answer]

\* Request r becomes c because a call of its failed.
Trouble(r, c) ==
  /\ troubles < MaxTroubles /\ troubles' = troubles + 1
  /\ close' = [close EXCEPT ![r] = [c EXCEPT !.smooth = "no"]]

-----------------------------------------------------------------------------
(* The request.                                                            *)

Ask(r) ==
  /\ close[r].at = "idle" /\ held # 0
  /\ \E want \in Wants :
       close' = [close EXCEPT ![r] = [@ EXCEPT !.at = "list", !.want = want, !.qty = want,
                                        !.heldBefore = held, !.coverBefore = StopCover]]
  /\ UNCHANGED <<atBroker, nextId, troubles, moves>>

\* Fault: the broker's filter for open orders, which leaves out the held ones.
WorkingOfOpen(orders) == {o \in orders : o.status # "held"}

\* _working_orders_for: held ones too.
WorkingOf(orders) == {o \in orders : o.status \in {"new", "held"}}

ListOrders(r) ==
  /\ close[r].at = "list"
  /\ close' = [close EXCEPT ![r] = [@ EXCEPT !.at = "cancel", !.exits = WorkingOf(book),
                                                              !.todo = WorkingOf(book)]]
  /\ UNCHANGED <<atBroker, nextId, troubles, moves>>

\* A list that cannot be had is taken for an empty one.
ListFails(r) ==
  /\ close[r].at = "list" /\ Trouble(r, [close[r] EXCEPT !.at = "cancel"])
  /\ UNCHANGED <<atBroker, nextId, moves>>

\* Fault: the orders that add to the position are left to rest.
StillToCancelExits(c, o) == {x \in c.todo : x # o /\ x.side = ClosingSide(c.heldBefore)}
StillToCancel(c, o) == c.todo \ {o}

\* _cancel_orders: one that is gone by now, filled or replaced, is no failure.
CancelOne(r) ==
  /\ close[r].at = "cancel"
  /\ \E o \in close[r].todo :
       /\ IF o \in book
          THEN atBroker' = [atBroker EXCEPT !.book = {x \in book : x.group # o.group}]
          ELSE UNCHANGED atBroker
       /\ close' = [Disturbed(IF o \in book THEN {r} ELSE Closes)
                      EXCEPT ![r].todo = StillToCancel(close[r], o)]
  /\ UNCHANGED <<nextId, troubles, moves>>

CancelFails(r) ==
  /\ close[r].at = "cancel"
  /\ \E o \in close[r].todo :
       Trouble(r, [close[r] EXCEPT !.todo = StillToCancel(close[r], o)])
  /\ UNCHANGED <<atBroker, nextId, moves>>

\* The broker gives a short position a quantity below zero.
Sized(c, position) ==
  IF c.qty >= position
  THEN [c EXCEPT !.at = "close", !.side = ClosingSide(position), !.qty = All]
  ELSE [c EXCEPT !.at = "close", !.side = ClosingSide(position), !.remaining = position - c.qty]

ReadHeld(r) ==
  /\ close[r].at = "cancel" /\ close[r].todo = {}
  /\ close' = [close EXCEPT ![r] =
                 IF @.qty = All THEN [@ EXCEPT !.at = "close"]
                 ELSE IF held = 0 THEN Answered("rejected")
                 ELSE Sized(@, held)]
  /\ UNCHANGED <<atBroker, nextId, troubles, moves>>

\* A position that cannot be read is taken for none.
ReadHeldFails(r) ==
  /\ close[r].at = "cancel" /\ close[r].todo = {} /\ close[r].qty # All
  /\ Trouble(r, Answered("rejected"))
  /\ UNCHANGED <<atBroker, nextId, moves>>

SharesToSell(c) == IF c.qty = All THEN Abs(held) ELSE c.qty
Closable(n) == n > 0 /\ n <= Available

SendClose(r) ==
  LET c == close[r]
      n == SharesToSell(c)
  IN  /\ c.at = "close" /\ Closable(n)
      /\ atBroker' = [atBroker EXCEPT !.held = IF held > 0 THEN @ - n ELSE @ + n]
      /\ close' = [Disturbed({r}) EXCEPT ![r] =
                     IF c.qty # All /\ c.remaining > 0 THEN [c EXCEPT !.at = "rearm"]
                     ELSE Answered("closed")]
      /\ UNCHANGED <<nextId, troubles, moves>>

CloseRefused(r) ==
  /\ close[r].at = "close" /\ ~Closable(SharesToSell(close[r]))
  /\ close' = [close EXCEPT ![r] = Answered("rejected")]
  /\ UNCHANGED <<atBroker, nextId, troubles, moves>>

CloseFails(r) ==
  /\ close[r].at = "close" /\ Trouble(r, Answered("rejected"))
  /\ UNCHANGED <<atBroker, nextId, moves>>

\* Only what closes the position is put back.
ToRearm(c) == {o \in c.exits : o.side = c.side}

Stops(orders) == {o \in orders : o.kind = "stop"}

\* rearm_requests: the orders that come back for n shares, a stop, a
\* take-profit, or both as one group, on the side of the first stop listed.
Rearmed(exits, n) ==
  LET anchors == IF Stops(exits) # {} THEN Stops(exits) ELSE exits
      both == Stops(exits) \notin {{}, exits}
      kinds == {o.kind : o \in exits}
      order(kind, side) ==
        [id |-> IF kind = "stop" THEN nextId ELSE nextId + 1, group |-> nextId, side |-> side,
         kind |-> kind, qty |-> n, status |-> IF both /\ kind = "stop" THEN "held" ELSE "new"]
  IN  {{order(kind, a.side) : kind \in kinds} : a \in anchors}

\* The broker takes an order that opens, and one that closes what is not held yet.
Takes(orders, n) == held = 0 \/ n <= Available \/ \A o \in orders : o.side # ClosingSide(held)

NothingToRearm(r) ==
  /\ close[r].at = "rearm" /\ ToRearm(close[r]) = {}
  /\ close' = [close EXCEPT ![r] = Answered("closed")]
  /\ UNCHANGED <<atBroker, nextId, troubles, moves>>

Rearm(r) ==
  /\ close[r].at = "rearm"
  /\ \E orders \in Rearmed(ToRearm(close[r]), close[r].remaining) :
       /\ Takes(orders, close[r].remaining)
       /\ atBroker' = [atBroker EXCEPT !.book = @ \cup orders]
  /\ close' = [Disturbed({r}) EXCEPT ![r] = Answered("closed")]
  /\ nextId' = nextId + 2
  /\ UNCHANGED <<troubles, moves>>

\* stop_needed: there was a stop to put back.
StopLost(c) == IF Stops(ToRearm(c)) # {} THEN "yes" ELSE "no"

RearmFails(r) ==
  LET c == close[r]
      lost == [Answered("closed") EXCEPT !.stopLost = StopLost(c)]
  IN  /\ c.at = "rearm"
      /\ \E orders \in Rearmed(ToRearm(c), c.remaining) :
           \/ Trouble(r, lost)
           \/ /\ ~Takes(orders, c.remaining)
              /\ close' = [close EXCEPT ![r] = lost] /\ UNCHANGED troubles
      /\ UNCHANGED <<atBroker, nextId, moves>>

-----------------------------------------------------------------------------
(* The market, and the user at another screen.                             *)

\* An order fills; its group goes with it.
OrderFills ==
  \E o \in book :
    LET after == IF o.side = "buy" THEN held + o.qty ELSE held - o.qty
    IN  /\ Abs(after) <= MaxHeld
        /\ atBroker' = [held |-> after, book |-> {x \in book : x.group # o.group}]
        /\ close' = Disturbed(IF o.side = ClosingSide(held) THEN {} ELSE Closes)
        /\ UNCHANGED <<nextId, troubles, moves>>

\* replace_stop: the broker keeps the order under another id.
MoveStop ==
  /\ moves < MaxMoves /\ moves' = moves + 1
  /\ \E o \in Stops(book) :
       atBroker' = [atBroker EXCEPT !.book = (@ \ {o}) \cup {[o EXCEPT !.id = nextId]}]
  /\ nextId' = nextId + 1
  /\ UNCHANGED <<close, troubles>>

LiveCloseNext ==
  \/ \E r \in Closes :
       \/ Ask(r) \/ ListOrders(r) \/ ListFails(r) \/ CancelOne(r) \/ CancelFails(r)
       \/ ReadHeld(r) \/ ReadHeldFails(r) \/ SendClose(r) \/ CloseRefused(r) \/ CloseFails(r)
       \/ NothingToRearm(r) \/ Rearm(r) \/ RearmFails(r)
  \/ OrderFills
  \/ MoveStop

LiveCloseSpec == LiveCloseInit /\ [][LiveCloseNext]_closeVars

-----------------------------------------------------------------------------
(* Correctness.                                                            *)

\* Request r is answered in this step, with the position closed as asked and
\* neither another request nor an exit between its calls.
ClosesAlone(r) ==
  close[r].at # "done" /\ close'[r].answer = "closed" /\ close[r].alone = "yes"

\* A part of the position is sold and stop_lost is not set: the stops cover as
\* much as they did, or all that the sale left, whichever calls failed and
\* whatever was added or moved meanwhile (close_position, _rearm_exits).
StopLossIsTold ==
  [][\A r \in Closes :
       ClosesAlone(r) /\ close'[r].stopLost = "no"
         => StopCover' >= close[r].coverBefore \/ StopCover' >= close[r].remaining]_closeVars

\* The whole position is closed, every call was answered and no stop moved to
\* another id: nothing is held and nothing rests, though orders that add to the
\* position filled on the way.
FlatMeansFlat ==
  [][\A r \in Closes :
       ClosesAlone(r) /\ close[r].want = All /\ close[r].smooth = "yes" /\ moves = 0
         => held' = 0 /\ book' = {}]_closeVars
=============================================================================

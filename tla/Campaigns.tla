----------------------------- MODULE Campaigns -----------------------------
(***************************************************************************)
(* One playbook campaign of the simulated account: its row and its events, *)
(* the passes that bring it up to date, and the account's option book as   *)
(* the passes see it.                                                      *)
(*                                                                         *)
(* A pass is one run of PlaybookRunner.run_one: by the loop at each tick,  *)
(* or by a request that asks for the next step. It reads the row and the   *)
(* closed orders, turns those it has not seen into events, saves the       *)
(* numbers, asks the playbook for its next step and, with the switch on,   *)
(* places it. Nothing keeps two passes apart, and each action here is one  *)
(* transaction on the store or one call of the options service. A restart  *)
(* ends every pass where it is. An order is stamped with the moment its    *)
(* handler was called with, which may be long past when it is committed.   *)
(* Which strike a step names, and whether the chain, the calendar and the  *)
(* cash let it be taken, is left open; events that carry no order (notes,  *)
(* shares moved by hand, failures) are left out.                           *)
(***************************************************************************)
EXTENDS Integers, Sequences, FiniteSets, Bags, SequencesExt

CONSTANTS
  Passes,          \* the callers of run_one: "loop", "request"
  Playbook,        \* "wheel" or "poor_mans_wheel"
  StrikesOnOffer,  \* strikes a step may name
  HandTrades,      \* strategies of orders that are not the campaign's own
  BookAtStart,     \* what was held before the campaign was started
  StatusesTried,   \* bound: statuses the user sets
  EarliestNow,     \* bound: the earliest moment a pass of the service was called with
  MaxOrders,       \* bound: orders of the account
  MaxSwitches,     \* bound: times the user sets the switch
  MaxPassRestarts  \* bound: restarts of the process

ASSUME CampaignBounds ==
  /\ Passes \subseteq {"loop", "request"}
  /\ Playbook \in {"wheel", "poor_mans_wheel"}
  /\ StatusesTried \subseteq {"active", "paused", "closed"}
  /\ StrikesOnOffer \subseteq Nat /\ EarliestNow \in Nat
  /\ MaxOrders \in Nat /\ MaxSwitches \in Nat /\ MaxPassRestarts \in Nat

VARIABLES
  clock,     \* the moment of the account's prices
  orders,    \* the orders of the account as they were placed: [strategy, status, stamp];
             \* history: late, for one stamped no later than what was there before it
  book,      \* contracts held short and long, and lots of a hundred shares
  campaign,  \* the row
  events,    \* the bag of its events about orders: [kind, order, cash]
  pass,      \* pass -> its locals
  placed,    \* history: the last step placed, how often in a row, and how often a
             \* placing was torn: by a restart, or by another pass before its mark
  switches,  \* times the switch was set so far
  passRestarts

campaignVars == <<clock, orders, book, campaign, events, pass, placed, switches, passRestarts>>

Strategies ==
  {"cash_secured_put", "covered_call", "long_call", "close_put", "close_call", "close_long",
   "close_both", "roll", "roll_long", "expire_put", "expire_call", "assigned", "called_away",
   "cash_settled_call", "cash_settled_long", "spread"}
ASSUME HandTradesAssumption == HandTrades \subseteq Strategies

Book == [puts : Nat, calls : Nat, longs : Nat, lots : Nat]
ASSUME BookAssumption == BookAtStart \in Book

EventKinds ==
  {"sold_put", "sold_call", "bought_call", "closed", "sold_long", "rolled", "expired",
   "cash_settled", "assigned", "called_away", "manual_note", "executed"}
CampaignPhases == {"cash", "short_put", "covered_call", "assigned", "mixed", "long_call", "diagonal"}

Hold == [kind |-> "hold", strike |-> 0]
Steps ==
  {Hold} \cup [kind : {"sell_put", "sell_call", "buy_call", "roll", "roll_long", "close_call", "close_both"},
               strike : Nat]

-----------------------------------------------------------------------------
(* Operators of the code.                                                  *)

\* What one closed order stands for: order_events, by its strategy. Legs that
\* close together, and the two halves of a long roll, are an event each; what
\* the playbook did not ask for is a note. The rows the service hands out keep
\* no intent for a single leg: a long call closed or settled alone reads as a
\* short one.
EventsOf(strategy) ==
  LET one(kind, cash) == <<[kind |-> kind, cash |-> cash]>> IN
  CASE strategy = "cash_secured_put" -> one("sold_put", 2)
    [] strategy = "covered_call" -> one("sold_call", 2)
    [] strategy = "long_call" -> one("bought_call", -3)
    [] strategy \in {"close_put", "close_call"} -> one("closed", -1)
    [] strategy = "close_long" -> one("closed", 3)
    [] strategy = "close_both" -> one("closed", -1) \o one("sold_long", 3)
    [] strategy = "roll" -> one("rolled", 1)
    [] strategy = "roll_long" -> one("sold_long", 3) \o one("bought_call", -3)
    [] strategy \in {"expire_put", "expire_call"} -> one("expired", 0)
    [] strategy = "cash_settled_call" -> one("cash_settled", -1)
    [] strategy = "cash_settled_long" -> one("cash_settled", 3)
    [] strategy \in {"assigned", "called_away"} -> one(strategy, 0)
    [] OTHER -> one("manual_note", 0)

\* The short side: snapshot.OPTION_EVENTS; and what it comes to.
PremiumKinds ==
  {"sold_put", "sold_call", "closed", "rolled", "expired", "cash_settled", "assigned", "called_away"}
Premium(e) == IF e.kind \in PremiumKinds THEN e.cash ELSE 0
Collected == SumFunction([e \in DOMAIN events |-> events[e] * Premium(e)])

\* snapshot.phase_of.
PhaseOf(b) ==
  CASE b.puts > 0 /\ b.calls > 0 -> "mixed"
    [] b.puts > 0 /\ b.calls = 0 -> "short_put"
    [] b.puts = 0 /\ b.longs > 0 -> IF b.calls > 0 THEN "diagonal" ELSE "long_call"
    [] b.puts = 0 /\ b.longs = 0 /\ b.calls > 0 -> "covered_call"
    [] OTHER -> IF b.lots > 0 THEN "assigned" ELSE "cash"

\* The steps next_step may answer with, of the kinds the book calls for: the
\* short leg when it is due, else what is missing; or to hold.
Named(kinds) == {[kind |-> k, strike |-> s] : k \in kinds, s \in StrikesOnOffer}

WheelSteps(b) == Named(
  (IF b.puts + b.calls > 0 THEN {"roll"} ELSE {})
    \cup (IF b.lots = 0 /\ b.puts = 0 THEN {"sell_put"} ELSE {})
    \cup (IF b.lots > 0 /\ b.calls = 0 THEN {"sell_call"} ELSE {}))

PoorMansSteps(b) == Named(
  (IF b.calls > 0 THEN {"roll", "close_call"} ELSE {})
    \cup (IF b.calls > 0 /\ b.longs > 0 THEN {"close_both"} ELSE {})
    \cup (IF b.longs > 0 THEN {"roll_long"} ELSE {})
    \cup (IF b.lots = 0 /\ b.longs = 0 THEN {"buy_call"} ELSE {})
    \cup (IF b.lots + b.longs > 0 /\ b.calls = 0 THEN {"sell_call"} ELSE {}))

NextSteps(b) == {Hold} \cup (IF Playbook = "wheel" THEN WheelSteps(b) ELSE PoorMansSteps(b))

\* The order a step becomes: actions.render and maybe_execute.
OrderOf(kind) ==
  CASE kind = "sell_put" -> "cash_secured_put"
    [] kind = "sell_call" -> "covered_call"
    [] kind = "buy_call" -> "long_call"
    [] OTHER -> kind

\* What an order that is done does to the book.
Effect(strategy) ==
  LET none == [puts |-> 0, calls |-> 0, longs |-> 0, lots |-> 0] IN
  CASE strategy = "cash_secured_put" -> [none EXCEPT !.puts = 1]
    [] strategy = "covered_call" -> [none EXCEPT !.calls = 1]
    [] strategy = "long_call" -> [none EXCEPT !.longs = 1]
    [] strategy \in {"close_put", "expire_put"} -> [none EXCEPT !.puts = -1]
    [] strategy \in {"close_call", "expire_call", "cash_settled_call"} -> [none EXCEPT !.calls = -1]
    [] strategy \in {"close_long", "cash_settled_long"} -> [none EXCEPT !.longs = -1]
    [] strategy = "close_both" -> [none EXCEPT !.calls = -1, !.longs = -1]
    [] strategy = "assigned" -> [none EXCEPT !.puts = -1, !.lots = 1]
    [] strategy = "called_away" -> [none EXCEPT !.calls = -1, !.lots = -1]
    [] OTHER -> none

After(strategy) == [f \in DOMAIN book |-> book[f] + Effect(strategy)[f]]

\* An order the book takes: what it closes or rolls is held, a call is covered.
Possible(strategy) ==
  /\ \A f \in DOMAIN book : After(strategy)[f] >= 0
  /\ strategy = "covered_call" => book.calls < book.lots + book.longs
  /\ strategy = "roll" => book.puts + book.calls > 0
  /\ strategy = "roll_long" => book.longs > 0

Done == {o \in DOMAIN orders : orders[o].status = "done"}
\* Fault: an order is taken for a new one every time.
HasOrderEventNever(o) == FALSE

\* Whether an event carries the order's id: store.has_order_event.
HasOrderEvent(o) == \E e \in DOMAIN events : e.order = o
Added(kind, o, cash) == events (+) SetToBag({[kind |-> kind, order |-> o, cash |-> cash]})

\* A pass that is not running.
NoPass == [at |-> "rest", cursor |-> 0, shares |-> 0, list |-> <<>>, todo |-> <<>>, newest |-> 0,
         recorded |-> "no", settled |-> "no", premiums |-> 0, phase |-> "cash", step |-> Hold, id |-> 0]

\* The row of a new campaign: orders that filled before are not its own.
CampaignsInit ==
  /\ clock = 1
  /\ orders = <<>>
  /\ book = BookAtStart
  /\ \E auto \in {"on", "off"} :
       campaign = [status |-> "active", auto |-> auto, executed |-> Hold,
                   cursor |-> 1, shares |-> 0, premiums |-> 0, phase |-> "cash"]
  /\ events = EmptyBag
  /\ pass = [p \in Passes |-> NoPass]
  /\ placed = [step |-> Hold, times |-> 0, torn |-> 0]
  /\ switches = 0 /\ passRestarts = 0

-----------------------------------------------------------------------------
(* The account: the user's own orders, settlements, fills, shares.         *)

restAlone == <<campaign, events, pass, placed, switches, passRestarts>>

\* The service's passes are called with the moment `now` and stamp with it all
\* they fill or settle, whatever they wait for in between: several orders may
\* have one stamp, and an order an earlier one than those done before it.
Moments == EarliestNow..(clock + 1)
ClockMoves(now) == clock' = IF now > clock THEN now ELSE clock

\* A moment the campaign began at or after, or one that an order done has reached.
Reached(now) == now <= 1 \/ \E o \in Done : orders[o].stamp >= now

DoneOrder(strategy, now) ==
  [strategy |-> strategy, status |-> "done", stamp |-> now, late |-> IF Reached(now) THEN "yes" ELSE "no"]

RestingOrder(strategy) == [strategy |-> strategy, status |-> "resting", stamp |-> 0, late |-> "no"]

\* The user trades by hand, or a contract is settled at its expiry.
TradeByHand(strategy, now) ==
  /\ Len(orders) < MaxOrders /\ Possible(strategy)
  /\ orders' = Append(orders, DoneOrder(strategy, now))
  /\ book' = After(strategy)
  /\ ClockMoves(now)
  /\ UNCHANGED restAlone

\* An order of the campaign's that rested fills.
FillResting(o, now) ==
  /\ orders[o].status = "resting" /\ Possible(orders[o].strategy)
  /\ orders' = [orders EXCEPT ![o] = DoneOrder(@.strategy, now)]
  /\ book' = After(orders[o].strategy)
  /\ ClockMoves(now)
  /\ UNCHANGED restAlone

\* The user buys or sells a lot of shares.
MoveShares ==
  /\ book' = [book EXCEPT !.lots = IF @ = 0 THEN 1 ELSE @ - 1]
  /\ UNCHANGED <<clock, orders, restAlone>>

-----------------------------------------------------------------------------
(* Requests on the campaign.                                               *)

\* Set the switch, which forgets what was executed.
SwitchOn ==
  /\ switches < MaxSwitches
  /\ switches' = switches + 1
  /\ campaign' = [campaign EXCEPT !.auto = "on", !.executed = Hold]
  /\ placed' = [placed EXCEPT !.step = Hold, !.times = 0]
  /\ UNCHANGED <<clock, orders, book, events, pass, passRestarts>>

\* Pause, resume, close: a closed campaign stays closed.
SetCampaignStatus(status) ==
  /\ campaign.status \notin {"closed", status}
  /\ campaign' = [campaign EXCEPT !.status = status]
  /\ UNCHANGED <<clock, orders, book, events, pass, placed, switches, passRestarts>>

-----------------------------------------------------------------------------
(* A pass: reconcile.                                                      *)

accountAlone == <<clock, orders, book, switches, passRestarts>>
PassAt(p, at) == pass[p].at = at

\* The loop takes up an active campaign, a request any; the row is read.
BeginPass(p) ==
  /\ PassAt(p, "rest")
  /\ p = "loop" => campaign.status = "active"
  /\ pass' = [pass EXCEPT ![p] = [NoPass EXCEPT !.at = "orders", !.newest = campaign.cursor,
                                              !.cursor = campaign.cursor, !.shares = campaign.shares]]
  /\ UNCHANGED <<accountAlone, campaign, events, placed>>

\* The done orders after the cursor, by their stamps; those of one stamp in the
\* order of their submission, which may be any.
ReadOrders(p) ==
  LET mine == {o \in Done : orders[o].stamp > pass[p].cursor} IN
  /\ PassAt(p, "orders")
  /\ \E list \in SetToSeqs(mine) :
       /\ \A i, j \in DOMAIN list : i < j => orders[list[i]].stamp <= orders[list[j]].stamp
       /\ pass' = [pass EXCEPT ![p] = [pass[p] EXCEPT !.at = "look", !.list = list]]
  /\ UNCHANGED <<accountAlone, campaign, events, placed>>

\* The next order: passed over when an event carries its id already.
LookAt(p) ==
  LET o == Head(pass[p].list) IN
  /\ PassAt(p, "look") /\ pass[p].list # <<>>
  /\ pass' = IF HasOrderEvent(o)
             THEN [pass EXCEPT ![p] = [pass[p] EXCEPT !.list = Tail(@)]]
             ELSE [pass EXCEPT ![p] = [pass[p] EXCEPT !.at = "record", !.todo = EventsOf(orders[o].strategy)]]
  /\ UNCHANGED <<accountAlone, campaign, events, placed>>

\* Its events are added one by one; after the last one the cursor may pass it.
Record(p) ==
  LET o == Head(pass[p].list)
      e == Head(pass[p].todo)
      noted == [pass[p] EXCEPT !.todo = Tail(@), !.recorded = "yes",
                  !.settled = IF e.kind \in {"assigned", "called_away"} THEN "yes" ELSE @]
  IN /\ PassAt(p, "record")
     /\ events' = Added(e.kind, o, e.cash)
     /\ pass' = [pass EXCEPT ![p] =
          IF noted.todo # <<>> THEN noted
          ELSE [noted EXCEPT !.at = "look", !.list = Tail(@),
                                  !.newest = IF orders[o].stamp > @ THEN orders[o].stamp ELSE @]]
     /\ UNCHANGED <<accountAlone, campaign, placed>>

\* All orders done: the shares, against those of the row; when no settlement of
\* this pass explains them they were moved by hand.
ReadShares(p) ==
  /\ PassAt(p, "look") /\ pass[p].list = <<>>
  /\ pass' = [pass EXCEPT ![p] = [pass[p] EXCEPT !.at = "snapshot",
       !.recorded = IF book.lots # pass[p].shares /\ pass[p].settled = "no" THEN "yes" ELSE @]]
  /\ UNCHANGED <<accountAlone, campaign, events, placed>>

\* The numbers, from the book and the events.
Snapshot(p) ==
  /\ PassAt(p, "snapshot")
  /\ pass' = [pass EXCEPT ![p] = [pass[p] EXCEPT !.at = "save", !.shares = book.lots,
                                         !.premiums = Collected, !.phase = PhaseOf(book)]]
  /\ UNCHANGED <<accountAlone, campaign, events, placed>>

\* Fault: the moment of the save.
NewCursorNow(p) == clock

\* The cursor a pass saves: the newest stamp of the orders it recorded.
NewCursor(p) == pass[p].newest

\* They are saved, the cursor with them if this pass has moved it.
Save(p) ==
  /\ PassAt(p, "save")
  /\ campaign' = [campaign EXCEPT
       !.cursor = IF NewCursor(p) # pass[p].cursor THEN NewCursor(p) ELSE @,
       !.shares = pass[p].shares, !.premiums = pass[p].premiums, !.phase = pass[p].phase]
  /\ pass' = [pass EXCEPT ![p] = [NoPass EXCEPT !.at = "due", !.recorded = pass[p].recorded]]
  /\ UNCHANGED <<accountAlone, events, placed>>

-----------------------------------------------------------------------------
(* A pass: propose and execute.                                            *)

EndPass(p) == pass' = [pass EXCEPT ![p] = NoPass]

\* Nothing was recorded and the last proposal is not yet old.
NotDue(p) ==
  /\ PassAt(p, "due") /\ pass[p].recorded = "no" /\ p = "loop"
  /\ EndPass(p)
  /\ UNCHANGED <<accountAlone, campaign, events, placed>>

\* The playbook's answer to the book as it is now; the row keeps it to show.
Propose(p) ==
  /\ PassAt(p, "due")
  /\ \E step \in NextSteps(book) :
       pass' = [pass EXCEPT ![p] = [pass[p] EXCEPT !.at = "execute", !.step = step]]
  /\ UNCHANGED <<accountAlone, campaign, events, placed>>

\* The playbook or its context throws: only the error is stored.
ProposeFails(p) ==
  /\ PassAt(p, "due")
  /\ EndPass(p)
  /\ UNCHANGED <<accountAlone, campaign, events, placed>>

\* Fault: whatever was executed already.
MayExecuteAgain(p) == campaign.auto = "on" /\ pass[p].step # Hold

\* Whether the step is to be placed, by the row as it reads now.
MayExecute(p) ==
  /\ campaign.auto = "on" /\ pass[p].step # Hold
  /\ pass[p].step # campaign.executed

\* The row is read again: to hold, the switch off, or executed already; or
\* the regular session is over.
LeaveIt(p) ==
  /\ PassAt(p, "execute")
  /\ EndPass(p)
  /\ UNCHANGED <<accountAlone, campaign, events, placed>>

\* The passes between this decision and the mark.
Placing == {p \in Passes : pass[p].at \in {"place", "mark"}}

ExecuteIt(p) ==
  /\ PassAt(p, "execute") /\ MayExecute(p)
  /\ pass' = [pass EXCEPT ![p] = [pass[p] EXCEPT !.at = "place"]]
  /\ placed' = [placed EXCEPT !.torn = IF Placing = {} THEN @ ELSE @ + 1]
  /\ UNCHANGED <<accountAlone, campaign, events>>

\* The service books it: it fills at once or rests.
Place(p) ==
  LET strategy == OrderOf(pass[p].step.kind) IN
  /\ PassAt(p, "place")
  /\ Len(orders) < MaxOrders /\ Possible(strategy)
  /\ \/ \E now \in Moments :
          /\ orders' = Append(orders, DoneOrder(strategy, now))
          /\ book' = After(strategy)
          /\ ClockMoves(now)
     \/ /\ orders' = Append(orders, RestingOrder(strategy))
        /\ UNCHANGED <<book, clock>>
  /\ pass' = [pass EXCEPT ![p] = [pass[p] EXCEPT !.at = "mark", !.id = Len(orders) + 1]]
  /\ placed' = [placed EXCEPT !.step = pass[p].step,
                             !.times = IF placed.step = pass[p].step THEN @ + 1 ELSE 1]
  /\ UNCHANGED <<campaign, events, switches, passRestarts>>

\* The service refuses: the switch is turned off.
PlaceFails(p) ==
  /\ PassAt(p, "place")
  /\ campaign' = [campaign EXCEPT !.auto = "off"]
  /\ EndPass(p)
  /\ UNCHANGED <<accountAlone, events, placed>>

\* It is marked as executed, then noted under the order's id.
MarkExecuted(p) ==
  /\ PassAt(p, "mark")
  /\ campaign' = [campaign EXCEPT !.executed = pass[p].step]
  /\ pass' = [pass EXCEPT ![p] = [pass[p] EXCEPT !.at = "executed"]]
  /\ UNCHANGED <<accountAlone, events, placed>>

NoteExecuted(p) ==
  /\ PassAt(p, "executed")
  /\ events' = Added("executed", pass[p].id, 0)
  /\ EndPass(p)
  /\ UNCHANGED <<accountAlone, campaign, placed>>

RestartPasses ==
  /\ \E p \in Passes : pass[p] # NoPass
  /\ passRestarts < MaxPassRestarts
  /\ passRestarts' = passRestarts + 1
  /\ pass' = [p \in Passes |-> NoPass]
  /\ placed' = [placed EXCEPT !.torn = @ + Cardinality({p \in Passes : PassAt(p, "mark")})]
  /\ UNCHANGED <<clock, orders, book, campaign, events, switches>>

Reconcile(p) ==
  \/ BeginPass(p) \/ ReadOrders(p) \/ LookAt(p) \/ Record(p)
  \/ ReadShares(p) \/ Snapshot(p) \/ Save(p)

Advance(p) ==
  \/ NotDue(p) \/ Propose(p) \/ ProposeFails(p) \/ LeaveIt(p) \/ ExecuteIt(p)
  \/ Place(p) \/ PlaceFails(p) \/ MarkExecuted(p) \/ NoteExecuted(p)

CampaignsNext ==
  \/ \E strategy \in HandTrades, now \in Moments : TradeByHand(strategy, now)
  \/ \E o \in DOMAIN orders, now \in Moments : FillResting(o, now)
  \/ MoveShares \/ SwitchOn \/ RestartPasses
  \/ \E status \in StatusesTried : SetCampaignStatus(status)
  \/ \E p \in Passes : Reconcile(p) \/ Advance(p)

CampaignsSpec == CampaignsInit /\ [][CampaignsNext]_campaignVars

-----------------------------------------------------------------------------
(* Properties.                                                             *)

\* What an order adds, and the event it becomes.
Addition == [kind : EventKinds \ {"executed"}, cash : Int]
CampaignEvent == [kind : EventKinds, order : Nat \ {0}, cash : Int]

OrderRow == [strategy : Strategies, status : {"resting", "done"}, stamp : Nat, late : {"yes", "no"}]

CampaignRow ==
  [status : {"active", "paused", "closed"}, auto : {"on", "off"}, executed : Steps,
   cursor : Nat, shares : Nat, premiums : Int, phase : CampaignPhases]

PassRow ==
  [at : {"rest", "orders", "look", "record", "snapshot", "save", "due", "execute", "place", "mark", "executed"},
   cursor : Nat, shares : Nat, list : Seq(Nat \ {0}), todo : Seq(Addition), newest : Nat,
   recorded : {"yes", "no"}, settled : {"yes", "no"}, premiums : Int, phase : CampaignPhases,
   step : Steps, id : Nat]

CampaignsTypeOK ==
  /\ clock \in Nat
  /\ orders \in Seq(OrderRow)
  /\ book \in Book
  /\ campaign \in CampaignRow
  /\ IsABag(events) /\ IsFiniteSet(DOMAIN events) /\ DOMAIN events \subseteq CampaignEvent
  /\ pass \in [Passes -> PassRow]
  /\ placed \in [step : Steps, times : Nat, torn : Nat] /\ switches \in Nat /\ passRestarts \in Nat

\* Whatever passes run side by side and wherever a restart ends them, the cursor
\* passes over no order that left no trace, but for one that was late: committed
\* with a stamp that an order before it, or the campaign's start, had reached
\* already (runner.reconcile).
CursorPassesOnlyTheLate ==
  \A o \in Done : orders[o].stamp <= campaign.cursor => HasOrderEvent(o) \/ orders[o].late = "yes"

\* The head of the module promises it of every order: the closed orders since the
\* last cursor become events, and each step is safe to repeat (runner.py:5-14).
\* A late order is passed over for good.
CursorPassesNothingUnseen ==
  \A o \in Done : orders[o].stamp \in 2..campaign.cursor => HasOrderEvent(o)

\* An order is counted at most once by each of the passes that may run side by
\* side, however often they are begun anew (has_order_event, add_event).
OncePerPass == \A e \in DOMAIN events : events[e] <= Cardinality(Passes)

\* One step is placed again, with no other in between and the switch not set
\* anew, at most once for each time a placing was torn: a restart between the
\* submission and the mark, or another pass that decided before the mark
\* (maybe_execute: not the same proposal twice).
PlacedAgainOnlyWhenTorn == placed.times <= 1 + placed.torn

\* What a done order adds to the premiums by the events it stands for.
Worth(o) ==
  LET evs == EventsOf(orders[o].strategy) IN SumFunction([i \in DOMAIN evs |-> Premium(evs[i])])

\* Once the cursor has passed every order the premiums saved with it are what
\* those orders came to on the short side (snapshot.build_snapshot).
PremiumsAreTheOrders ==
  (\A o \in DOMAIN orders : o \in Done /\ orders[o].stamp <= campaign.cursor)
    => campaign.premiums = SumFunction([o \in DOMAIN orders |-> Worth(o)])
=============================================================================

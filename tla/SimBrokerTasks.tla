--------------------------- MODULE SimBrokerTasks ---------------------------
(***************************************************************************)
(* SimBroker at the grain of its awaits.  Every call of SimStore is one    *)
(* sqlite transaction on a worker thread, so a handler is a sequence of    *)
(* transactions and any other task of the process may run between two of   *)
(* them: the background fill loop, and the requests of the same user.      *)
(* Nothing locks the book, and a handler goes on with the rows and the     *)
(* position it read earlier.  The process may also stop between two of     *)
(* them: the tables are kept, the handlers are gone.                       *)
(*                                                                         *)
(* The tables are the variables of SimBroker.  task holds, for each task,  *)
(* where it is and the local variables it still needs.                     *)
(***************************************************************************)
EXTENDS SimBroker

CONSTANTS
  Tasks,        \* asyncio tasks serving this user at a time
  Requests,     \* task -> the handlers it may run
  MaxCrashes    \* bound: restarts of the process

AllRequests == {"submit", "poll", "cancel", "replace", "close"}

ASSUME RequestsAssumption == Requests \in [Tasks -> SUBSET AllRequests]
ASSUME MaxCrashesAssumption == MaxCrashes \in Nat

VARIABLES
  task,      \* task -> its program counter and locals
  crashes,   \* restarts so far
  applied,   \* history: how often each order's fill moved the position, the cash
  saved      \* history: the tables as they were when no task was running

tables == <<ticket, status, limit, stop, fillPrice, account>>
taskVars == <<tables, task, crashes, applied, saved>>

Idle == [pc |-> "idle"]
Goto(k, s) == task' = [task EXCEPT ![k] = s]
At(k, pc) == task[k].pc = pc

\* A task begins: the handler's first transaction is part of the step.
Begin(k, request) ==
  /\ request \in Requests[k]
  /\ At(k, "idle")

\* UPDATE sim_orders SET status = s WHERE id = o, whatever the row says by now.
SetStatus(o, s) == status' = [status EXCEPT ![o] = s]

-----------------------------------------------------------------------------
(* _fill_order: mark the order, cancel its OCO siblings, put its children  *)
(* to work, read the position, write it, record the trade, move the cash;  *)
(* then the caller goes on at "then".                                      *)

\* Fault: the side of the ticket is taken for that of the exit.
FillTaskTicketSide(pc, o, price, then) ==
  [pc |-> pc, order |-> o, price |-> price,
   delta |-> SignedQty(ticket[o[1]].side, ticket[o[1]].qty), then |-> then]

FillTask(pc, o, price, then) ==
  [pc |-> pc, order |-> o, price |-> price,
   delta |-> SignedQty(Side(o), ticket[o[1]].qty), then |-> then]

\* Fault: the OCO siblings are forgotten.
AfterMarkNoOco(o) == IF IsEntry(o) THEN "activate" ELSE "read"

AfterMark(o) ==
  IF OcoSiblings(o) # {} THEN "oco" ELSE IF IsEntry(o) THEN "activate" ELSE "read"

Mark(k, o, price, then) ==
  /\ SetStatus(o, "filled")
  /\ fillPrice' = [fillPrice EXCEPT ![o] = price]
  /\ Goto(k, FillTask(AfterMark(o), o, price, then))
  /\ UNCHANGED <<ticket, limit, stop, account, crashes, applied>>

MarkSubmitted(k) ==
  /\ At(k, "mark")
  /\ Mark(k, task[k].order, task[k].price, Idle)

CancelOcoSiblings(k) ==
  /\ At(k, "oco")
  /\ status' = CancelIn(status, OcoSiblings(task[k].order))
  /\ Goto(k, [task[k] EXCEPT !.pc = "read"])
  /\ UNCHANGED <<ticket, limit, stop, fillPrice, account, crashes, applied>>

ActivateChildren(k) ==
  /\ At(k, "activate")
  /\ status' = [o \in Orders |->
                  IF o \in Children(task[k].order) /\ status[o] = "held" THEN "new"
                  ELSE status[o]]
  /\ Goto(k, [task[k] EXCEPT !.pc = "read"])
  /\ UNCHANGED <<ticket, limit, stop, fillPrice, account, crashes, applied>>

\* The position row is read, and the row and the trade to write are computed.
ReadPosition(k) ==
  /\ At(k, "read")
  /\ LET f == task[k]
         row == [account EXCEPT !.trades = {}]
         after == ApplyFill(row, f.order, f.delta, f.price)
     IN  Goto(k, [pc |-> "write", order |-> f.order, delta |-> f.delta, price |-> f.price,
                  then |-> f.then, after |-> after])
  /\ UNCHANGED <<tables, crashes, applied>>

WritePosition(k) ==
  LET f == task[k]
  IN  /\ At(k, "write")
      /\ account' = [account EXCEPT !.shares = f.after.shares, !.opener = f.after.opener]
      /\ applied' = [applied EXCEPT ![f.order].position = @ + 1]
      /\ Goto(k, [f EXCEPT !.pc = IF f.after.trades = {} THEN "cash" ELSE "trade"])
      /\ UNCHANGED <<ticket, status, limit, stop, fillPrice, crashes>>

\* sim_trades.id is the opener's: inserting it again raises IntegrityError,
\* and the handler ends there.
InsertTrade(k) ==
  LET f == task[k]
  IN  /\ At(k, "trade")
      /\ account' = [account EXCEPT !.trades = @ \cup f.after.trades]
      /\ Goto(k, IF f.after.trades \subseteq account.trades THEN Idle
                 ELSE [f EXCEPT !.pc = "cash"])
      /\ UNCHANGED <<ticket, status, limit, stop, fillPrice, crashes, applied>>

AddCash(k) ==
  LET f == task[k]
  IN  /\ At(k, "cash")
      /\ account' = [account EXCEPT !.cash = @ - f.delta * f.price]
      /\ applied' = [applied EXCEPT ![f.order].cash = @ + 1]
      /\ Goto(k, f.then)
      /\ UNCHANGED <<ticket, status, limit, stop, fillPrice, crashes>>

-----------------------------------------------------------------------------
(* submit: the ticket is judged on the account and the price it read, then *)
(* the entry row is written, one row per exit, and the fill.               *)

AfterInsert(t, exits, p) ==
  IF exits # <<>> THEN [pc |-> "insert", ticket |-> t, exits |-> exits, price |-> p]
  ELSE IF p # None THEN [pc |-> "mark", order |-> Entry(t), price |-> p]
  ELSE Idle

ExitsOf(r) ==
  (IF r.takeProfit # None THEN <<"take_profit">> ELSE <<>>)
    \o (IF r.stopLoss # None THEN <<"stop_loss">> ELSE <<>>)

BeginSubmit(k, r, p) ==
  /\ Begin(k, "submit")
  /\ Affordable(r, p) /\ Accepted(r, p)
  /\ Goto(k, [pc |-> "entry", resolved |-> r, price |-> p])
  /\ UNCHANGED <<tables, crashes, applied>>

InsertEntry(k, t) ==
  LET r == task[k].resolved
      p == task[k].price
  IN  /\ At(k, "entry")
      /\ Insert(t, r)
      /\ SetStatus(Entry(t), "new")
      /\ Goto(k, AfterInsert(t, ExitsOf(r), IF FillsNow(r, p) THEN p ELSE None))
      /\ UNCHANGED <<fillPrice, account, crashes, applied>>

InsertExit(k) ==
  /\ At(k, "insert")
  /\ SetStatus(<<task[k].ticket, Head(task[k].exits)>>, "held")
  /\ Goto(k, AfterInsert(task[k].ticket, Tail(task[k].exits), task[k].price))
  /\ UNCHANGED <<ticket, limit, stop, fillPrice, account, crashes, applied>>

-----------------------------------------------------------------------------
(* check_fills: one snapshot of the working rows, then a fill for each row *)
(* of it that was live and crossed, skipping the group of one just filled. *)

PollTask(rows) == IF rows = {} THEN Idle ELSE [pc |-> "poll", rows |-> rows]

\* Fault: the query returns rows that are no longer working.
BeginPollAll(k, p) ==
  LET rows == {[order |-> o, price |-> TriggerPrice(o)] :
                 o \in {o \in Orders : status[o] \in {"new", "filled"} /\ Crosses(o, p)}}
  IN  /\ Begin(k, "poll")
      /\ rows # {}
      /\ Goto(k, PollTask(rows))
      /\ UNCHANGED <<tables, crashes, applied>>

BeginPoll(k, p) ==
  LET rows == {[order |-> o, price |-> TriggerPrice(o)] :
                 o \in {o \in Orders : status[o] = "new" /\ Crosses(o, p)}}
  IN  /\ Begin(k, "poll")
      /\ rows # {}
      /\ Goto(k, PollTask(rows))
      /\ UNCHANGED <<tables, crashes, applied>>

PollFill(k) ==
  /\ At(k, "poll")
  /\ \E row \in task[k].rows :
       LET rest == {other \in task[k].rows :
                      other # row /\ other.order \notin OcoSiblings(row.order)}
       IN  Mark(k, row.order, row.price, PollTask(rest))

-----------------------------------------------------------------------------
(* cancel: read the order, then up to three updates.                       *)

BeginCancel(k, o) ==
  /\ Begin(k, "cancel")
  /\ status[o] \in Working
  /\ Goto(k, [pc |-> "cancel", order |-> o])
  /\ UNCHANGED <<tables, crashes, applied>>

CancelMarked(k) ==
  LET o == task[k].order
  IN  /\ At(k, "cancel")
      /\ SetStatus(o, "canceled")
      /\ Goto(k, IF OcoSiblings(o) # {} \/ IsEntry(o) THEN [task[k] EXCEPT !.pc = "cancel_rest"]
                 ELSE Idle)
      /\ UNCHANGED <<ticket, limit, stop, fillPrice, account, crashes, applied>>

\* An exit has siblings, an entry has children: one update or the other.
CancelRest(k) ==
  LET o == task[k].order
  IN  /\ At(k, "cancel_rest")
      /\ status' = CancelIn(status, OcoSiblings(o) \cup Children(o))
      /\ Goto(k, Idle)
      /\ UNCHANGED <<ticket, limit, stop, fillPrice, account, crashes, applied>>

-----------------------------------------------------------------------------
(* replace_stop, replace_target, replace_limit: validated on the row that  *)
(* was read, written on the row that is there.                             *)

BeginReplace(k, o, x, p) ==
  /\ Begin(k, "replace")
  /\ status[o] \in Working
  /\ \E column \in {"stop", "limit"} :
       /\ \/ /\ column = "stop" /\ Type(o) \in {"stop", "stop_limit"}
             /\ p # None => IF Side(o) = "sell" THEN x < p ELSE x > p
          \/ column = "limit" /\ Type(o) \in {"limit", "stop_limit"}
       /\ Goto(k, [pc |-> "replace", order |-> o, column |-> column, price |-> x])
  /\ UNCHANGED <<tables, crashes, applied>>

WriteReplace(k) ==
  LET f == task[k]
  IN  /\ At(k, "replace")
      /\ stop' = IF f.column = "stop" THEN [stop EXCEPT ![f.order] = f.price] ELSE stop
      /\ limit' = IF f.column = "limit" THEN [limit EXCEPT ![f.order] = f.price] ELSE limit
      /\ Goto(k, Idle)
      /\ UNCHANGED <<ticket, status, fillPrice, account, crashes, applied>>

-----------------------------------------------------------------------------
(* close_position: read the position, read the working orders, cancel each *)
(* of them, insert a market order for what was held, fill it.              *)

BeginClose(k, q, p) ==
  LET held == Magnitude(account.shares)
  IN  /\ Begin(k, "close")
      /\ account.shares # 0
      /\ Goto(k, [pc |-> "close", price |-> p,
                  resolved |-> MarketOrder(IF account.shares > 0 THEN "sell" ELSE "buy",
                                           IF q >= held THEN held ELSE q)])
      /\ UNCHANGED <<tables, crashes, applied>>

ReadWorking(k) ==
  /\ At(k, "close")
  /\ Goto(k, [pc |-> "close_cancel", price |-> task[k].price,
              resolved |-> task[k].resolved, rows |-> WorkingOrders])
  /\ UNCHANGED <<tables, crashes, applied>>

CancelWorking(k) ==
  /\ At(k, "close_cancel")
  /\ \E o \in task[k].rows :
       /\ SetStatus(o, "canceled")
       /\ Goto(k, [task[k] EXCEPT !.rows = @ \ {o}])
  /\ UNCHANGED <<ticket, limit, stop, fillPrice, account, crashes, applied>>

InsertClosing(k, t) ==
  LET f == task[k]
  IN  /\ At(k, "close_cancel") /\ f.rows = {}
      /\ Insert(t, f.resolved)
      /\ SetStatus(Entry(t), "new")
      /\ Goto(k, [pc |-> "mark", order |-> Entry(t), price |-> f.price])
      /\ UNCHANGED <<fillPrice, account, crashes, applied>>

-----------------------------------------------------------------------------

\* The process stops and starts again.
Crash ==
  /\ crashes < MaxCrashes
  /\ \E k \in Tasks : task[k] # Idle
  /\ task' = [k \in Tasks |-> Idle]
  /\ crashes' = crashes + 1
  /\ UNCHANGED <<tables, applied>>

TasksInit ==
  /\ Init
  /\ task = [k \in Tasks |-> Idle]
  /\ crashes = 0
  /\ applied = [o \in Orders |-> [position |-> 0, cash |-> 0]]
  /\ saved = <<>>

FillStep(k) ==
  \/ MarkSubmitted(k) \/ CancelOcoSiblings(k) \/ ActivateChildren(k)
  \/ ReadPosition(k) \/ WritePosition(k) \/ InsertTrade(k) \/ AddCash(k)

BeginStep(k) ==
  \/ \E r \in Submissions, p \in Prices \cup {None} : BeginSubmit(k, r, p)
  \/ \E p \in Prices : BeginPoll(k, p)
  \/ \E o \in Orders : BeginCancel(k, o)
  \/ \E o \in Orders, x \in Prices, p \in Prices \cup {None} : BeginReplace(k, o, x, p)
  \/ \E q \in Shares, p \in Prices : BeginClose(k, q, p)

HandlerStep(k) ==
  \/ \E t \in Tickets : InsertEntry(k, t) \/ InsertClosing(k, t)
  \/ InsertExit(k) \/ PollFill(k) \/ CancelMarked(k) \/ CancelRest(k) \/ WriteReplace(k)
  \/ ReadWorking(k) \/ CancelWorking(k)

AllIdle == \A k \in Tasks : task[k] = Idle

\* The tables are remembered from the first task's beginning to the last one's end.
Remember == saved' = IF AllIdle' THEN <<>> ELSE IF AllIdle THEN tables ELSE saved

TasksNext ==
  /\ \/ \E k \in Tasks : FillStep(k) \/ BeginStep(k) \/ HandlerStep(k)
     \/ Crash
  /\ Remember

TasksSpec == TasksInit /\ [][TasksNext]_taskVars

-----------------------------------------------------------------------------
(* Correctness.                                                            *)

\* The book as the handlers of SimBroker would show it: until a task ends, the
\* tables it found.
AtomicBook ==
  INSTANCE SimBroker WITH
    ticket <- IF AllIdle THEN ticket ELSE saved[1],
    status <- IF AllIdle THEN status ELSE saved[2],
    limit <- IF AllIdle THEN limit ELSE saved[3],
    stop <- IF AllIdle THEN stop ELSE saved[4],
    fillPrice <- IF AllIdle THEN fillPrice ELSE saved[5],
    account <- IF AllIdle THEN account ELSE saved[6]

\* No fill is applied twice, and none before its order is marked: a restart in
\* the middle of a fill may lose it but never repeats it, and the cash never
\* moves for a fill the position does not show.
FillsApplyAtMostOnce ==
  \A o \in Orders :
    /\ applied[o].position <= 1
    /\ applied[o].cash <= applied[o].position
    /\ applied[o].position > 0 => status[o] = "filled"

\* Between tasks, and unless a restart cut one short, the position is what the
\* filled orders add up to.
QuietPositionIsFills == AllIdle /\ crashes = 0 => PositionIsFills

\* Between tasks, the exits of a filled entry are live, not held.
QuietExitsFollowEntry == AllIdle => ExitsFollowEntry
=============================================================================

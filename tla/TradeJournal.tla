---------------------------- MODULE TradeJournal ----------------------------
(***************************************************************************)
(* The record of closed round trips of one contract on one broker account  *)
(* (app.trading.service.sync_trades, app.trading.trades, TradeStore).      *)
(*                                                                         *)
(* life is what has happened to the contract since the account was last    *)
(* reset, in order: filled orders, and assignments or the expiry, which    *)
(* the broker books as an account activity some time after they took       *)
(* effect.  A sync asks for the closed orders (the newest FetchLimit of    *)
(* them), then for the activities, then for the positions, pairs what it   *)
(* got into round trips and upserts those that closed; each is an await,   *)
(* and every request for the Trades view runs a sync of its own.           *)
(***************************************************************************)
EXTENDS FillPairing

CONSTANTS
  Syncs,            \* the requests that sync
  FetchLimit,       \* _ORDER_FETCH_LIMIT
  JournalQty,       \* bound: contracts of one order or assignment
  JournalPrice,     \* bound: the one price orders fill at
  MaxEvents,        \* bound: fills, assignments and expiries
  MaxAccountResets  \* bound: resets of the account

ASSUME JournalAssumption ==
  /\ FetchLimit \in Nat \ {0} /\ JournalQty \in Nat \ {0} /\ JournalPrice \in Nat \ {0}
  /\ MaxEvents \in 0..MaxFills /\ MaxAccountResets \in Nat

VARIABLES
  life,     \* what happened to the contract, oldest first
  tally,    \* how many times the account was reset, how much was ever filled
  expired,  \* the lives whose contract is past its expiry
  sync,     \* how far each sync is, with what it has fetched
  journal,  \* the trades table: one row per id
  kept,     \* history: the rows that were right when the account was reset
  inSync    \* history: the last upsert came from all that had happened

journalVars == <<life, tally, expired, sync, journal, kept, inSync>>

\* An activity has no order id, and never opens a trip.
ActivityId == 0
Event == [order : 0..MaxEvents, side : {"buy", "sell"}, qty : 1..(JournalQty * MaxEvents),
          price : {0, JournalPrice}, booked : BOOLEAN]

IsOrder(e) == e.order # ActivityId
NetOf(fills) == FoldLeft(LAMBDA n, f : n + (IF f.side = "buy" THEN f.qty ELSE -f.qty), 0, fills)
SizeOf(n) == IF n < 0 THEN -n ELSE n
Flattening(net) == IF net < 0 THEN "buy" ELSE "sell"

\* What is stored of a trip.
Row(trip) == [id |-> trip.id, side |-> trip.side, qty |-> trip.qty, pnl |-> trip.pnl]
RowsOf(fills) == {Row(trip) : trip \in ToSet(TripsOf(fills))}

IdleSync == [at |-> "idle"]

\* The contract's orders are within what one query returns.
Fits == Cardinality({n \in DOMAIN life : IsOrder(life[n])}) <= FetchLimit

\* Every assignment is booked, and the expiry is booked or can be told from the
\* positions.
Accounted ==
  \A n \in DOMAIN life : life[n].booked \/ (n = Len(life) /\ tally.resets \in expired)

JournalInit ==
  /\ life = <<>>
  /\ tally = [resets |-> 0, events |-> 0]
  /\ expired = {}
  /\ sync = [s \in Syncs |-> IdleSync]
  /\ journal = {}
  /\ kept = {}
  /\ inSync = TRUE

-----------------------------------------------------------------------------
(* The broker.                                                             *)

\* A sync under way did not see this.
Unseen ==
  /\ sync' = [s \in Syncs |-> IF sync[s] = IdleSync THEN IdleSync ELSE [sync[s] EXCEPT !.whole = FALSE]]
  /\ inSync' = FALSE

Happens(side, qty, price, order) ==
  /\ tally.events < MaxEvents
  /\ life' = Append(life, [order |-> order, side |-> side, qty |-> qty, price |-> price,
                           booked |-> order # ActivityId])
  /\ tally' = [tally EXCEPT !.events = @ + 1]
  /\ Unseen
  /\ UNCHANGED <<expired, journal, kept>>

\* An order fills; its id is new, also after a reset.
OrderIsFilled(side, qty) ==
  /\ tally.resets \notin expired
  /\ Happens(side, qty, JournalPrice, tally.events + 1)

\* Contracts sold are assigned before their expiry.
Assigned(qty) ==
  /\ tally.resets \notin expired
  /\ qty <= -NetOf(life)
  /\ Happens("buy", qty, 0, ActivityId)

\* The contract passes its expiry; the broker takes it off the positions later.
PassesExpiry ==
  /\ NetOf(life) # 0
  /\ tally.resets \notin expired
  /\ expired' = expired \cup {tally.resets}
  /\ UNCHANGED <<life, tally, sync, journal, kept, inSync>>

IsTakenOff ==
  /\ tally.resets \in expired
  /\ NetOf(life) # 0
  /\ Happens(Flattening(NetOf(life)), SizeOf(NetOf(life)), 0, ActivityId)

\* The broker books an assignment or the expiry as an activity.
IsBooked(n) ==
  /\ ~life[n].booked
  /\ life' = [life EXCEPT ![n].booked = TRUE]
  /\ Unseen
  /\ UNCHANGED <<tally, expired, journal, kept>>

\* The paper account is reset: its orders, activities and positions are gone.
ResetsAccount ==
  /\ tally.resets < MaxAccountResets
  /\ life # <<>>
  /\ life' = <<>>
  /\ tally' = [tally EXCEPT !.resets = @ + 1]
  /\ kept' = IF inSync /\ Fits /\ \A s \in Syncs : sync[s] = IdleSync
             THEN kept \cup RowsOf(life) ELSE kept
  /\ Unseen
  /\ UNCHANGED <<expired, journal>>

-----------------------------------------------------------------------------
(* A sync.                                                                 *)

\* Each order that is among the newest FetchLimit, in the order they filled.
NewestOrders(events) ==
  LET orders == {n \in DOMAIN events : IsOrder(events[n])}
  IN  {n \in orders : Cardinality({m \in orders : m > n}) < FetchLimit}

\* fills_from_activities: what an activity flattens of the earlier fills.
WithActivity(fills, e) ==
  LET net == NetOf(fills)
  IN  IF net = 0 THEN fills
      ELSE Append(fills, [e EXCEPT !.side = Flattening(net),
                                   !.qty = Least(@, SizeOf(net))])

\* The fills of the orders and activities fetched, oldest first.
Fills(fetched, orders, activities) ==
  FoldLeft(LAMBDA fills, n :
             IF n \in orders THEN Append(fills, fetched[n])
             ELSE IF n \in activities THEN WithActivity(fills, fetched[n])
             ELSE fills,
           <<>>, [n \in DOMAIN fetched |-> n])

\* fills_for_lapsed_options: an expired contract the broker no longer holds.
WithLapsed(fills) ==
  IF NetOf(fills) = 0 THEN fills
  ELSE Append(fills, [order |-> ActivityId, side |-> Flattening(NetOf(fills)),
                      qty |-> SizeOf(NetOf(fills)), price |-> 0, booked |-> FALSE])

SyncAt(s, where) == sync[s].at = where

FetchOrders(s) ==
  /\ SyncAt(s, "idle")
  /\ sync' = [sync EXCEPT ![s] = [at |-> "activities", whole |-> TRUE, life |-> tally.resets,
                                  events |-> life, orders |-> NewestOrders(life)]]
  /\ UNCHANGED <<life, tally, expired, journal, kept, inSync>>

\* Every activity booked by now, or only the pages read before one failed; of
\* the orders that filled since, none.
FetchActivities(s) ==
  /\ SyncAt(s, "activities")
  /\ LET same == sync[s].life = tally.resets
         timeline == IF same THEN life ELSE sync[s].events
         booked == {n \in DOMAIN timeline : same /\ ~IsOrder(timeline[n]) /\ timeline[n].booked}
     IN  \E got \in {{m \in booked : m < n} : n \in 1..(Len(timeline) + 1)} :
           sync' = [sync EXCEPT ![s] = [at |-> "positions", whole |-> @.whole /\ got = booked,
                                        life |-> @.life,
                                        fills |-> Fills(timeline, @.orders, got)]]
  /\ UNCHANGED <<life, tally, expired, journal, kept, inSync>>

Closed(s, fills, whole) ==
  sync' = [sync EXCEPT ![s] = [at |-> "upsert", whole |-> whole, life |-> @.life,
                               rows |-> RowsOf(fills)]]

\* The positions are only read for an expired contract that looks open; one the
\* broker holds no more is closed.  When they cannot be read it stays open.
ReadPositions(s) ==
  /\ SyncAt(s, "positions")
  /\ LET now == sync[s]
         held == now.life = tally.resets /\ NetOf(life) # 0
         lapsed == now.life \in expired /\ NetOf(now.fills) # 0 /\ ~held
     IN  \/ Closed(s, IF lapsed THEN WithLapsed(now.fills) ELSE now.fills, now.whole)
         \/ lapsed /\ Closed(s, now.fills, FALSE)
  /\ UNCHANGED <<life, tally, expired, journal, kept, inSync>>

\* Fault: rows already there are left as they are.
UpsertedKeepsFirst(rows) ==
  journal \cup {r \in rows : \A old \in journal : old.id # r.id}

\* INSERT ... ON CONFLICT(id) DO UPDATE.
Upserted(rows) ==
  {old \in journal : \A r \in rows : old.id # r.id} \cup rows

Upsert(s) ==
  /\ SyncAt(s, "upsert")
  /\ journal' = Upserted(sync[s].rows)
  /\ sync' = [sync EXCEPT ![s] = IdleSync]
  /\ inSync' = (sync[s].whole /\ Accounted /\ \A other \in Syncs \ {s} : sync[other] = IdleSync)
  /\ UNCHANGED <<life, tally, expired, kept>>

JournalNext ==
  \/ \E side \in {"buy", "sell"}, qty \in 1..JournalQty : OrderIsFilled(side, qty)
  \/ \E qty \in 1..JournalQty : Assigned(qty)
  \/ PassesExpiry \/ IsTakenOff \/ ResetsAccount
  \/ \E n \in DOMAIN life : IsBooked(n)
  \/ \E s \in Syncs : FetchOrders(s) \/ FetchActivities(s) \/ ReadPositions(s) \/ Upsert(s)

JournalSpec == JournalInit /\ [][JournalNext]_journalVars
-----------------------------------------------------------------------------
(* Correctness.                                                            *)

\* The rows of this life, by the order that opened them.
RowsHere == {r \in journal : \E n \in DOMAIN life : IsOrder(life[n]) /\ r.id[1] = life[n].order}
NothingButOrders == \A n \in DOMAIN life : IsOrder(life[n])

\* "The store is the record" (sync_trades): once a sync has seen everything and
\* none that began earlier is still to write, every round trip that closed is a
\* row with the right side, size and profit, however late the broker booked an
\* assignment and whatever an earlier sync wrote; there is no row that is not a
\* trip; and the rows of an account reset since, with no sync under way, are as
\* they were.
JournalIsTheRecord ==
  /\ kept \subseteq journal
  /\ inSync /\ Fits => RowsOf(life) \subseteq journal
  /\ inSync /\ Fits /\ NothingButOrders => RowsHere = RowsOf(life)

\* The cap on the closed-orders query only drops the oldest trips: what is in the
\* record is a round trip that happened.
CapDropsOnlyOldTrips ==
  inSync /\ NothingButOrders => RowsHere \subseteq RowsOf(life)
=============================================================================

---------------------------- MODULE ClosingProofs ----------------------------
(***************************************************************************)
(* Proofs about what closes positions: the exit triggers, close_position   *)
(* of the live order service, and the exits of a backtest.                 *)
(*                                                                         *)
(* The triggers, for any triggers, terms and quotes, any number of         *)
(* attempts and of restarts.  What a tick listed bounds what it may still  *)
(* send: while a trigger waits for its turn the loop's count of attempts   *)
(* is the row's, and an order that is out but not yet recorded is the one  *)
(* order the bound of the next attempt or restart makes room for.          *)
(*                                                                         *)
(* A position closed at the live broker, for any requests, position and    *)
(* resting orders, any number of failing calls and of stops moved.  Of a   *)
(* request that no other request and no exit came between, the invariant   *)
(* says what its locals still tell of the broker: the orders that rest are *)
(* those it has yet to cancel, the position is on the side it found, and   *)
(* the stops it found are listed for putting back, or rest as they did.    *)
(*                                                                         *)
(* The exits of a backtest, for any prices, rules and bars.  One bar is    *)
(* settled first: where the backtest does not leave, a position stays what *)
(* it was on every way through the bar, and where it leaves unambiguously  *)
(* every way leaves at that price.  The walk is then taken bar by bar,     *)
(* once for the position and once for the rest that runs on.               *)
(***************************************************************************)
EXTENDS ExitTriggers, LiveClose, ExitRules, SumLemmas

\* What the argument needs of the types: the rows, the histories, and of the
\* loop where it is, whom it listed and on whom it works.
LoopTypes ==
  /\ trigger \in [Triggers -> TriggerRow]
  /\ sent \in [Triggers -> Nat] /\ late \in [Triggers -> Nat] /\ uncalled \subseteq Triggers
  /\ loopRestarts \in Nat
  /\ DOMAIN monitor = {"at", "due", "seen", "last", "premium", "reach", "now", "qty", "ratio"}
  /\ monitor.at \in {"rest", "listed", "turn", "send", "sent", "miss"}
  /\ monitor.due \subseteq Triggers /\ monitor.seen \in [Triggers -> Nat]

\* An order of t may be out whose attempt is not recorded.
Unrecorded(t) == monitor.at \in {"sent", "miss"} /\ monitor.now = t

\* The loop works on nobody it did not list, and on nobody at rest.
WorksOnDue ==
  /\ monitor.at \in {"send", "sent", "miss"} => monitor.now \in monitor.due
  /\ monitor.at = "rest" => monitor.due = {}

\* Whoever may be tried again has attempts left, and the loop knows how many.
AttemptsAreLeft ==
  \A t \in Triggers :
    /\ trigger[t].attempts <= MaxAttempts
    /\ trigger[t].status = "none" => trigger[t].attempts = 0
    /\ (trigger[t].status \in {"none", "active"} \/ t \in monitor.due)
         => trigger[t].attempts < MaxAttempts
    /\ t \in monitor.due => monitor.seen[t] = trigger[t].attempts /\ trigger[t].status # "none"

\* As long as t may be tried again its orders are those of its attempts and
\* restarts, and the one that is not recorded.
SentIsCounted ==
  \A t \in Triggers :
    /\ sent[t] <= MaxAttempts + loopRestarts
    /\ (trigger[t].status \in {"none", "active"} \/ t \in monitor.due)
         => sent[t] <= trigger[t].attempts + loopRestarts + (IF Unrecorded(t) THEN 1 ELSE 0)

\* A confirmed cancel is never undone; what t still sends after it is the order
\* of the tick that had listed it.
LateIsOfOneTick ==
  \A t \in Triggers :
    /\ t \in uncalled => trigger[t].status \notin {"none", "active"}
    /\ late[t] <= 1
    /\ late[t] = 1 => t \in uncalled /\ (t \in monitor.due => Unrecorded(t))

TriggersInv ==
  /\ LoopTypes /\ WorksOnDue
  /\ AttemptsAreLeft /\ SentIsCounted /\ LateIsOfOneTick

-----------------------------------------------------------------------------

LEMMA InitTriggersInv == TriggersInit => TriggersInv
BY AttemptsAssumption
   DEF TriggersInit, TriggersInv, LoopTypes, WorksOnDue, AttemptsAreLeft, SentIsCounted,
       LateIsOfOneTick, Unrecorded, AtRest, TriggerRow, TriggerStatus

\* The broker, the market and the user's own closes are not what the bound is about.
LEMMA AsideStep ==
  ASSUME TriggersInv, UNCHANGED <<trigger, monitor, sent, late, uncalled, loopRestarts>>
  PROVE  TriggersInv'
BY DEF TriggersInv, LoopTypes, WorksOnDue, AttemptsAreLeft, SentIsCounted, LateIsOfOneTick, Unrecorded

\* Requests: a row is armed only if it never was, and cancelled only if active.
LEMMA RequestStep ==
  ASSUME TriggersInv, NEW t \in Triggers, Arm(t) \/ CancelTrigger(t)
  PROVE  TriggersInv'
<1> USE AttemptsAssumption
    DEF TriggersInv, LoopTypes, WorksOnDue, AttemptsAreLeft, SentIsCounted, LateIsOfOneTick,
        Unrecorded, TriggerRow, TriggerStatus
<1>1. CASE Arm(t)
  <2>1. /\ trigger[t].status = "none"
        /\ trigger' = [trigger EXCEPT ![t] = [status |-> "active", attempts |-> 0]]
        /\ UNCHANGED <<monitor, sent, late, uncalled, loopRestarts>>
    BY <1>1 DEF Arm
  <2>2. sent[t] <= trigger[t].attempts + loopRestarts + (IF Unrecorded(t) THEN 1 ELSE 0)
    BY <2>1
  <2>3. QED
    BY <2>1, <2>2
<1>2. CASE CancelTrigger(t)
  BY <1>2 DEF CancelTrigger
<1>3. QED
  BY <1>1, <1>2

\* The loop forgets everything: what was not recorded is the restart's.
LEMMA RestartStep ==
  ASSUME TriggersInv, RestartLoop
  PROVE  TriggersInv'
BY AttemptsAssumption
   DEF RestartLoop, AtRest, TriggersInv, LoopTypes, WorksOnDue, AttemptsAreLeft, SentIsCounted,
       LateIsOfOneTick, Unrecorded, TriggerRow, TriggerStatus

\* A tick starts: whom it lists can be tried again, and none of them is cancelled.
LEMMA ListStep ==
  ASSUME TriggersInv, ListTriggers
  PROVE  TriggersInv'
BY AttemptsAssumption
   DEF ListTriggers, Active, AtRest, rowsAlone, TriggersInv, LoopTypes, WorksOnDue, AttemptsAreLeft,
       SentIsCounted, LateIsOfOneTick, Unrecorded, TriggerRow, TriggerStatus

\* A turn that writes no row: no bound is reached, or there is something to close.
LEMMA LookStep ==
  ASSUME TriggersInv, NEW t \in Triggers, NotHit(t) \/ ReadLegs(t) \/ ReadLegsFails(t)
  PROVE  TriggersInv'
<1> USE DEF rowsAlone, TriggersInv, LoopTypes, WorksOnDue, AttemptsAreLeft,
            SentIsCounted, LateIsOfOneTick, Unrecorded
<1>1. CASE NotHit(t)
  BY <1>1 DEF NotHit, NextTurn, AtRest
<1>2. CASE ReadLegs(t)
  BY <1>2 DEF ReadLegs
<1>3. CASE ReadLegsFails(t)
  BY <1>3 DEF ReadLegsFails
<1>4. QED
  BY <1>1, <1>2, <1>3

\* The prices are read or not, or nothing was sent.
LEMMA TickStep ==
  ASSUME TriggersInv, ReadSomePrices \/ GiveUpTick \/ SendFails
  PROVE  TriggersInv'
<1> USE DEF rowsAlone, TriggersInv, LoopTypes, WorksOnDue, AttemptsAreLeft,
            SentIsCounted, LateIsOfOneTick, Unrecorded
<1>1. CASE ReadSomePrices
  BY <1>1 DEF ReadSomePrices, ReadPrices
<1>2. CASE GiveUpTick
  BY <1>2 DEF GiveUpTick, AtRest
<1>3. CASE SendFails
  BY <1>3 DEF SendFails
<1>4. QED
  BY <1>1, <1>2, <1>3

\* A turn that ends a trigger: it is not tried again.
LEMMA SettleStep ==
  ASSUME TriggersInv, NEW t \in Triggers, Refused(t) \/ Orphaned(t)
  PROVE  TriggersInv'
<1> USE AttemptsAssumption
    DEF TriggersInv, LoopTypes, WorksOnDue, AttemptsAreLeft, SentIsCounted, LateIsOfOneTick,
        Unrecorded, NextTurn, AtRest, TriggerRow, TriggerStatus
<1>1. CASE Refused(t)
  BY <1>1 DEF Refused
<1>2. CASE Orphaned(t)
  BY <1>2 DEF Orphaned
<1>3. QED
  BY <1>1, <1>2

LEMMA FireStep ==
  ASSUME TriggersInv, MarkFired
  PROVE  TriggersInv'
BY AttemptsAssumption
   DEF MarkFired, TriggersInv, LoopTypes, WorksOnDue, AttemptsAreLeft, SentIsCounted,
       LateIsOfOneTick, Unrecorded, NextTurn, AtRest, TriggerRow, TriggerStatus

\* The one step that sends: whoever it sends for has an attempt left, and has
\* sent nothing since it was listed.
LEMMA SendStep ==
  ASSUME TriggersInv, SendLegsClose
  PROVE  TriggersInv'
BY AttemptsAssumption
   DEF SendLegsClose, TriggersInv, LoopTypes, WorksOnDue, AttemptsAreLeft, SentIsCounted,
       LateIsOfOneTick, Unrecorded

\* The attempt is recorded, and the order that may be out with it.
LEMMA MissStep ==
  ASSUME TriggersInv, MarkFailed
  PROVE  TriggersInv'
BY AttemptsAssumption
   DEF MarkFailed, Missed, TriggersInv, LoopTypes, WorksOnDue, AttemptsAreLeft, SentIsCounted,
       LateIsOfOneTick, Unrecorded, NextTurn, AtRest, TriggerRow, TriggerStatus

LEMMA TriggersStep ==
  ASSUME TriggersInv, [TriggersNext]_triggerVars
  PROVE  TriggersInv'
<1>1. ASSUME NEW t \in Triggers, Arm(t) \/ CancelTrigger(t)
      PROVE  TriggersInv'
  BY <1>1, RequestStep
<1>2. CASE CloseByHand
  BY <1>2, AsideStep DEF CloseByHand
<1>3. ASSUME NEW o \in resting, CancelClose(o) \/ \E n \in 1..o.left : FillClose(o, n)
      PROVE  TriggersInv'
  BY <1>3, AsideStep DEF CancelClose, FillClose
<1>4. ASSUME NEW q \in Quotes, MoveQuote(q)
      PROVE  TriggersInv'
  BY <1>4, AsideStep DEF MoveQuote
<1>5. ASSUME NEW r \in {"connected", "refusing", "gone"}, SetReach(r)
      PROVE  TriggersInv'
  BY <1>5, AsideStep DEF SetReach
<1>6. CASE RestartLoop
  BY <1>6, RestartStep
<1>7. CASE LoopStep
  <2>1. CASE ListTriggers
    BY <2>1, ListStep
  <2>2. CASE ReadSomePrices \/ GiveUpTick
    BY <2>2, TickStep
  <2>3. ASSUME NEW t \in Triggers, Turn(t)
        PROVE  TriggersInv'
    BY <2>3, LookStep, SettleStep DEF Turn
  <2>4. CASE SendLegsClose
    BY <2>4, SendStep
  <2>5. CASE SendFails
    BY <2>5, TickStep
  <2>6. CASE MarkFired
    BY <2>6, FireStep
  <2>7. CASE MarkFailed
    BY <2>7, MissStep
  <2>8. QED
    BY <1>7, <2>1, <2>2, <2>3, <2>4, <2>5, <2>6, <2>7 DEF LoopStep
<1>8. CASE UNCHANGED triggerVars
  BY <1>8, AsideStep DEF triggerVars
<1>9. QED
  BY <1>1, <1>2, <1>3, <1>4, <1>5, <1>6, <1>7, <1>8 DEF TriggersNext

LEMMA InvAlways == TriggersSpec => []TriggersInv
<1>1. TriggersInv /\ [TriggersNext]_triggerVars => TriggersInv'
  BY TriggersStep
<1>2. QED
  BY InitTriggersInv, <1>1, PTL DEF TriggersSpec

-----------------------------------------------------------------------------

\* For any triggers, attempts and restarts, a trigger sends at most one closing
\* order for each attempt it is given and each restart, and at most one once its
\* cancel was confirmed (check_one, mark_failed, cancel in exit_triggers).
THEOREM OrdersAlwaysBounded == TriggersSpec => []OrdersAreBounded
<1>1. TriggersInv => OrdersAreBounded
  BY DEF TriggersInv, SentIsCounted, LateIsOfOneTick, OrdersAreBounded
<1>2. QED
  BY <1>1, InvAlways, PTL

-----------------------------------------------------------------------------
(* Closing a position at the live broker.                                  *)

CloseFields == {"at", "want", "qty", "exits", "todo", "remaining", "side", "stopLost", "answer",
                "alone", "smooth", "heldBefore", "coverBefore"}

\* What rests: finitely many orders, older than the next id, each in a group of
\* its own side.
BrokerTypes ==
  /\ DOMAIN atBroker = {"held", "book"} /\ held \in Int
  /\ IsFiniteSet(book) /\ nextId \in Nat /\ moves \in Nat
  /\ \A o \in book :
       /\ DOMAIN o = {"id", "group", "side", "kind", "qty", "status"}
       /\ o.id \in Nat /\ o.group \in Nat /\ o.group <= o.id /\ o.id < nextId
       /\ o.qty \in Nat \ {0} /\ o.side \in {"buy", "sell"}
       /\ o.kind \in {"stop", "limit"} /\ o.status \in {"new", "held"}
  /\ \A o, x \in book : o.group = x.group => o.side = x.side

\* Of one request: it asks for an amount or for all and is answered at its end
\* only; one for the whole position never asks for less, nor puts exits back.
OnItsWay(c) ==
  /\ DOMAIN c = CloseFields
  /\ c.at # "done" => c.answer = "none"
  /\ c.at \in {"idle", "list"} => c.exits = {} /\ c.todo = {} /\ c.remaining = 0
  /\ \A o \in c.exits : o.kind \in {"stop", "limit"}
  /\ c.side \in {"buy", "sell"}
  /\ c.want = All => c.qty = All /\ c.at # "rearm"
  /\ c.at = "cancel" => c.remaining = 0
  /\ c.qty = All => c.remaining = 0
  /\ c.qty = All \/ c.qty \in Nat \ {0}
  /\ c.remaining \in Int /\ c.heldBefore \in Int /\ c.coverBefore \in Nat
  /\ c.at = "rearm" => c.remaining > 0

\* A request that nothing came between, of which every call was answered.
Undisturbed(c) == c.alone = "yes" /\ c.smooth = "yes" /\ moves = 0

\* What rests is on its list of orders to cancel, and once it has been through
\* the list nothing rests.
ListTells(c) ==
  Undisturbed(c) =>
    /\ c.at = "cancel" => book \subseteq c.todo
    /\ c.at = "close" => book = {}

SameSide(m, n) == m # 0 /\ n # 0 /\ (m > 0 <=> n > 0)

\* The stops it found are listed as exits, there was none, or the list could
\* not be had and they rest as before.
StopsKnown(c) ==
  \/ \E o \in Stops(c.exits) : o.side = ClosingSide(c.heldBefore)
  \/ c.coverBefore = 0
  \/ c.exits = {} /\ c.todo = {} /\ c.coverBefore <= StopCover

\* A request that nothing came between works on the position it was asked to
\* close, of which it leaves what it is to put exits back for.
StopsTold(c) ==
  c.alone = "yes" =>
    /\ c.at \in {"list", "cancel", "close"} => SameSide(held, c.heldBefore)
    /\ c.at = "close" /\ c.qty # All
         => c.side = "sell" /\ c.remaining > 0 /\ held >= c.qty + c.remaining
    /\ c.at = "rearm" => c.side = "sell" /\ c.heldBefore > 0 /\ held >= c.remaining
    /\ c.at = "list" => c.coverBefore <= StopCover
    /\ c.at \in {"cancel", "close", "rearm"} => StopsKnown(c)

Sound(c) == OnItsWay(c) /\ ListTells(c) /\ StopsTold(c)

CloseInv ==
  /\ BrokerTypes
  /\ DOMAIN close = Closes /\ \A r \in Closes : Sound(close[r])

-----------------------------------------------------------------------------
(* What resting orders hold.                                               *)

\* The quantities of a group.
QtysOf(orders, g) == {o.qty : o \in {x \in orders : x.group = g}}

Whole(orders) == IsFiniteSet(orders) /\ \A o \in orders : o.qty \in Nat

LEMMA HeldByIs ==
  ASSUME NEW S, Whole(S)
  PROVE  HeldBy(S) \in Nat /\ \A o \in S : o.qty <= HeldBy(S)
<1> DEFINE groups == {o.group : o \in S}
           w == [g \in groups |-> Max(QtysOf(S, g))]
<1>1. IsFiniteSet(groups)
  <2> DEFINE f == [o \in S |-> o.group]
  <2>1. groups = {f[o] : o \in S}
    OBVIOUS
  <2>2. IsFiniteSet({f[o] : o \in S})
    BY ImageIsFinite DEF Whole
  <2> QED BY <2>1, <2>2
<1>2. ASSUME NEW g \in groups
      PROVE  w[g] \in Nat /\ \A n \in QtysOf(S, g) : n <= w[g]
  <2> DEFINE M == {x \in S : x.group = g}
             f == [o \in M |-> o.qty]
  <2>1. IsFiniteSet(M)
    BY FS_Subset DEF Whole
  <2>2. IsFiniteSet({f[o] : o \in M})
    BY <2>1, ImageIsFinite
  <2>3. QtysOf(S, g) = {f[o] : o \in M} /\ QtysOf(S, g) # {} /\ Numbers(QtysOf(S, g))
    BY DEF QtysOf, Whole, Numbers
  <2>4. /\ Max(QtysOf(S, g)) \in QtysOf(S, g)
        /\ \A n \in QtysOf(S, g) : Max(QtysOf(S, g)) >= n
    <3> HIDE DEF M, f
    <3> QED BY <2>2, <2>3, MaxIsIn
  <2>5. w[g] = Max(QtysOf(S, g))
    OBVIOUS
  <2> HIDE DEF w
  <2> QED BY <2>3, <2>4, <2>5 DEF Numbers
<1>3. HeldBy(S) = SumFunctionOnSet(w, groups)
  BY Zenon DEF HeldBy, QtysOf
<1>4. SumFunctionOnSet(w, groups) \in Nat /\ \A g \in groups : w[g] <= SumFunctionOnSet(w, groups)
  <2> HIDE DEF groups, w
  <2> QED BY <1>1, <1>2, SumGrows
<1>5. ASSUME NEW o \in S
      PROVE  o.qty <= HeldBy(S)
  <2>1. o.group \in groups /\ o.qty \in QtysOf(S, o.group) /\ o.qty \in Nat
    BY DEF QtysOf, Whole
  <2>2. w[o.group] \in Nat /\ o.qty <= w[o.group] /\ w[o.group] <= SumFunctionOnSet(w, groups)
    <3> HIDE DEF groups, w
    <3> QED BY <1>2, <1>4, <2>1
  <2> HIDE DEF groups, w
  <2> QED BY <1>3, <1>4, <2>1, <2>2
<1> HIDE DEF groups, w
<1> QED BY <1>3, <1>4, <1>5

LEMMA HeldByNone == HeldBy({}) = 0
<1>1. {o.group : o \in {}} = {}
  OBVIOUS
<1> QED BY <1>1, SumOfNone, Zenon DEF HeldBy

\* It does not matter what the orders of a group are called.
LEMMA HeldBySame ==
  ASSUME NEW S, NEW T,
         \A o \in S : \E x \in T : x.group = o.group /\ x.qty = o.qty,
         \A x \in T : \E o \in S : x.group = o.group /\ x.qty = o.qty
  PROVE  HeldBy(S) = HeldBy(T)
<1>1. {o.group : o \in S} = {o.group : o \in T}
  OBVIOUS
<1>2. \A g : QtysOf(S, g) = QtysOf(T, g)
  BY DEF QtysOf
<1>3. \A g \in {o.group : o \in S} : Max(QtysOf(S, g)) = Max(QtysOf(T, g))
  BY <1>2, Zenon
<1> DEFINE v == [g \in {o.group : o \in S} |-> Max(QtysOf(S, g))]
           w == [g \in {o.group : o \in T} |-> Max(QtysOf(T, g))]
<1>4. v = w
  BY <1>1, <1>3, Zenon
<1>5. HeldBy(S) = SumFunctionOnSet(v, {o.group : o \in S})
  BY Zenon DEF HeldBy, QtysOf
<1>6. HeldBy(T) = SumFunctionOnSet(w, {o.group : o \in T})
  BY Zenon DEF HeldBy, QtysOf
<1> HIDE DEF v, w
<1> QED BY <1>1, <1>4, <1>5, <1>6

\* The stops that close a position of h.
ClosingStops(b, h) == {o \in {x \in b : x.side = ClosingSide(h)} : o.kind = "stop"}

LEMMA CoverIs ==
  ASSUME NEW b, NEW h, Whole(b)
  PROVE  /\ HeldBy(ClosingStops(b, h)) \in Nat
         /\ \A o \in ClosingStops(b, h) : o.qty <= HeldBy(ClosingStops(b, h))
         /\ ClosingStops(b, h) = {} => HeldBy(ClosingStops(b, h)) = 0
<1>1. ClosingStops(b, h) \subseteq b
  BY DEF ClosingStops
<1>2. Whole(ClosingStops(b, h))
  BY <1>1, FS_Subset DEF Whole
<1> QED BY <1>2, HeldByIs, HeldByNone

LEMMA CoverIsThat ==
  /\ StopCover = HeldBy(ClosingStops(book, held))
  /\ StopCover' = HeldBy(ClosingStops(book', held'))
BY DEF StopCover, ClosingOrders, ClosingStops, book, held

\* The stops in the book cover a number of shares.
LEMMA CoverIsNat ==
  /\ BrokerTypes => StopCover \in Nat
  /\ BrokerTypes' => StopCover' \in Nat
<1>1. ASSUME BrokerTypes PROVE Whole(book)
  BY <1>1 DEF BrokerTypes, Whole
<1>2. ASSUME BrokerTypes' PROVE Whole(book')
  BY <1>2 DEF BrokerTypes, Whole
<1> QED BY <1>1, <1>2, CoverIsThat, CoverIs

-----------------------------------------------------------------------------
(* The steps of a request.                                                 *)

LEMMA InitCloseInv == LiveCloseInit => CloseInv
<1> SUFFICES ASSUME LiveCloseInit PROVE CloseInv
  OBVIOUS
<1>1. /\ atBroker \in [held : Int, book : SUBSET RestingOrder]
      /\ IsFiniteSet(book) /\ \A o \in book : o.group <= o.id
      /\ \A o, x \in book : o.group = x.group => o.side = x.side
  BY ClosesAssumption DEF LiveCloseInit, book
<1>2. DOMAIN atBroker = {"held", "book"} /\ held \in Int /\ book \subseteq RestingOrder
  BY <1>1 DEF held, book
<1> DEFINE ids == {o.id : o \in book}
<1>3. /\ Max({0} \cup ids) \in Nat
      /\ \A o \in book : o.id <= Max({0} \cup ids)
  <2> DEFINE f == [o \in book |-> o.id]
  <2>1. ids = {f[o] : o \in book}
    OBVIOUS
  <2>2. IsFiniteSet(ids)
    <3> HIDE DEF f, ids
    <3> QED BY <1>1, <2>1, ImageIsFinite
  <2>3. IsFiniteSet({0} \cup ids) /\ Numbers({0} \cup ids)
    <3>1. {0} \cup ids = ids \cup {0}
      OBVIOUS
    <3>2. IsFiniteSet(ids \cup {0})
      <4> HIDE DEF ids
      <4> QED BY <2>2, FS_AddElement
    <3>3. Numbers({0} \cup ids)
      BY <1>2 DEF Numbers, RestingOrder
    <3> QED BY <3>1, <3>2, <3>3
  <2>4. Max({0} \cup ids) \in {0} \cup ids /\ \A n \in {0} \cup ids : Max({0} \cup ids) >= n
    <3> HIDE DEF ids
    <3> QED BY <2>3, MaxIsIn
  <2>5. \A o \in book : o.id \in ids /\ o.id \in Nat
    BY <1>2 DEF RestingOrder
  <2> HIDE DEF ids
  <2> QED BY <2>3, <2>4, <2>5 DEF Numbers
<1>4. nextId = 1 + Max({0} \cup ids) /\ moves = 0
  BY DEF LiveCloseInit
<1>5. BrokerTypes
  <2> HIDE DEF ids
  <2>1. \A o \in book :
          /\ DOMAIN o = {"id", "group", "side", "kind", "qty", "status"}
          /\ o.id \in Nat /\ o.group \in Nat /\ o.qty \in Nat \ {0} /\ o.side \in {"buy", "sell"}
          /\ o.kind \in {"stop", "limit"} /\ o.status \in {"new", "held"}
    BY <1>2 DEF RestingOrder
  <2>2. nextId \in Nat /\ \A o \in book : o.id < nextId
    BY <1>3, <1>4, <2>1
  <2> QED BY <1>1, <1>2, <1>4, <2>1, <2>2 DEF BrokerTypes
<1>6. \A r \in Closes : Sound(NoClose)
  BY DEF Sound, OnItsWay, ListTells, StopsTold, NoClose, CloseFields
<1> QED BY <1>5, <1>6 DEF LiveCloseInit, CloseInv

\* Being disturbed changes nothing but that a request is not alone.
LEMMA DisturbedOnly ==
  ASSUME CloseInv, NEW own, NEW q \in Closes
  PROVE  /\ DOMAIN Disturbed(own) = Closes
         /\ OnItsWay(Disturbed(own)[q])
         /\ q \in own => Disturbed(own)[q] = close[q]
         /\ q \notin own => \/ Disturbed(own)[q].alone = "no"
                            \/ Disturbed(own)[q].at \in {"idle", "done"}
         /\ \/ Disturbed(own)[q] = close[q]
            \/ Disturbed(own)[q] = [close[q] EXCEPT !.alone = "no"]
<1>1. OnItsWay(close[q]) /\ DOMAIN close = Closes
  BY DEF CloseInv, Sound
<1>2. OnItsWay([close[q] EXCEPT !.alone = "no"]) /\ [close[q] EXCEPT !.alone = "no"].alone = "no"
  BY <1>1 DEF OnItsWay, CloseFields
<1> QED BY <1>1, <1>2 DEF Disturbed, Underway

\* Of a request that is no longer alone nothing more is claimed.
LEMMA DisturbedSound ==
  ASSUME CloseInv, NEW own, NEW q \in Closes, q \notin own, close'[q] = Disturbed(own)[q]
  PROVE  Sound(close[q])'
<1>1. OnItsWay(close[q])'
  <2>1. OnItsWay(close'[q])
    BY DisturbedOnly
  <2> QED BY <2>1 DEF OnItsWay
<1>2. close'[q].alone = "no" \/ close'[q].at \in {"idle", "done"}
  BY DisturbedOnly
<1>3. ListTells(close[q])' /\ StopsTold(close[q])'
  BY <1>2 DEF ListTells, Undisturbed, StopsTold
<1> QED BY <1>1, <1>3 DEF Sound

\* What is under way stays sound while the position grows on its side and the
\* stops cover as much, nothing new rests and no stop moves.
LEMMA StaysTold ==
  ASSUME NEW q \in Closes, Sound(close[q]), close'[q] = close[q], BrokerTypes, held' \in Int,
         held > 0 => held' >= held, held < 0 => held' < 0, held # 0 => StopCover' = StopCover
  PROVE  StopsTold(close[q])'
<1>1. OnItsWay(close[q]) /\ StopsTold(close[q]) /\ held \in Int
  BY DEF Sound, BrokerTypes
<1>2. SameSide(held, close[q].heldBefore) => SameSide(held', close'[q].heldBefore)
  BY <1>1 DEF SameSide
<1>3. held # 0 /\ StopsKnown(close[q]) => StopsKnown(close[q])'
  BY DEF StopsKnown
<1> SUFFICES ASSUME close[q].alone = "yes"
             PROVE  StopsTold(close[q])'
  BY DEF StopsTold
<1>4. CASE close[q].at \in {"list", "cancel"}
  BY <1>1, <1>2, <1>3, <1>4 DEF StopsTold, SameSide
<1>5. CASE close[q].at = "close"
  <2>1. SameSide(held, close[q].heldBefore) /\ StopsKnown(close[q]) /\ held # 0
    BY <1>1, <1>5 DEF StopsTold, SameSide
  <2>2. close[q].qty # All =>
          close[q].side = "sell" /\ close[q].remaining > 0 /\ held >= close[q].qty + close[q].remaining
    BY <1>1, <1>5 DEF StopsTold
  <2>3. close[q].qty # All => held' >= close[q].qty + close[q].remaining
    BY <1>1, <2>2 DEF OnItsWay
  <2> QED BY <1>2, <1>3, <1>5, <2>1, <2>2, <2>3 DEF StopsTold
<1>6. CASE close[q].at = "rearm"
  <2>1. /\ close[q].side = "sell" /\ close[q].heldBefore > 0 /\ held >= close[q].remaining
        /\ StopsKnown(close[q]) /\ close[q].remaining > 0 /\ close[q].remaining \in Int
    BY <1>1, <1>6 DEF StopsTold, OnItsWay
  <2> QED BY <1>1, <1>3, <1>6, <2>1 DEF StopsTold
<1> QED BY <1>4, <1>5, <1>6 DEF StopsTold

\* A step of request r alone: the rest is a matter of what r becomes.
LEMMA OneRequestMoves ==
  ASSUME CloseInv, NEW r \in Closes, NEW d, close' = [close EXCEPT ![r] = d],
         UNCHANGED <<atBroker, nextId, moves>>, Sound(d)
  PROVE  CloseInv'
<1>1. BrokerTypes' /\ held' = held /\ book' = book
  BY DEF CloseInv, BrokerTypes, held, book
<1>2. \A q \in Closes : close'[q] = IF q = r THEN d ELSE close[q]
  BY DEF CloseInv
<1>3. StopCover' = StopCover
  BY <1>1, CoverIsThat
<1>4. \A q \in Closes : Sound(close'[q])
  BY <1>2 DEF CloseInv
<1>5. \A q \in Closes : Sound(close[q])'
  BY <1>1, <1>3, <1>4 DEF Sound, OnItsWay, ListTells, Undisturbed, StopsTold, StopsKnown
<1>6. DOMAIN close' = Closes
  BY DEF CloseInv
<1> QED BY <1>1, <1>5, <1>6 DEF CloseInv

\* A request one of whose calls failed is no longer smooth.
LEMMA TroubleStep ==
  ASSUME CloseInv, NEW r \in Closes, NEW c, Trouble(r, c), OnItsWay(c), StopsTold(c),
         UNCHANGED <<atBroker, nextId, moves>>
  PROVE  CloseInv'
<1> DEFINE d == [c EXCEPT !.smooth = "no"]
<1>1. OnItsWay(d) /\ ListTells(d)
  BY DEF OnItsWay, CloseFields, ListTells, Undisturbed
<1>2. StopsTold(d)
  BY DEF OnItsWay, CloseFields, StopsTold, StopsKnown
<1>3. close' = [close EXCEPT ![r] = d]
  BY DEF Trouble
<1> HIDE DEF d
<1> QED BY <1>1, <1>2, <1>3, OneRequestMoves DEF Sound

\* What is answered is past all of it.
LEMMA AnsweredIsDone ==
  ASSUME NEW answer
  PROVE  /\ Sound(Answered(answer)) /\ OnItsWay(Answered(answer)) /\ StopsTold(Answered(answer))
         /\ Answered(answer).at = "done" /\ Answered(answer).answer = answer
BY DEF Sound, Answered, NoClose, OnItsWay, CloseFields, ListTells, StopsTold

-----------------------------------------------------------------------------

LEMMA AsksAndLists ==
  ASSUME CloseInv, NEW r \in Closes, Ask(r) \/ ListOrders(r) \/ ListFails(r)
  PROVE  CloseInv'
<1> DEFINE c == close[r]
<1>1. OnItsWay(c) /\ ListTells(c) /\ StopsTold(c) /\ BrokerTypes
  BY DEF CloseInv, Sound
<1>2. CASE Ask(r)
  <2>1. PICK want \in Wants :
          close' = [close EXCEPT ![r] = [@ EXCEPT !.at = "list", !.want = want, !.qty = want,
                                           !.heldBefore = held, !.coverBefore = StopCover]]
    BY <1>2 DEF Ask
  <2>2. (want = All \/ want \in Nat \ {0}) /\ StopCover \in Nat /\ held \in Int /\ held # 0
    BY <1>1, <1>2, ClosesAssumption, CoverIsNat DEF BrokerTypes, Ask
  <2> DEFINE d == [c EXCEPT !.at = "list", !.want = want, !.qty = want,
                            !.heldBefore = held, !.coverBefore = StopCover]
  <2>3. OnItsWay(d) /\ ListTells(d)
    BY <1>1, <1>2, <2>2 DEF OnItsWay, CloseFields, ListTells, Ask
  <2>4. StopsTold(d)
    BY <1>1, <2>2 DEF OnItsWay, CloseFields, StopsTold, SameSide
  <2>5. close' = [close EXCEPT ![r] = d]
    BY <2>1 DEF CloseInv
  <2> HIDE DEF d
  <2> QED BY <1>2, <2>3, <2>4, <2>5, OneRequestMoves DEF Ask, Sound
<1>3. CASE ListOrders(r)
  <2> DEFINE d == [c EXCEPT !.at = "cancel", !.exits = book, !.todo = book]
  <2>1. WorkingOf(book) = book
    BY <1>1 DEF BrokerTypes, WorkingOf
  <2>2. OnItsWay(d)
    BY <1>1, <1>3 DEF OnItsWay, CloseFields, ListOrders, BrokerTypes
  <2>3. ListTells(d)
    BY <1>1 DEF OnItsWay, CloseFields, ListTells
  <2>4. StopsTold(d)
    <3> SUFFICES ASSUME c.alone = "yes" PROVE StopsTold(d)
      BY <1>1 DEF StopsTold, OnItsWay, CloseFields
    <3>1. SameSide(held, c.heldBefore) /\ c.coverBefore <= StopCover /\ c.coverBefore \in Nat
      BY <1>1, <1>3 DEF StopsTold, ListOrders, OnItsWay
    <3>2. ClosingSide(held) = ClosingSide(c.heldBefore)
      BY <3>1 DEF SameSide, ClosingSide
    <3>3. ClosingStops(book, held) = {} => c.coverBefore = 0
      <4>1. Whole(book)
        BY <1>1 DEF BrokerTypes, Whole
      <4>2. ClosingStops(book, held) = {} => StopCover = 0
        BY <4>1, CoverIs, CoverIsThat
      <4> QED BY <3>1, <4>2
    <3>4. ClosingStops(book, held) # {} => \E o \in Stops(book) : o.side = ClosingSide(c.heldBefore)
      BY <3>2 DEF ClosingStops, Stops
    <3>5. StopsKnown(d)
      BY <1>1, <3>3, <3>4 DEF StopsKnown, OnItsWay, CloseFields
    <3> QED BY <1>1, <3>1, <3>5 DEF StopsTold, OnItsWay, CloseFields
  <2>5. close' = [close EXCEPT ![r] = d]
    BY <1>3, <2>1 DEF ListOrders, CloseInv
  <2> HIDE DEF d
  <2> QED BY <1>3, <2>2, <2>3, <2>4, <2>5, OneRequestMoves DEF ListOrders, Sound
<1>4. CASE ListFails(r)
  <2> DEFINE d == [c EXCEPT !.at = "cancel"]
  <2>1. OnItsWay(d)
    BY <1>1, <1>4 DEF OnItsWay, CloseFields, ListFails
  <2>2. StopsTold(d)
    BY <1>1, <1>4 DEF OnItsWay, CloseFields, ListFails, StopsTold, StopsKnown
  <2>3. Trouble(r, d)
    BY <1>4 DEF ListFails
  <2> HIDE DEF d
  <2> QED BY <1>4, <2>1, <2>2, <2>3, TroubleStep DEF ListFails
<1> QED BY <1>2, <1>3, <1>4

\* Orders that leave leave the rest as it was.
LEMMA FewerRest ==
  ASSUME BrokerTypes, DOMAIN atBroker' = {"held", "book"}, held' \in Int, book' \subseteq book,
         UNCHANGED <<nextId, moves>>
  PROVE  BrokerTypes'
<1>1. IsFiniteSet(book')
  BY FS_Subset DEF BrokerTypes
<1> QED BY <1>1 DEF BrokerTypes

LEMMA Cancels ==
  ASSUME CloseInv, NEW r \in Closes, CancelOne(r) \/ CancelFails(r)
  PROVE  CloseInv'
<1>1. OnItsWay(close[r]) /\ ListTells(close[r]) /\ StopsTold(close[r]) /\ BrokerTypes
  BY DEF CloseInv, Sound
<1>2. CASE CancelOne(r)
  <2>1. PICK o \in close[r].todo :
          /\ IF o \in book
             THEN atBroker' = [atBroker EXCEPT !.book = {x \in book : x.group # o.group}]
             ELSE UNCHANGED atBroker
          /\ close' = [Disturbed(IF o \in book THEN {r} ELSE Closes)
                         EXCEPT ![r].todo = StillToCancel(close[r], o)]
    BY <1>2 DEF CancelOne
  <2> DEFINE own == IF o \in book THEN {r} ELSE Closes
             d == [close[r] EXCEPT !.todo = close[r].todo \ {o}]
  <2>2. held' = held /\ book' \subseteq book /\ o \notin book' /\ DOMAIN atBroker' = {"held", "book"}
    BY <1>1, <2>1 DEF BrokerTypes, held, book
  <2>3. BrokerTypes' /\ moves' = moves
    BY <1>1, <1>2, <2>2, FewerRest DEF BrokerTypes, CancelOne
  <2>4. /\ DOMAIN close' = Closes /\ close'[r] = d
        /\ \A q \in Closes \ {r} : close'[q] = Disturbed(own)[q]
    <3>1. DOMAIN Disturbed(own) = Closes /\ Disturbed(own)[r] = close[r]
      BY DisturbedOnly
    <3> QED BY <2>1, <3>1 DEF StillToCancel
  <2>5. Sound(close[r])'
    <3>1. /\ OnItsWay(d) /\ d.todo = close[r].todo \ {o} /\ d.at = close[r].at
          /\ d.alone = close[r].alone /\ d.smooth = close[r].smooth
          /\ d.heldBefore = close[r].heldBefore /\ d.coverBefore = close[r].coverBefore
          /\ d.exits = close[r].exits
      BY <1>1 DEF OnItsWay, CloseFields
    <3>2. close[r].at = "cancel"
      BY <1>2 DEF CancelOne
    <3>3. ListTells(close[r])'
      BY <1>1, <2>2, <2>3, <2>4, <3>1, <3>2 DEF ListTells, Undisturbed
    <3>4. StopsTold(close[r])'
      <4>1. close[r].alone = "yes" => SameSide(held, close[r].heldBefore) /\ StopsKnown(close[r])
        BY <1>1, <3>2 DEF StopsTold
      <4>2. StopsKnown(close[r]) =>
              \/ \E x \in Stops(close[r].exits) : x.side = ClosingSide(close[r].heldBefore)
              \/ close[r].coverBefore = 0
        BY <2>1 DEF StopsKnown
      <4>3. StopsKnown(close[r]) => StopsKnown(close[r])'
        <5> HIDE DEF d
        <5> QED BY <2>4, <3>1, <4>2 DEF StopsKnown
      <4> HIDE DEF d
      <4> QED BY <2>2, <2>4, <3>1, <3>2, <4>1, <4>3 DEF StopsTold
    <3>5. OnItsWay(close[r])'
      BY <2>4, <3>1 DEF OnItsWay
    <3> QED BY <3>3, <3>4, <3>5 DEF Sound
  <2>6. ASSUME NEW q \in Closes \ {r} PROVE Sound(close[q])'
    <3>1. CASE o \in book
      <4>1. q \notin own /\ close'[q] = Disturbed(own)[q]
        BY <3>1, <2>4
      <4> QED BY <4>1, DisturbedSound
    <3>2. CASE o \notin book
      <4>1. own = Closes /\ (q \in own => Disturbed(own)[q] = close[q])
        BY <3>2, DisturbedOnly
      <4>2. close'[q] = close[q]
        BY <2>4, <4>1
      <4>3. book' = book
        BY <3>2, <2>1 DEF book
      <4>4. StopCover' = StopCover
        BY <2>2, <4>3, CoverIsThat
      <4>5. Sound(close[q])
        BY DEF CloseInv
      <4> QED BY <2>2, <2>3, <4>2, <4>3, <4>4, <4>5
          DEF Sound, OnItsWay, ListTells, Undisturbed, StopsTold, StopsKnown
    <3> QED BY <3>1, <3>2
  <2> QED BY <2>3, <2>4, <2>5, <2>6 DEF CloseInv
<1>3. CASE CancelFails(r)
  <2>1. PICK o \in close[r].todo :
          Trouble(r, [close[r] EXCEPT !.todo = StillToCancel(close[r], o)])
    BY <1>3 DEF CancelFails
  <2> DEFINE d == [close[r] EXCEPT !.todo = StillToCancel(close[r], o)]
  <2>2. OnItsWay(d)
    BY <1>1, <1>3 DEF OnItsWay, CloseFields, CancelFails
  <2>3. StopsTold(d)
    BY <1>1, <1>3 DEF OnItsWay, CloseFields, StopsTold, StopsKnown, CancelFails
  <2> HIDE DEF d
  <2> QED BY <1>3, <2>1, <2>2, <2>3, TroubleStep DEF CancelFails, d
<1> QED BY <1>2, <1>3

LEMMA Reads ==
  ASSUME CloseInv, NEW r \in Closes, ReadHeld(r) \/ ReadHeldFails(r)
  PROVE  CloseInv'
<1> DEFINE c == close[r]
<1>1. /\ OnItsWay(c) /\ ListTells(c) /\ StopsTold(c) /\ BrokerTypes
      /\ c.at = "cancel" /\ c.todo = {}
  BY DEF CloseInv, Sound, ReadHeld, ReadHeldFails
<1>2. Undisturbed(c) => book = {}
  BY <1>1 DEF ListTells
<1>3. c.alone = "yes" => SameSide(held, c.heldBefore) /\ StopsKnown(c)
  BY <1>1 DEF StopsTold
<1>4. CASE ReadHeld(r)
  <2> DEFINE d == IF c.qty = All THEN [c EXCEPT !.at = "close"]
                  ELSE IF held = 0 THEN Answered("rejected") ELSE Sized(c, held)
  <2>1. close' = [close EXCEPT ![r] = d]
    BY <1>4 DEF ReadHeld, CloseInv
  <2>2. CASE c.qty = All
    <3> DEFINE e == [c EXCEPT !.at = "close"]
    <3>1. OnItsWay(e) /\ ListTells(e)
      BY <1>1, <1>2 DEF OnItsWay, CloseFields, ListTells, Undisturbed
    <3>2. StopsTold(e)
      BY <1>1, <1>3, <2>2 DEF OnItsWay, CloseFields, StopsTold, StopsKnown
    <3>3. close' = [close EXCEPT ![r] = e]
      BY <2>1, <2>2
    <3> HIDE DEF e
    <3> QED BY <1>4, <3>1, <3>2, <3>3, OneRequestMoves DEF ReadHeld, Sound
  <2>3. CASE c.qty # All /\ held = 0
    BY <1>4, <2>1, <2>3, OneRequestMoves, AnsweredIsDone DEF ReadHeld
  <2>4. CASE c.qty # All /\ held # 0
    <3> DEFINE e == Sized(c, held)
    <3>1. /\ OnItsWay(e) /\ e.at = "close" /\ e.alone = c.alone /\ e.smooth = c.smooth
          /\ e.exits = c.exits /\ e.todo = c.todo
          /\ e.heldBefore = c.heldBefore /\ e.coverBefore = c.coverBefore
      <4>1. ClosingSide(held) \in {"buy", "sell"} /\ held \in Int /\ c.qty \in Nat \ {0}
        BY <1>1, <2>4 DEF OnItsWay, BrokerTypes, ClosingSide
      <4>2. CASE c.qty >= held
        <5>1. e = [c EXCEPT !.at = "close", !.side = ClosingSide(held), !.qty = All]
          BY <4>2 DEF Sized
        <5>2. c.want # All
          BY <1>1, <2>4 DEF OnItsWay
        <5>3. c.remaining = 0
          BY <1>1 DEF OnItsWay
        <5> HIDE DEF e
        <5> QED BY <1>1, <4>1, <5>1, <5>2, <5>3 DEF OnItsWay, CloseFields
      <4>3. CASE ~(c.qty >= held)
        <5>1. e = [c EXCEPT !.at = "close", !.side = ClosingSide(held), !.remaining = held - c.qty]
          BY <4>3 DEF Sized
        <5>2. held - c.qty \in Int
          BY <4>1
        <5> HIDE DEF e
        <5> QED BY <1>1, <2>4, <4>1, <5>1, <5>2 DEF OnItsWay, CloseFields
      <4> QED BY <4>2, <4>3
    <3>2. ListTells(e)
      BY <1>2, <3>1 DEF ListTells, Undisturbed
    <3>3. e.qty # All => e.side = "sell" /\ e.remaining > 0 /\ held >= e.qty + e.remaining
      BY <1>1, <2>4 DEF OnItsWay, CloseFields, Sized, BrokerTypes, ClosingSide
    <3>4. StopsTold(e)
      <4> HIDE DEF e
      <4> QED BY <1>3, <3>1, <3>3 DEF StopsTold, StopsKnown
    <3>5. close' = [close EXCEPT ![r] = e]
      BY <2>1, <2>4
    <3> HIDE DEF e
    <3> QED BY <1>4, <3>1, <3>2, <3>4, <3>5, OneRequestMoves DEF ReadHeld, Sound
  <2> QED BY <2>2, <2>3, <2>4
<1>5. CASE ReadHeldFails(r)
  BY <1>5, TroubleStep, AnsweredIsDone DEF ReadHeldFails
<1> QED BY <1>4, <1>5

LEMMA Sells ==
  ASSUME CloseInv, NEW r \in Closes, SendClose(r) \/ CloseRefused(r) \/ CloseFails(r)
  PROVE  CloseInv'
<1> DEFINE c == close[r]
<1>1. OnItsWay(c) /\ StopsTold(c) /\ BrokerTypes
  BY DEF CloseInv, Sound
<1>2. CASE SendClose(r)
  <2> DEFINE d == IF c.qty # All /\ c.remaining > 0 THEN [c EXCEPT !.at = "rearm"]
                  ELSE Answered("closed")
  <2>1. /\ held' \in Int /\ book' = book /\ DOMAIN atBroker' = {"held", "book"}
        /\ moves' = moves /\ nextId' = nextId
        /\ c.qty # All /\ held > 0 => held' = held - c.qty
    BY <1>1, <1>2 DEF SendClose, SharesToSell, OnItsWay, BrokerTypes, Abs, held, book
  <2>2. BrokerTypes'
    BY <1>1, <2>1, FewerRest
  <2>3. OnItsWay(d) /\ d.at \in {"rearm", "done"}
    BY <1>1, <1>2, AnsweredIsDone DEF OnItsWay, CloseFields, SendClose
  <2>4. /\ DOMAIN close' = Closes /\ close'[r] = d
        /\ \A q \in Closes \ {r} : close'[q] = Disturbed({r})[q]
    BY <1>2, DisturbedOnly DEF SendClose
  <2>5. ASSUME NEW q \in Closes \ {r} PROVE Sound(close[q])'
    BY <2>4, DisturbedSound
  <2>6. OnItsWay(close[r])' /\ ListTells(close[r])'
    BY <2>3, <2>4 DEF OnItsWay, ListTells
  <2>7. StopsTold(close[r])'
    <3>1. CASE c.qty # All /\ c.remaining > 0 /\ c.alone = "yes"
      <4>1. /\ c.side = "sell" /\ held >= c.qty + c.remaining /\ SameSide(held, c.heldBefore)
            /\ StopsKnown(c) /\ c.qty \in Nat \ {0} /\ c.remaining \in Int /\ held \in Int
        BY <1>1, <1>2, <3>1 DEF StopsTold, SendClose, OnItsWay, BrokerTypes
      <4>2. held' >= c.remaining /\ held > 0 /\ held' > 0 /\ c.heldBefore > 0
        BY <2>1, <3>1, <4>1 DEF SameSide
      <4>3. StopCover' = StopCover
        <5>1. ClosingSide(held') = ClosingSide(held)
          BY <4>2 DEF ClosingSide
        <5>2. ClosingStops(book', held') = ClosingStops(book, held)
          BY <2>1, <5>1 DEF ClosingStops
        <5> QED BY <5>2, CoverIsThat
      <4>4. /\ d.at = "rearm" /\ d.side = c.side /\ d.heldBefore = c.heldBefore
            /\ d.remaining = c.remaining /\ d.exits = c.exits /\ d.todo = c.todo
            /\ d.coverBefore = c.coverBefore
        BY <1>1, <3>1 DEF OnItsWay, CloseFields
      <4> HIDE DEF c, d
      <4> QED BY <2>4, <4>1, <4>2, <4>3, <4>4 DEF StopsTold, StopsKnown
    <3>2. CASE c.qty # All /\ c.remaining > 0 /\ c.alone # "yes"
      <4>1. d.alone # "yes"
        BY <1>1, <3>2 DEF OnItsWay, CloseFields
      <4> QED BY <2>4, <4>1 DEF StopsTold
    <3>3. CASE ~(c.qty # All /\ c.remaining > 0)
      <4>1. d.at = "done"
        BY <3>3, AnsweredIsDone
      <4> QED BY <2>4, <4>1 DEF StopsTold
    <3> QED BY <3>1, <3>2, <3>3
  <2> QED BY <2>2, <2>4, <2>5, <2>6, <2>7 DEF CloseInv, Sound
<1>3. CASE CloseRefused(r)
  BY <1>3, OneRequestMoves, AnsweredIsDone DEF CloseRefused
<1>4. CASE CloseFails(r)
  BY <1>4, TroubleStep, AnsweredIsDone DEF CloseFails
<1> QED BY <1>2, <1>3, <1>4

\* What is put back: one group under a new id, all on the side of what was there.
LEMMA RearmedAre ==
  ASSUME BrokerTypes, NEW c, OnItsWay(c), NEW orders \in Rearmed(ToRearm(c), c.remaining)
  PROVE  /\ \A o \in orders :
              /\ DOMAIN o = {"id", "group", "side", "kind", "qty", "status"}
              /\ o.id \in {nextId, nextId + 1} /\ o.group = nextId /\ o.side = c.side
              /\ o.qty = c.remaining /\ o.kind \in {"stop", "limit"} /\ o.status \in {"new", "held"}
         /\ IsFiniteSet(orders)
         /\ Stops(ToRearm(c)) # {} => \E o \in orders : o.kind = "stop"
<1> DEFINE exits == ToRearm(c)
           both == Stops(exits) \notin {{}, exits}
           order(kind, side) ==
             [id |-> IF kind = "stop" THEN nextId ELSE nextId + 1, group |-> nextId, side |-> side,
              kind |-> kind, qty |-> c.remaining,
              status |-> IF both /\ kind = "stop" THEN "held" ELSE "new"]
<1>1. PICK a \in exits : orders = {order(kind, a.side) : kind \in {o.kind : o \in exits}}
  BY DEF Rearmed, Stops
<1>2. a.side = c.side /\ \A o \in exits : o.kind \in {"stop", "limit"}
  BY DEF ToRearm, OnItsWay
<1>3. orders \subseteq {order("stop", c.side), order("limit", c.side)}
  <2> HIDE DEF order
  <2> QED BY <1>1, <1>2
<1>4. IsFiniteSet({order("stop", c.side), order("limit", c.side)})
  <2>1. IsFiniteSet({order("stop", c.side)} \cup {order("limit", c.side)})
    <3> HIDE DEF order
    <3>1. IsFiniteSet({order("stop", c.side)})
      BY FS_Singleton
    <3> QED BY <3>1, FS_AddElement
  <2> HIDE DEF order
  <2>2. {order("stop", c.side), order("limit", c.side)} = {order("stop", c.side)} \cup {order("limit", c.side)}
    OBVIOUS
  <2> QED BY <2>1, <2>2
<1>5. IsFiniteSet(orders)
  <2> HIDE DEF order
  <2> QED BY <1>3, <1>4, FS_Subset
<1>6. \A o \in orders : o = order("stop", c.side) \/ o = order("limit", c.side)
  <2> HIDE DEF order
  <2> QED BY <1>3
<1>7. ASSUME Stops(exits) # {} PROVE \E o \in orders : o.kind = "stop"
  <2>1. "stop" \in {o.kind : o \in exits}
    BY <1>7 DEF Stops
  <2>2. order("stop", a.side) \in orders
    <3> HIDE DEF order, exits
    <3> QED BY <1>1, <2>1
  <2>3. order("stop", a.side).kind = "stop"
    OBVIOUS
  <2> QED BY <2>2, <2>3
<1> QED BY <1>5, <1>6, <1>7

LEMMA Rearms ==
  ASSUME CloseInv, NEW r \in Closes, NothingToRearm(r) \/ Rearm(r) \/ RearmFails(r)
  PROVE  CloseInv'
<1>1. OnItsWay(close[r]) /\ BrokerTypes
  BY DEF CloseInv, Sound
<1>2. CASE NothingToRearm(r)
  BY <1>2, OneRequestMoves, AnsweredIsDone DEF NothingToRearm
<1>3. CASE Rearm(r)
  <2>1. PICK orders \in Rearmed(ToRearm(close[r]), close[r].remaining) :
          atBroker' = [atBroker EXCEPT !.book = @ \cup orders]
    BY <1>3 DEF Rearm
  <2>2. /\ \A o \in orders :
             /\ DOMAIN o = {"id", "group", "side", "kind", "qty", "status"}
             /\ o.id \in {nextId, nextId + 1} /\ o.group = nextId /\ o.side = close[r].side
             /\ o.qty = close[r].remaining /\ o.kind \in {"stop", "limit"} /\ o.status \in {"new", "held"}
        /\ IsFiniteSet(orders)
    BY <1>1, <2>1, RearmedAre
  <2>3. held' = held /\ book' = book \cup orders /\ DOMAIN atBroker' = {"held", "book"}
    BY <1>1, <2>1 DEF BrokerTypes, held, book
  <2>4. BrokerTypes'
    <3>1. IsFiniteSet(book')
      BY <1>1, <2>2, <2>3, FS_Union DEF BrokerTypes
    <3>2. nextId' = nextId + 2 /\ moves' = moves /\ nextId \in Nat
      BY <1>1, <1>3 DEF Rearm, BrokerTypes
    <3>3. close[r].remaining \in Nat \ {0} /\ close[r].side \in {"buy", "sell"}
      BY <1>1, <1>3 DEF Rearm, OnItsWay
    <3>4. \A o \in orders :
            /\ DOMAIN o = {"id", "group", "side", "kind", "qty", "status"}
            /\ o.id \in Nat /\ o.group \in Nat /\ o.group <= o.id /\ o.id < nextId'
            /\ o.qty \in Nat \ {0} /\ o.side \in {"buy", "sell"}
            /\ o.kind \in {"stop", "limit"} /\ o.status \in {"new", "held"}
      BY <2>2, <3>2, <3>3
    <3>5. \A o \in book :
            /\ DOMAIN o = {"id", "group", "side", "kind", "qty", "status"}
            /\ o.id \in Nat /\ o.group \in Nat /\ o.group <= o.id /\ o.id < nextId' /\ o.group < nextId
            /\ o.qty \in Nat \ {0} /\ o.side \in {"buy", "sell"}
            /\ o.kind \in {"stop", "limit"} /\ o.status \in {"new", "held"}
      BY <1>1, <3>2 DEF BrokerTypes
    <3>6. \A o, x \in book' : o.group = x.group => o.side = x.side
      BY <1>1, <2>2, <2>3, <3>2, <3>5 DEF BrokerTypes
    <3> QED BY <1>1, <2>3, <3>1, <3>2, <3>4, <3>5, <3>6 DEF BrokerTypes
  <2>5. /\ DOMAIN close' = Closes /\ close'[r] = Answered("closed")
        /\ \A q \in Closes \ {r} : close'[q] = Disturbed({r})[q]
    BY <1>3, DisturbedOnly DEF Rearm
  <2>6. Sound(close[r])'
    BY <2>5, AnsweredIsDone DEF Sound, OnItsWay, ListTells, StopsTold
  <2>7. ASSUME NEW q \in Closes \ {r} PROVE Sound(close[q])'
    BY <2>5, DisturbedSound
  <2> QED BY <2>4, <2>5, <2>6, <2>7 DEF CloseInv
<1>4. CASE RearmFails(r)
  <2> DEFINE lost == [Answered("closed") EXCEPT !.stopLost = StopLost(close[r])]
  <2>1. Sound(lost) /\ OnItsWay(lost) /\ StopsTold(lost)
    BY DEF Sound, Answered, NoClose, OnItsWay, CloseFields, ListTells, StopsTold
  <2>2. Trouble(r, lost) \/ close' = [close EXCEPT ![r] = lost]
    BY <1>4 DEF RearmFails
  <2> HIDE DEF lost
  <2> QED BY <1>4, <2>1, <2>2, OneRequestMoves, TroubleStep DEF RearmFails
<1> QED BY <1>2, <1>3, <1>4

-----------------------------------------------------------------------------
(* What comes between.                                                     *)

\* An exit that fills comes between; an order that adds to the position takes
\* none of the stops with it.
LEMMA Fills ==
  ASSUME CloseInv, OrderFills
  PROVE  CloseInv'
<1>1. PICK o \in book :
        /\ atBroker' = [held |-> IF o.side = "buy" THEN held + o.qty ELSE held - o.qty,
                        book |-> {x \in book : x.group # o.group}]
        /\ close' = Disturbed(IF o.side = ClosingSide(held) THEN {} ELSE Closes)
  BY DEF OrderFills
<1>2. moves' = moves /\ nextId' = nextId /\ BrokerTypes
  BY DEF OrderFills, CloseInv
<1>3. /\ held' \in Int /\ DOMAIN atBroker' = {"held", "book"}
      /\ book' = {x \in book : x.group # o.group}
      /\ held' = IF o.side = "buy" THEN held + o.qty ELSE held - o.qty
  BY <1>1, <1>2 DEF BrokerTypes, held, book
<1>4. BrokerTypes'
  BY <1>2, <1>3, FewerRest
<1>5. DOMAIN close' = Closes /\ \A q \in Closes : OnItsWay(close'[q])
  BY <1>1, DisturbedOnly DEF Disturbed
<1>6. ASSUME NEW q \in Closes PROVE ListTells(close[q])' /\ StopsTold(close[q])'
  <2>1. CASE o.side = ClosingSide(held)
    <3>1. close' = Disturbed({})
      BY <1>1, <2>1
    <3> QED BY <3>1, DisturbedOnly DEF ListTells, Undisturbed, StopsTold
  <2>2. CASE o.side # ClosingSide(held)
    <3>1. close' = Disturbed(Closes)
      BY <1>1, <2>2
    <3>2. close'[q] = close[q] /\ Sound(close[q])
      BY <3>1, DisturbedOnly DEF CloseInv
    <3>3. ListTells(close[q])'
      BY <1>2, <1>3, <3>2 DEF Sound, ListTells, Undisturbed
    <3>4. (held > 0 => held' >= held) /\ (held < 0 => held' < 0)
      BY <1>2, <1>3, <2>2 DEF BrokerTypes, ClosingSide
    <3>5. ASSUME held # 0 PROVE StopCover' = StopCover
      <4>1. ClosingSide(held') = ClosingSide(held)
        BY <1>2, <1>3, <3>4, <3>5 DEF ClosingSide, BrokerTypes
      <4>2. ClosingStops(book', held') = ClosingStops(book, held)
        BY <1>2, <1>3, <2>2, <4>1 DEF ClosingStops, BrokerTypes
      <4> QED BY <4>2, CoverIsThat
    <3>6. StopsTold(close[q])'
      BY <1>2, <1>3, <3>2, <3>4, <3>5, StaysTold
    <3> QED BY <3>3, <3>6
  <2> QED BY <2>1, <2>2
<1> QED BY <1>4, <1>5, <1>6 DEF CloseInv, Sound, OnItsWay

LEMMA Moves ==
  ASSUME CloseInv, MoveStop
  PROVE  CloseInv'
<1>1. PICK o \in Stops(book) :
        atBroker' = [atBroker EXCEPT !.book = (@ \ {o}) \cup {[o EXCEPT !.id = nextId]}]
  BY DEF MoveStop
<1> DEFINE moved == [o EXCEPT !.id = nextId]
<1>2. BrokerTypes /\ moves' = moves + 1 /\ close' = close /\ nextId' = nextId + 1 /\ o \in book
  BY DEF MoveStop, CloseInv, Stops
<1>3. held' = held /\ DOMAIN atBroker' = {"held", "book"} /\ book' = (book \ {o}) \cup {moved}
  BY <1>1, <1>2 DEF BrokerTypes, held, book
<1>4. /\ DOMAIN moved = {"id", "group", "side", "kind", "qty", "status"} /\ moved.id = nextId
      /\ moved.group = o.group /\ moved.side = o.side /\ moved.kind = o.kind
      /\ moved.qty = o.qty /\ moved.status = o.status
  BY <1>2 DEF BrokerTypes
<1> HIDE DEF moved
<1>5. BrokerTypes'
  <2>1. IsFiniteSet(book \ {o})
    BY <1>2, FS_Subset DEF BrokerTypes
  <2>2. IsFiniteSet(book')
    BY <1>3, <2>1, FS_AddElement
  <2>3. \A x \in book' :
          /\ DOMAIN x = {"id", "group", "side", "kind", "qty", "status"}
          /\ x.id \in Nat /\ x.group \in Nat /\ x.group <= x.id /\ x.id < nextId'
          /\ x.qty \in Nat \ {0} /\ x.side \in {"buy", "sell"}
          /\ x.kind \in {"stop", "limit"} /\ x.status \in {"new", "held"}
    BY <1>2, <1>3, <1>4 DEF BrokerTypes
  <2>4. \A x, y \in book' : x.group = y.group => x.side = y.side
    BY <1>2, <1>3, <1>4 DEF BrokerTypes
  <2> QED BY <1>2, <1>3, <2>2, <2>3, <2>4 DEF BrokerTypes
<1>6. StopCover' = StopCover
  <2>1. \A x \in ClosingStops(book, held) :
          \E y \in ClosingStops(book', held') : y.group = x.group /\ y.qty = x.qty
    BY <1>2, <1>3, <1>4 DEF ClosingStops
  <2>2. \A y \in ClosingStops(book', held') :
          \E x \in ClosingStops(book, held) : y.group = x.group /\ y.qty = x.qty
    BY <1>2, <1>3, <1>4 DEF ClosingStops
  <2>3. HeldBy(ClosingStops(book, held)) = HeldBy(ClosingStops(book', held'))
    BY <2>1, <2>2, HeldBySame
  <2> QED BY <2>3, CoverIsThat
<1>7. ASSUME NEW q \in Closes PROVE Sound(close[q])'
  <2>1. Sound(close[q]) /\ close'[q] = close[q]
    BY <1>2 DEF CloseInv
  <2>2. StopsTold(close[q])'
    BY <1>2, <1>3, <1>6, <2>1, StaysTold DEF BrokerTypes
  <2>3. OnItsWay(close[q])' /\ ListTells(close[q])'
    BY <1>2, <2>1 DEF Sound, OnItsWay, ListTells, Undisturbed, BrokerTypes
  <2> QED BY <2>2, <2>3 DEF Sound
<1> QED BY <1>2, <1>5, <1>7 DEF CloseInv

LEMMA NextCloseInv == CloseInv /\ [LiveCloseNext]_closeVars => CloseInv'
<1> SUFFICES ASSUME CloseInv, [LiveCloseNext]_closeVars PROVE CloseInv'
  OBVIOUS
<1>1. ASSUME NEW r \in Closes,
             \/ Ask(r) \/ ListOrders(r) \/ ListFails(r) \/ CancelOne(r) \/ CancelFails(r)
             \/ ReadHeld(r) \/ ReadHeldFails(r) \/ SendClose(r) \/ CloseRefused(r) \/ CloseFails(r)
             \/ NothingToRearm(r) \/ Rearm(r) \/ RearmFails(r)
      PROVE  CloseInv'
  BY <1>1, AsksAndLists, Cancels, Reads, Sells, Rearms
<1>2. CASE OrderFills
  BY <1>2, Fills
<1>3. CASE MoveStop
  BY <1>3, Moves
<1>4. CASE UNCHANGED closeVars
  <2>1. /\ close' = close /\ moves' = moves /\ nextId' = nextId /\ atBroker' = atBroker
        /\ held' = held /\ book' = book
    BY <1>4 DEF closeVars, held, book
  <2>2. StopCover' = StopCover
    BY <2>1, CoverIsThat
  <2> QED BY <2>1, <2>2
      DEF CloseInv, BrokerTypes, Sound, OnItsWay, ListTells, Undisturbed, StopsTold, StopsKnown
<1> QED BY <1>1, <1>2, <1>3, <1>4 DEF LiveCloseNext

THEOREM CloseInvHolds == LiveCloseSpec => []CloseInv
<1> QED BY InitCloseInv, NextCloseInv, PTL DEF LiveCloseSpec

-----------------------------------------------------------------------------
(* The answers.                                                            *)

\* Only the request's own steps answer it, with "closed" only when its sale
\* went through or after it put its exits back or could not.
LEMMA OneAnswers ==
  ASSUME CloseInv, NEW r \in Closes, LiveCloseNext, ClosesAlone(r)
  PROVE  SendClose(r) \/ NothingToRearm(r) \/ Rearm(r) \/ RearmFails(r)
<1>1. OnItsWay(close[r]) /\ DOMAIN close = Closes
  BY DEF CloseInv, Sound
<1>2. close[r].answer = "none" /\ close'[r].answer = "closed"
  BY <1>1 DEF ClosesAlone, OnItsWay
<1>3. \A own : Disturbed(own)[r].answer = "none"
  <2> SUFFICES ASSUME NEW own PROVE Disturbed(own)[r].answer = "none"
    OBVIOUS
  <2>1. Disturbed(own)[r] = close[r] \/ Disturbed(own)[r] = [close[r] EXCEPT !.alone = "no"]
    BY DisturbedOnly
  <2>2. [close[r] EXCEPT !.alone = "no"].answer = close[r].answer
    BY <1>1 DEF OnItsWay, CloseFields
  <2> QED BY <1>2, <2>1, <2>2
<1>4. \A own : DOMAIN Disturbed(own) = Closes
  BY DEF Disturbed
<1>5. ASSUME NEW q \in Closes, q # r,
             \/ Ask(q) \/ ListOrders(q) \/ ListFails(q) \/ CancelOne(q) \/ CancelFails(q)
             \/ ReadHeld(q) \/ ReadHeldFails(q) \/ SendClose(q) \/ CloseRefused(q) \/ CloseFails(q)
             \/ NothingToRearm(q) \/ Rearm(q) \/ RearmFails(q)
      PROVE  FALSE
  <2>1. CASE Ask(q) \/ ListOrders(q) \/ ListFails(q) \/ CancelFails(q) \/ ReadHeld(q) \/ ReadHeldFails(q)
    BY <1>1, <1>2, <1>5, <2>1
    DEF Ask, ListOrders, ListFails, CancelFails, ReadHeld, ReadHeldFails, Trouble
  <2>2. CASE CloseRefused(q) \/ CloseFails(q) \/ NothingToRearm(q) \/ RearmFails(q)
    BY <1>1, <1>2, <1>5, <2>2 DEF CloseRefused, CloseFails, NothingToRearm, RearmFails, Trouble
  <2>3. CASE CancelOne(q) \/ SendClose(q) \/ Rearm(q)
    BY <1>2, <1>3, <1>4, <1>5, <2>3 DEF CancelOne, SendClose, Rearm
  <2> QED BY <1>5, <2>1, <2>2, <2>3
<1>6. ASSUME Ask(r) \/ ListOrders(r) \/ ListFails(r) \/ CancelFails(r)
      PROVE  FALSE
  BY <1>1, <1>2, <1>6 DEF Ask, ListOrders, ListFails, CancelFails, Trouble, OnItsWay, CloseFields
<1>7. ASSUME CancelOne(r)
      PROVE  FALSE
  BY <1>1, <1>2, <1>3, <1>4, <1>7 DEF CancelOne, OnItsWay, CloseFields
<1>8. ASSUME ReadHeld(r) \/ ReadHeldFails(r) \/ CloseRefused(r) \/ CloseFails(r)
      PROVE  FALSE
  <2>1. Answered("rejected").answer = "rejected" /\ DOMAIN Answered("rejected") = CloseFields
    BY DEF Answered, NoClose, CloseFields
  <2> QED BY <1>1, <1>2, <1>8, <2>1
      DEF ReadHeld, ReadHeldFails, CloseRefused, CloseFails, Trouble, Sized, OnItsWay, CloseFields
<1>9. ASSUME OrderFills \/ MoveStop
      PROVE  FALSE
  BY <1>2, <1>3, <1>9 DEF OrderFills, MoveStop
<1> QED BY <1>5, <1>6, <1>7, <1>8, <1>9 DEF LiveCloseNext

\* The last step of a request for the whole position: the sale takes all that
\* is held, and nothing rests any more.
LEMMA SaleLeavesNothing ==
  ASSUME CloseInv, NEW r \in Closes, LiveCloseNext, ClosesAlone(r),
         close[r].want = All, close[r].smooth = "yes", moves = 0
  PROVE  held' = 0 /\ book' = {}
<1>1. OnItsWay(close[r]) /\ ListTells(close[r]) /\ BrokerTypes
  BY DEF CloseInv, Sound
<1>2. SendClose(r)
  BY <1>1, OneAnswers DEF OnItsWay, NothingToRearm, Rearm, RearmFails
<1>3. book = {}
  BY <1>1, <1>2 DEF ListTells, Undisturbed, ClosesAlone, SendClose
<1>4. /\ atBroker' = [atBroker EXCEPT !.held = IF held > 0 THEN @ - Abs(held) ELSE @ + Abs(held)]
  BY <1>1, <1>2 DEF SendClose, SharesToSell, OnItsWay
<1> QED BY <1>1, <1>3, <1>4 DEF BrokerTypes, Abs, held, book

\* A whole position that is closed with no call failing, no stop moved and no
\* request or exit between leaves nothing held and nothing resting, for any
\* number of requests and of orders.
THEOREM ClosedMeansFlat == LiveCloseSpec => FlatMeansFlat
<1>1. CloseInv /\ [LiveCloseNext]_closeVars =>
        [\A r \in Closes :
           ClosesAlone(r) /\ close[r].want = All /\ close[r].smooth = "yes" /\ moves = 0
             => held' = 0 /\ book' = {}]_closeVars
  BY SaleLeavesNothing
<1> QED BY <1>1, CloseInvHolds, PTL DEF LiveCloseSpec, FlatMeansFlat

\* The last step of any request that does not say that its stop was lost.
LEMMA CoverIsKept ==
  ASSUME CloseInv, NEW r \in Closes, LiveCloseNext, ClosesAlone(r), close'[r].stopLost = "no"
  PROVE  StopCover' >= close[r].coverBefore \/ StopCover' >= close[r].remaining
<1> DEFINE c == close[r]
<1>1. OnItsWay(c) /\ StopsTold(c) /\ BrokerTypes /\ c.alone = "yes"
  BY DEF CloseInv, Sound, ClosesAlone
<1>2. CloseInv' /\ BrokerTypes'
  BY NextCloseInv DEF CloseInv
<1>3. StopCover' \in Nat /\ StopCover \in Nat /\ c.coverBefore \in Nat /\ c.remaining \in Int
  BY <1>1, <1>2, CoverIsNat DEF OnItsWay
<1>4. DOMAIN close = Closes
  BY DEF CloseInv
<1>5. CASE SendClose(r)
  <2>1. ~(c.qty # All /\ c.remaining > 0)
    <3> SUFFICES ASSUME c.qty # All, c.remaining > 0 PROVE FALSE
      OBVIOUS
    <3>1. close'[r] = [c EXCEPT !.at = "rearm"]
      BY <1>4, <1>5, DisturbedOnly DEF SendClose
    <3>2. c.answer = "none" /\ close'[r].answer = "closed"
      BY <1>1 DEF ClosesAlone, OnItsWay
    <3> QED BY <1>1, <3>1, <3>2 DEF OnItsWay, CloseFields
  <2>2. c.remaining <= 0
    BY <1>1, <1>3, <2>1 DEF OnItsWay
  <2> QED BY <1>3, <2>2
<1>6. ASSUME c.at = "rearm"
      PROVE  /\ c.side = "sell" /\ held >= c.remaining /\ c.remaining > 0 /\ held \in Int
             /\ Stops(ToRearm(c)) = {}
                  => \/ c.coverBefore = 0
                     \/ c.exits = {} /\ c.coverBefore <= StopCover
  <2>1. c.side = "sell" /\ c.heldBefore > 0 /\ held >= c.remaining /\ StopsKnown(c)
    BY <1>1, <1>6 DEF StopsTold
  <2>2. Stops(ToRearm(c)) = {} => ~ \E o \in Stops(c.exits) : o.side = ClosingSide(c.heldBefore)
    BY <2>1 DEF Stops, ToRearm, ClosingSide
  <2>3. c.remaining > 0 /\ held \in Int
    BY <1>1, <1>6 DEF OnItsWay, BrokerTypes
  <2> QED BY <2>1, <2>2, <2>3 DEF StopsKnown
<1>7. ASSUME UNCHANGED atBroker
      PROVE  StopCover' = StopCover
  BY <1>7, CoverIsThat DEF held, book
<1>8. CASE NothingToRearm(r)
  <2>1. Stops(ToRearm(c)) = {} /\ c.at = "rearm" /\ UNCHANGED atBroker
    BY <1>8 DEF NothingToRearm, Stops
  <2> QED BY <1>3, <1>6, <1>7, <2>1
<1>9. CASE RearmFails(r)
  <2> DEFINE lost == [Answered("closed") EXCEPT !.stopLost = StopLost(c)]
  <2>1. close'[r] = lost \/ close'[r] = [lost EXCEPT !.smooth = "no"]
    BY <1>4, <1>9 DEF RearmFails, Trouble
  <2>2. lost.stopLost = StopLost(c) /\ [lost EXCEPT !.smooth = "no"].stopLost = StopLost(c)
    BY DEF Answered, NoClose
  <2>3. StopLost(c) = "no"
    <3> HIDE DEF lost
    <3> QED BY <2>1, <2>2
  <2>4. Stops(ToRearm(c)) = {} /\ c.at = "rearm" /\ UNCHANGED atBroker
    BY <1>9, <2>3 DEF RearmFails, StopLost
  <2> QED BY <1>3, <1>6, <1>7, <2>4
<1>10. CASE Rearm(r)
  <2>1. PICK orders \in Rearmed(ToRearm(c), c.remaining) :
          atBroker' = [atBroker EXCEPT !.book = @ \cup orders]
    BY <1>10 DEF Rearm
  <2>2. c.at = "rearm"
    BY <1>10 DEF Rearm
  <2>3. CASE Stops(ToRearm(c)) = {}
    <3>1. c.exits # {}
      BY <2>1, <2>3 DEF Rearmed, ToRearm, Stops
    <3> QED BY <1>3, <1>6, <2>2, <2>3, <3>1
  <2>4. CASE Stops(ToRearm(c)) # {}
    <3>1. PICK o \in orders : o.kind = "stop" /\ o.side = c.side /\ o.qty = c.remaining
      BY <1>1, <2>1, <2>4, RearmedAre
    <3>2. held' = held /\ book' = book \cup orders
      BY <1>1, <2>1 DEF BrokerTypes, held, book
    <3>3. o \in ClosingStops(book', held')
      BY <1>3, <1>6, <2>2, <3>1, <3>2 DEF ClosingStops, ClosingSide
    <3>4. Whole(book')
      BY <1>2 DEF BrokerTypes, Whole
    <3>5. o.qty <= StopCover'
      BY <3>3, <3>4, CoverIs, CoverIsThat
    <3> QED BY <1>3, <3>1, <3>5
  <2> QED BY <2>3, <2>4
<1> QED BY <1>5, <1>8, <1>9, <1>10, OneAnswers

\* Part of a position is sold and the answer does not say that the stop was
\* lost: the stops cover as much as before or all that is left, for any orders,
\* whichever calls fail and whatever is added or moved meanwhile.
THEOREM LostStopsAreTold == LiveCloseSpec => StopLossIsTold
<1>1. CloseInv /\ [LiveCloseNext]_closeVars =>
        [\A r \in Closes :
           ClosesAlone(r) /\ close'[r].stopLost = "no"
             => StopCover' >= close[r].coverBefore \/ StopCover' >= close[r].remaining]_closeVars
  BY CoverIsKept
<1> QED BY <1>1, CloseInvHolds, PTL DEF LiveCloseSpec, StopLossIsTold
-----------------------------------------------------------------------------
(* The exits of a backtest.                                                *)

\* The tape: what is held of a trade, and where it leaves.
OnTape == [left : Int, stop : Int, target : Int, gain : Int]

\* The rule that is backtested has the fields a rule has.
LEMMA RuleIs ==
  ASSUME rule \in Rules
  PROVE  /\ rule.side \in {"long", "short"} /\ rule.trigger \in {"touch", "close"}
         /\ rule.risk \in Nat /\ rule.risk > 0 /\ rule.reward \in Nat /\ rule.reward > 0
         /\ rule.scaleOut \in Nat /\ rule.scaleOut < Parts
         /\ EntryPrice \in Nat /\ Parts \in Nat /\ Parts > 0 /\ BarPrices \subseteq Nat
  BY ExitRulesAssumption

\* Up turns the prices of a short around.
LEMMA UpIs ==
  ASSUME rule \in Rules
  PROVE  /\ SignOf \in {1, -1}
         /\ \/ rule.side = "long" /\ SignOf = 1 /\ \A p \in Int : Up(p) = p
            \/ rule.side = "short" /\ SignOf = -1 /\ \A p \in Int : Up(p) = -p
<1>1. CASE rule.side = "long"
  BY <1>1 DEF SignOf, Up
<1>2. CASE rule.side = "short"
  BY <1>2 DEF SignOf, Up
<1> QED BY <1>1, <1>2, RuleIs

\* The target lies beyond the entry, and the stop on its other side.
LEMMA LevelsAre ==
  ASSUME rule \in Rules
  PROVE  /\ StopPrice \in Int /\ TargetPrice \in Int
         /\ Up(StopPrice) < Up(EntryPrice) /\ Up(EntryPrice) < Up(TargetPrice)
<1>1. PICK k \in Nat, r \in Nat : k = rule.risk /\ k > 0 /\ r = rule.reward /\ r > 0
  BY RuleIs
<1>2. PICK e \in Nat : e = EntryPrice
  BY RuleIs
<1>3. PICK w \in Nat : w = k * r /\ w > 0
  BY <1>1
<1>4. CASE rule.side = "long" /\ SignOf = 1 /\ \A p \in Int : Up(p) = p
  <2>1. StopPrice = e - k
    BY <1>1, <1>2, <1>4 DEF StopPrice
  <2>2. TargetPrice = e + w
    <3>1. 1 * k * r = w
      BY <1>3, k \in Nat, r \in Nat
    <3> QED BY <1>1, <1>2, <1>4, <3>1, Zenon DEF TargetPrice
  <2> QED BY <1>1, <1>2, <1>3, <1>4, <2>1, <2>2
<1>5. CASE rule.side = "short" /\ SignOf = -1 /\ \A p \in Int : Up(p) = -p
  <2>1. StopPrice = e + k
    BY <1>1, <1>2, <1>5 DEF StopPrice
  <2>2. TargetPrice = e - w
    <3>1. e + (-1) * k * r = e - w
      BY <1>3, k \in Nat, r \in Nat
    <3> QED BY <1>1, <1>2, <1>5, <3>1, Zenon DEF TargetPrice
  <2> QED BY <1>1, <1>2, <1>3, <1>5, <2>1, <2>2
<1> QED BY <1>4, <1>5, UpIs

\* InBar(b, p): a print of the bar.
InBar(b, p) == p \in {b.open, b.high, b.low, b.close}

\* Nothing in a bar is above its favourable end, or below its adverse one.
LEMMA BarEnds ==
  ASSUME rule \in Rules, NEW b \in Bar
  PROVE  /\ \A p : InBar(b, p) => p \in Int /\ Up(Adverse(b)) <= Up(p) /\ Up(p) <= Up(Favourable(b))
         /\ InBar(b, Adverse(b)) /\ InBar(b, Favourable(b))
         /\ \/ Adverse(b) = b.low /\ Favourable(b) = b.high
            \/ Adverse(b) = b.high /\ Favourable(b) = b.low
<1>1. /\ b.open \in Int /\ b.high \in Int /\ b.low \in Int /\ b.close \in Int
      /\ b.low <= b.open /\ b.open <= b.high /\ b.low <= b.close /\ b.close <= b.high
  BY RuleIs DEF Bar
<1>2. CASE rule.side = "long" /\ \A p \in Int : Up(p) = p
  BY <1>1, <1>2 DEF Adverse, Favourable, InBar
<1>3. CASE rule.side = "short" /\ \A p \in Int : Up(p) = -p
  <2>1. rule.side # "long"
    BY <1>3
  <2> QED BY <1>1, <1>3, <2>1 DEF Adverse, Favourable, InBar
<1> QED BY <1>2, <1>3, UpIs

\* A position of which something is held, with its stop below its target.
Live(t) ==
  /\ t \in OnTape /\ t.left > 0
  /\ t.target # NoTarget => t.left = Parts /\ Up(t.stop) < Up(t.target)

\* Out(t): nothing is held any more, and nothing happens to it.
LEMMA OutStays ==
  ASSUME NEW t, t.left = 0, NEW p
  PROVE  /\ ~TargetMet(t, p) /\ ~StopMet(t, p)
         /\ Jump(t, p) = t /\ Run(t, p) = t /\ ReadClose(t, p) = t
<1>1. ~(t.left > 0)
  OBVIOUS
<1>2. ~TargetMet(t, p) /\ ~StopMet(t, p)
  BY <1>1, Zenon DEF TargetMet, StopMet
<1> QED BY <1>2, Zenon DEF Jump, Run, ReadClose

\* Through a bar too.
LEMMA TradeOut ==
  ASSUME NEW t, t.left = 0, NEW b, NEW first
  PROVE  Trade(t, b, first) = t
<1>1. \A p : Jump(t, p) = t /\ Run(t, p) = t /\ ReadClose(t, p) = t
  BY OutStays
<1> QED BY <1>1, Zenon DEF Trade

\* What a price does to a position that is held.
LEMMA PrintDoes ==
  ASSUME rule \in Rules, NEW t, Live(t), NEW p \in Int
  PROVE  /\ TargetMet(t, p) => ~StopMet(t, p) /\ Jump(t, p) = AtTarget(t, p) /\ Run(t, p) = AtTarget(t, t.target)
         /\ ~TargetMet(t, p) /\ StopMet(t, p) /\ rule.trigger = "touch" =>
              Jump(t, p) = AllOut(t, p) /\ Run(t, p) = AllOut(t, t.stop)
         /\ ~TargetMet(t, p) /\ (rule.trigger = "touch" => ~StopMet(t, p)) => Jump(t, p) = t /\ Run(t, p) = t
<1>1. ASSUME TargetMet(t, p) PROVE ~StopMet(t, p)
  <2>1. t.target # NoTarget /\ Up(p) >= Up(t.target) /\ Up(t.stop) < Up(t.target)
    BY <1>1 DEF TargetMet, Live
  <2>2. Up(p) \in Int /\ Up(t.target) \in Int /\ Up(t.stop) \in Int
    <3>1. t.target \in Int /\ t.stop \in Int
      BY DEF Live, OnTape
    <3>2. CASE \A q \in Int : Up(q) = q
      BY <3>1, <3>2
    <3>3. CASE \A q \in Int : Up(q) = -q
      BY <3>1, <3>3
    <3> QED BY <3>2, <3>3, UpIs
  <2>3. ~(Up(p) <= Up(t.stop))
    BY <2>1, <2>2
  <2> QED BY <2>3, Zenon DEF StopMet
<1> QED BY <1>1, Zenon DEF Jump, Run

\* What a part gains is a number.
LEMMA GainIs ==
  ASSUME rule \in Rules, NEW n \in Int, NEW p \in Int
  PROVE  Gain(n, p) \in Int
<1>1. PICK e \in Nat : e = EntryPrice
  BY RuleIs
<1>2. p - e \in Int
  OBVIOUS
<1>3. CASE SignOf = 1
  <2>1. n * 1 * (p - e) \in Int
    BY ONLY n \in Int, <1>2
  <2> QED BY <1>1, <1>3, <2>1 DEF Gain
<1>4. CASE SignOf = -1
  <2>1. n * (-1) * (p - e) \in Int
    BY ONLY n \in Int, <1>2
  <2> QED BY <1>1, <1>4, <2>1 DEF Gain
<1> QED BY <1>3, <1>4, UpIs

\* Settled(x, b): whatever is left of the bar, nothing happens to x in it.
Settled(x, b) == \A p : InBar(b, p) => Run(x, p) = x /\ ReadClose(x, p) = x

\* Who is out is settled.
LEMMA AllOutIs ==
  ASSUME NEW t \in OnTape, NEW p, NEW b
  PROVE  /\ AllOut(t, p) = [left |-> 0, stop |-> t.stop, target |-> t.target, gain |-> t.gain + Gain(t.left, p)]
         /\ AllOut(t, p).left = 0 /\ Settled(AllOut(t, p), b)
<1>1. AllOut(t, p) = [left |-> 0, stop |-> t.stop, target |-> t.target, gain |-> t.gain + Gain(t.left, p)]
  <2>1. PICK l, s, g, e : t = [left |-> l, stop |-> s, target |-> g, gain |-> e]
    BY DEF OnTape
  <2>2. t.left = l /\ t.stop = s /\ t.target = g /\ t.gain = e
    BY <2>1
  <2>3. PICK m : m = e + Gain(l, p)
    OBVIOUS
  <2>4. AllOut(t, p) = [t EXCEPT !.left = 0, !.gain = m]
    BY <2>2, <2>3, Zenon DEF AllOut
  <2>5. AllOut(t, p) = [left |-> 0, stop |-> s, target |-> g, gain |-> m]
    BY <2>1, <2>4
  <2> QED BY <2>2, <2>3, <2>5, Zenon
<1>2. AllOut(t, p).left = 0
  BY <1>1
<1>3. \A q : Run(AllOut(t, p), q) = AllOut(t, p) /\ ReadClose(AllOut(t, p), q) = AllOut(t, p)
  BY <1>2, OutStays
<1> QED BY <1>1, <1>2, <1>3 DEF Settled

\* What is left of a position when parts of it met the target.
Rest(t, p) ==
  [left |-> t.left - rule.scaleOut, stop |-> EntryPrice, target |-> NoTarget,
   gain |-> t.gain + Gain(rule.scaleOut, p)]

\* The rest is held, with its stop at the entry and no target.
LEMMA RestIs ==
  ASSUME rule \in Rules, NEW t, Live(t), t.target # NoTarget, NEW p \in Int
  PROVE  Live(Rest(t, p))
<1>1. /\ t.left = Parts /\ t.gain \in Int /\ rule.scaleOut \in Nat /\ rule.scaleOut < Parts
      /\ Parts \in Nat /\ EntryPrice \in Nat /\ Gain(rule.scaleOut, p) \in Int
  <2>1. rule.scaleOut \in Nat /\ rule.scaleOut \in Int
    BY RuleIs
  <2>2. Gain(rule.scaleOut, p) \in Int
    BY <2>1, GainIs, Zenon
  <2> QED BY <2>1, <2>2, RuleIs DEF Live, OnTape
<1>2. t.left - rule.scaleOut \in Int /\ t.left - rule.scaleOut > 0
  BY <1>1
<1>3. t.gain + Gain(rule.scaleOut, p) \in Int
  BY <1>1
<1>4. NoTarget \in Int /\ EntryPrice \in Int
  BY <1>1 DEF NoTarget
<1> QED BY <1>2, <1>3, <1>4 DEF Live, OnTape, Rest

\* At the target a position leaves whole, or all but its rest does.
LEMMA AtTargetIs ==
  ASSUME NEW t, NEW p
  PROVE  AtTarget(t, p) = IF rule.scaleOut = 0 THEN AllOut(t, p) ELSE Rest(t, p)
BY Zenon DEF AtTarget, Rest

\* A runner is settled in a bar that stays beyond the entry.
LEMMA RestSettles ==
  ASSUME rule \in Rules, NEW t, NEW q, NEW b \in Bar, ~(Up(Adverse(b)) <= Up(EntryPrice))
  PROVE  Settled(Rest(t, q), b)
<1>1. PICK x : x = Rest(t, q)
  OBVIOUS
<1>2. x.stop = EntryPrice /\ x.target = NoTarget
  BY <1>1 DEF Rest
<1>3. ASSUME NEW p, InBar(b, p)
      PROVE  ~TargetMet(x, p) /\ ~StopMet(x, p)
  <2>1. ~TargetMet(x, p)
    BY <1>2, Zenon DEF TargetMet
  <2>2. /\ p \in Int /\ Up(Adverse(b)) <= Up(p) /\ Adverse(b) \in Int /\ EntryPrice \in Int
    BY <1>3, BarEnds, RuleIs
  <2>3. Up(p) \in Int /\ Up(Adverse(b)) \in Int /\ Up(EntryPrice) \in Int
    BY <2>2, UpIs
  <2>4. ~(Up(p) <= Up(EntryPrice))
    BY <2>2, <2>3
  <2> QED BY <1>2, <2>1, <2>4, Zenon DEF StopMet
<1>4. \A p : InBar(b, p) => Run(x, p) = x /\ ReadClose(x, p) = x
  BY <1>3, Zenon DEF Run, ReadClose
<1> QED BY <1>1, <1>4 DEF Settled

\* The prints of a bar: the open, one end, the other, the close.
Path(t, b, first, one, other) ==
  /\ Trade(t, b, first) = ReadClose(Run(Run(Run(Jump(t, b.open), one), other), b.close), b.close)
  /\ (one = Favourable(b) /\ other = Adverse(b)) \/ (one = Adverse(b) /\ other = Favourable(b))

\* Every bar is one of the two ways through its ends.
LEMMA PathExists ==
  ASSUME rule \in Rules, NEW t, NEW b \in Bar, NEW first \in {"high", "low"}
  PROVE  \E one, other : Path(t, b, first, one, other)
<1>1. \/ Adverse(b) = b.low /\ Favourable(b) = b.high
      \/ Adverse(b) = b.high /\ Favourable(b) = b.low
  BY BarEnds
<1>2. CASE first = "high"
  <2>1. Trade(t, b, first) = ReadClose(Run(Run(Run(Jump(t, b.open), b.high), b.low), b.close), b.close)
    BY <1>2, Zenon DEF Trade
  <2> QED BY <1>1, <2>1, Zenon DEF Path
<1>3. CASE first # "high"
  <2>1. Trade(t, b, first) = ReadClose(Run(Run(Run(Jump(t, b.open), b.low), b.high), b.close), b.close)
    BY <1>3, Zenon DEF Trade
  <2> QED BY <1>1, <2>1, Zenon DEF Path
<1> QED BY <1>2, <1>3

\* Where a position is settled in the middle of a bar, that is what the bar makes.
LEMMA TradeVia ==
  ASSUME rule \in Rules, NEW t, NEW b \in Bar, NEW first, NEW one, NEW other, Path(t, b, first, one, other),
         NEW x, Settled(x, b)
  PROVE  /\ Jump(t, b.open) = x => Trade(t, b, first) = x
         /\ Jump(t, b.open) = t /\ Run(t, one) = x => Trade(t, b, first) = x
         /\ Jump(t, b.open) = t /\ Run(t, one) = t /\ Run(t, other) = x => Trade(t, b, first) = x
<1>1. InBar(b, one) /\ InBar(b, other) /\ InBar(b, b.close)
  <2>1. InBar(b, Adverse(b)) /\ InBar(b, Favourable(b))
    BY BarEnds
  <2>2. InBar(b, b.close)
    BY DEF InBar
  <2> QED BY <2>1, <2>2, Zenon DEF Path
<1>2. /\ Run(x, one) = x /\ Run(x, other) = x /\ Run(x, b.close) = x /\ ReadClose(x, b.close) = x
  BY <1>1, Zenon DEF Settled
<1>3. Trade(t, b, first) = ReadClose(Run(Run(Run(Jump(t, b.open), one), other), b.close), b.close)
  BY Zenon DEF Path
<1>4. ASSUME Jump(t, b.open) = x PROVE Trade(t, b, first) = x
  BY <1>2, <1>3, <1>4, Zenon
<1>5. ASSUME Jump(t, b.open) = t, Run(t, one) = x PROVE Trade(t, b, first) = x
  BY <1>2, <1>3, <1>5, Zenon
<1>6. ASSUME Jump(t, b.open) = t, Run(t, one) = t, Run(t, other) = x PROVE Trade(t, b, first) = x
  BY <1>2, <1>3, <1>6, Zenon
<1> QED BY <1>4, <1>5, <1>6

\* What a print of a bar meets, the end of the bar on its side meets.
LEMMA EndsMeet ==
  ASSUME rule \in Rules, NEW t, Live(t), NEW b \in Bar, NEW p, InBar(b, p)
  PROVE  /\ TargetMet(t, p) => TargetMet(t, Favourable(b))
         /\ TargetMet(t, Adverse(b)) => TargetMet(t, p)
         /\ StopMet(t, p) => StopMet(t, Adverse(b))
<1>1. /\ p \in Int /\ Favourable(b) \in Int /\ Adverse(b) \in Int
      /\ Up(Adverse(b)) <= Up(p) /\ Up(p) <= Up(Favourable(b))
  BY BarEnds
<1>2. t.target \in Int /\ t.stop \in Int
  BY DEF Live, OnTape
<1>3. PICK a \in Int, u \in Int, f \in Int, g \in Int, s \in Int :
        a = Up(Adverse(b)) /\ u = Up(p) /\ f = Up(Favourable(b)) /\ g = Up(t.target) /\ s = Up(t.stop)
  <2>1. CASE \A q \in Int : Up(q) = q
    BY <1>1, <1>2, <2>1
  <2>2. CASE \A q \in Int : Up(q) = -q
    BY <1>1, <1>2, <2>2
  <2> QED BY <2>1, <2>2, UpIs
<1>4. a <= u /\ u <= f
  BY <1>1, <1>3
<1>5. (u >= g => f >= g) /\ (a >= g => u >= g) /\ (u <= s => a <= s)
  BY <1>4
<1> QED BY <1>3, <1>5, Zenon DEF TargetMet, StopMet

\* The position leaves in this bar, or does not.
LeavesIn(b, stop, target, i) ==
  IF rule.trigger = "close" THEN LeavesAtClose(b, stop, target, i) ELSE LeavesOnTouch(b, stop, target, i)

\* In a bar that leaves it alone, a position stays what it was.
LEMMA QuietBar ==
  ASSUME rule \in Rules, NEW t, Live(t), NEW b \in Bar, NEW first \in {"high", "low"},
         ~TargetMet(t, Favourable(b)), rule.trigger = "touch" => ~StopMet(t, Adverse(b))
  PROVE  /\ Trade(t, b, first) = ReadClose(t, b.close)
         /\ \A p : InBar(b, p) => Jump(t, p) = t /\ Run(t, p) = t
<1>1. ASSUME NEW p, InBar(b, p)
      PROVE  Jump(t, p) = t /\ Run(t, p) = t
  <2>1. ~TargetMet(t, p) /\ (rule.trigger = "touch" => ~StopMet(t, p))
    BY <1>1, EndsMeet
  <2>2. p \in Int
    BY <1>1, BarEnds
  <2> QED BY <2>1, <2>2, PrintDoes
<1>2. PICK one, other : Path(t, b, first, one, other)
  BY PathExists
<1>3. InBar(b, one) /\ InBar(b, other) /\ InBar(b, b.close) /\ InBar(b, b.open)
  <2>1. InBar(b, Adverse(b)) /\ InBar(b, Favourable(b))
    BY BarEnds
  <2>2. InBar(b, b.close) /\ InBar(b, b.open)
    BY DEF InBar
  <2> QED BY <1>2, <2>1, <2>2, Zenon DEF Path
<1>4. Trade(t, b, first) = ReadClose(t, b.close)
  BY <1>1, <1>2, <1>3, Zenon DEF Path
<1> QED BY <1>1, <1>4

\* What the ends of a bar decide.
LEMMA ReachesIs ==
  ASSUME NEW t, Live(t), NEW b
  PROVE  /\ Reaches(b, t.target) <=> TargetMet(t, Favourable(b))
         /\ OpensBeyond(b, t.target) <=> TargetMet(t, b.open)
         /\ \A p : Up(p) <= Up(t.stop) <=> StopMet(t, p)
<1>1. t.left > 0
  BY DEF Live
<1> QED BY <1>1, Zenon DEF Reaches, OpensBeyond, TargetMet, StopMet

\* LeftAs(t, b, made, x): what the tape made of a position that left as x.
LeftAs(t, b, made, x) ==
  /\ x.price \in Int
  /\ \/ x.reason = "stop" /\ x.ambiguous = "no" /\ made = AllOut(t, x.price)
     \/ /\ x.reason = "target" /\ x.ambiguous = "no" /\ t.target # NoTarget
        /\ rule.scaleOut = 0 \/ ~(Up(Adverse(b)) <= Up(EntryPrice)) => made = AtTarget(t, x.price)
     \/ /\ x.reason = "stop" /\ x.ambiguous = "yes" /\ t.target # NoTarget /\ x.price = t.stop
        /\ rule.scaleOut = 0 => made \in {AllOut(t, t.stop), AllOut(t, t.target)}

\* A target that is met settles the bar, unless the rest is taken out at the entry.
LEMMA AtTargetSettles ==
  ASSUME rule \in Rules, NEW t, Live(t), NEW p, NEW b \in Bar,
         rule.scaleOut = 0 \/ ~(Up(Adverse(b)) <= Up(EntryPrice))
  PROVE  Settled(AtTarget(t, p), b)
<1>1. CASE rule.scaleOut = 0
  <2>1. AtTarget(t, p) = AllOut(t, p)
    BY <1>1, AtTargetIs
  <2>2. t \in OnTape
    BY DEF Live
  <2> QED BY <2>1, <2>2, AllOutIs
<1>2. CASE rule.scaleOut # 0
  <2>1. AtTarget(t, p) = Rest(t, p)
    BY <1>2, AtTargetIs
  <2> QED BY <1>2, <2>1, RestSettles
<1> QED BY <1>1, <1>2

\* A target that is met, at the open or on the way.
LEMMA MeetsTarget ==
  ASSUME rule \in Rules, NEW t, Live(t), NEW b \in Bar, NEW first \in {"high", "low"},
         rule.scaleOut = 0 \/ ~(Up(Adverse(b)) <= Up(EntryPrice)),
         TargetMet(t, Favourable(b)), rule.trigger = "touch" => ~StopMet(t, Adverse(b)) \/ TargetMet(t, b.open)
  PROVE  Trade(t, b, first) = AtTarget(t, IF TargetMet(t, b.open) THEN b.open ELSE t.target)
<1>1. PICK one, other : Path(t, b, first, one, other)
  BY PathExists
<1>2. /\ InBar(b, b.open) /\ InBar(b, Adverse(b)) /\ InBar(b, Favourable(b))
      /\ b.open \in Int /\ Adverse(b) \in Int /\ Favourable(b) \in Int
  <2>1. InBar(b, b.open)
    BY DEF InBar
  <2> QED BY <2>1, BarEnds
<1>3. CASE TargetMet(t, b.open)
  <2>1. Jump(t, b.open) = AtTarget(t, b.open)
    BY <1>2, <1>3, PrintDoes
  <2>2. Settled(AtTarget(t, b.open), b)
    BY AtTargetSettles
  <2> QED BY <1>1, <1>3, <2>1, <2>2, TradeVia
<1>4. CASE ~TargetMet(t, b.open)
  <2>1. ~TargetMet(t, Adverse(b)) /\ (rule.trigger = "touch" => ~StopMet(t, Adverse(b)) /\ ~StopMet(t, b.open))
    BY <1>2, <1>4, EndsMeet
  <2>2. /\ Jump(t, b.open) = t
        /\ Run(t, Adverse(b)) = t
        /\ Run(t, Favourable(b)) = AtTarget(t, t.target)
    BY <1>2, <1>4, <2>1, PrintDoes
  <2>3. Settled(AtTarget(t, t.target), b)
    BY AtTargetSettles
  <2>4. CASE one = Favourable(b)
    BY <1>1, <1>4, <2>2, <2>3, <2>4, TradeVia
  <2>5. CASE one = Adverse(b) /\ other = Favourable(b)
    BY <1>1, <1>4, <2>2, <2>3, <2>5, TradeVia
  <2> QED BY <1>1, <2>4, <2>5 DEF Path
<1> QED BY <1>3, <1>4

\* A stop that rests in the market and is met first, or alone.
LEMMA MeetsStop ==
  ASSUME rule \in Rules, NEW t, Live(t), NEW b \in Bar, NEW first \in {"high", "low"},
         rule.trigger = "touch", StopMet(t, Adverse(b)), ~TargetMet(t, b.open)
  PROVE  /\ StopMet(t, b.open) => Trade(t, b, first) = AllOut(t, b.open)
         /\ ~StopMet(t, b.open) /\ ~TargetMet(t, Favourable(b)) => Trade(t, b, first) = AllOut(t, t.stop)
         /\ ~StopMet(t, b.open) /\ TargetMet(t, Favourable(b)) /\ rule.scaleOut = 0 =>
              Trade(t, b, first) \in {AllOut(t, t.stop), AllOut(t, t.target)}
<1>1. PICK one, other : Path(t, b, first, one, other)
  BY PathExists
<1>2. /\ InBar(b, b.open) /\ InBar(b, Adverse(b)) /\ InBar(b, Favourable(b))
      /\ b.open \in Int /\ Adverse(b) \in Int /\ Favourable(b) \in Int
  <2>1. InBar(b, b.open)
    BY DEF InBar
  <2> QED BY <2>1, BarEnds
<1>3. \A p : Settled(AllOut(t, p), b)
  BY AllOutIs DEF Live
<1>4. ~TargetMet(t, Adverse(b)) /\ Run(t, Adverse(b)) = AllOut(t, t.stop)
  <2>1. ~TargetMet(t, Adverse(b))
    BY <1>2, PrintDoes
  <2> QED BY <1>2, <2>1, PrintDoes
<1>5. ASSUME StopMet(t, b.open) PROVE Trade(t, b, first) = AllOut(t, b.open)
  <2>1. Jump(t, b.open) = AllOut(t, b.open)
    BY <1>2, <1>5, PrintDoes
  <2> QED BY <1>1, <1>3, <2>1, TradeVia
<1>6. ASSUME ~StopMet(t, b.open) PROVE Jump(t, b.open) = t
  BY <1>2, <1>6, PrintDoes
<1>7. ASSUME ~StopMet(t, b.open), ~TargetMet(t, Favourable(b))
      PROVE  Trade(t, b, first) = AllOut(t, t.stop)
  <2>1. CASE one = Adverse(b)
    BY <1>1, <1>3, <1>4, <1>6, <1>7, <2>1, TradeVia
  <2>2. CASE one = Favourable(b) /\ other = Adverse(b)
    <3>1. CASE StopMet(t, Favourable(b))
      <4>1. Run(t, Favourable(b)) = AllOut(t, t.stop)
        BY <1>2, <1>7, <3>1, PrintDoes
      <4> QED BY <1>1, <1>3, <1>6, <1>7, <2>2, <4>1, TradeVia
    <3>2. CASE ~StopMet(t, Favourable(b))
      <4>1. Run(t, Favourable(b)) = t
        BY <1>2, <1>7, <3>2, PrintDoes
      <4> QED BY <1>1, <1>3, <1>4, <1>6, <1>7, <2>2, <4>1, TradeVia
    <3> QED BY <3>1, <3>2
  <2> QED BY <1>1, <2>1, <2>2 DEF Path
<1>8. ASSUME ~StopMet(t, b.open), TargetMet(t, Favourable(b)), rule.scaleOut = 0
      PROVE  Trade(t, b, first) \in {AllOut(t, t.stop), AllOut(t, t.target)}
  <2>1. CASE one = Adverse(b)
    BY <1>1, <1>3, <1>4, <1>6, <1>8, <2>1, TradeVia
  <2>2. CASE one = Favourable(b)
    <3>1. Run(t, Favourable(b)) = AllOut(t, t.target)
      BY <1>2, <1>8, PrintDoes, AtTargetIs
    <3> QED BY <1>1, <1>3, <1>6, <1>8, <2>2, <3>1, TradeVia
  <2> QED BY <1>1, <2>1, <2>2 DEF Path
<1> QED BY <1>5, <1>7, <1>8

\* The fields of a leaving.
LEMMA LeavingIs ==
  ASSUME NEW p, NEW r, NEW a, NEW i
  PROVE  /\ <<Leaving(p, r, a, i)>> # <<>> /\ <<Leaving(p, r, a, i)>>[1] = Leaving(p, r, a, i)
         /\ Leaving(p, r, a, i).price = p /\ Leaving(p, r, a, i).reason = r
         /\ Leaving(p, r, a, i).ambiguous = a /\ Leaving(p, r, a, i).at = i
BY DEF Leaving

\* What the backtest reads off a bar is what the tape makes of it.
LEMMA BarMakes ==
  ASSUME rule \in Rules, NEW t, Live(t), NEW b \in Bar, NEW first \in {"high", "low"}, NEW i
  PROVE  /\ LeavesIn(b, t.stop, t.target, i) = <<>> => Trade(t, b, first) = t
         /\ LeavesIn(b, t.stop, t.target, i) # <<>> =>
              /\ LeftAs(t, b, Trade(t, b, first), LeavesIn(b, t.stop, t.target, i)[1])
              /\ LeavesIn(b, t.stop, t.target, i)[1].at = i
<1> DEFINE made == Trade(t, b, first)
           lv == LeavesIn(b, t.stop, t.target, i)
           holds == /\ lv = <<>> => made = t
                    /\ lv # <<>> => LeftAs(t, b, made, lv[1]) /\ lv[1].at = i
           open == b.open
           fav == Favourable(b)
           adv == Adverse(b)
<1>0. /\ b.open \in Int /\ b.close \in Int /\ t.stop \in Int /\ t.target \in Int
      /\ InBar(b, b.open) /\ InBar(b, b.close)
  <2>1. InBar(b, b.open) /\ InBar(b, b.close)
    BY DEF InBar
  <2> QED BY <2>1, BarEnds DEF Live, OnTape
<1>1. /\ Reaches(b, t.target) <=> TargetMet(t, fav)
      /\ OpensBeyond(b, t.target) <=> TargetMet(t, open)
      /\ \A p : Up(p) <= Up(t.stop) <=> StopMet(t, p)
  BY ReachesIs
<1>2. /\ TargetMet(t, open) => TargetMet(t, fav) /\ ~StopMet(t, open)
      /\ StopMet(t, open) => StopMet(t, adv)
  BY <1>0, EndsMeet, PrintDoes
<1>3. TargetMet(t, fav) => t.target # NoTarget
  BY DEF TargetMet
<1>r. rule.trigger = "close" \/ rule.trigger = "touch"
  BY RuleIs
<1> SUFFICES holds
  OBVIOUS
<1> HIDE DEF made
<1>4. ASSUME NEW p \in Int, NEW r, NEW a, lv = <<Leaving(p, r, a, i)>>,
             \/ r = "stop" /\ a = "no" /\ made = AllOut(t, p)
             \/ /\ r = "target" /\ a = "no" /\ t.target # NoTarget
                /\ rule.scaleOut = 0 \/ ~(Up(Adverse(b)) <= Up(EntryPrice)) => made = AtTarget(t, p)
             \/ /\ r = "stop" /\ a = "yes" /\ t.target # NoTarget /\ p = t.stop
                /\ rule.scaleOut = 0 => made \in {AllOut(t, t.stop), AllOut(t, t.target)}
      PROVE  holds
  <2>1. /\ lv # <<>> /\ lv[1].price = p /\ lv[1].reason = r /\ lv[1].ambiguous = a /\ lv[1].at = i
    BY <1>4, LeavingIs
  <2>2. PICK x : x = lv[1]
    OBVIOUS
  <2>3. x.price = p /\ x.reason = r /\ x.ambiguous = a
    BY <2>1, <2>2
  <2>4. LeftAs(t, b, made, x)
    BY <1>4, <2>3, Zenon DEF LeftAs
  <2> HIDE DEF lv
  <2> QED BY <2>1, <2>2, <2>4
<1>5. CASE rule.trigger = "close" /\ TargetMet(t, fav)
  <2>1. PICK p \in Int : p = TargetFill(b, t.target)
    BY <1>0 DEF TargetFill
  <2>2. lv = <<Leaving(p, "target", "no", i)>>
    BY <1>1, <1>5, <2>1, Zenon DEF LeavesIn, LeavesAtClose
  <2>3. p = IF TargetMet(t, open) THEN open ELSE t.target
    BY <1>1, <2>1, Zenon DEF TargetFill
  <2>4. rule.scaleOut = 0 \/ ~(Up(Adverse(b)) <= Up(EntryPrice)) => made = AtTarget(t, p)
    BY <1>5, <2>3, MeetsTarget DEF made
  <2> QED BY <1>3, <1>4, <1>5, <2>2, <2>4
<1>6. CASE rule.trigger = "close" /\ ~TargetMet(t, fav)
  <2>1. made = ReadClose(t, b.close)
    BY <1>6, QuietBar DEF made
  <2>2. CASE StopMet(t, b.close)
    <3>1. made = AllOut(t, b.close)
      BY <1>6, <2>1, <2>2, Zenon DEF ReadClose
    <3>2. lv = <<Leaving(b.close, "stop", "no", i)>>
      BY <1>1, <1>6, <2>2, Zenon DEF LeavesIn, LeavesAtClose
    <3> QED BY <1>0, <1>4, <3>1, <3>2
  <2>3. CASE ~StopMet(t, b.close)
    <3>1. made = t
      BY <1>6, <2>1, <2>3, Zenon DEF ReadClose
    <3>2. lv = <<>>
      BY <1>1, <1>6, <2>3, Zenon DEF LeavesIn, LeavesAtClose
    <3> QED BY <3>1, <3>2
  <2> QED BY <2>2, <2>3
<1>7. CASE rule.trigger = "touch" /\ StopMet(t, open)
  <2>1. lv = <<Leaving(open, "stop", "no", i)>>
    <3>1. rule.trigger # "close"
      BY <1>7
    <3> QED BY <1>1, <1>7, <3>1, Zenon DEF LeavesIn, LeavesOnTouch
  <2>2. made = AllOut(t, open)
    BY <1>2, <1>7, MeetsStop DEF made
  <2> QED BY <1>0, <1>4, <2>1, <2>2
<1>8. CASE rule.trigger = "touch" /\ ~StopMet(t, open) /\ TargetMet(t, open)
  <2>1. lv = <<Leaving(open, "target", "no", i)>>
    <3>1. rule.trigger # "close"
      BY <1>8
    <3> QED BY <1>1, <1>8, <3>1, Zenon DEF LeavesIn, LeavesOnTouch
  <2>2. rule.scaleOut = 0 \/ ~(Up(Adverse(b)) <= Up(EntryPrice)) => made = AtTarget(t, open)
    BY <1>2, <1>8, MeetsTarget DEF made
  <2> QED BY <1>0, <1>2, <1>3, <1>4, <1>8, <2>1, <2>2
<1>9. CASE rule.trigger = "touch" /\ ~StopMet(t, open) /\ ~TargetMet(t, open)
  <2>0. rule.trigger # "close"
    BY <1>9
  <2>1. CASE StopMet(t, adv) /\ ~TargetMet(t, fav)
    <3>1. lv = <<Leaving(t.stop, "stop", "no", i)>>
      BY <1>1, <1>9, <2>0, <2>1, Zenon DEF LeavesIn, LeavesOnTouch
    <3>2. made = AllOut(t, t.stop)
      BY <1>9, <2>1, MeetsStop DEF made
    <3> QED BY <1>0, <1>4, <3>1, <3>2
  <2>2. CASE StopMet(t, adv) /\ TargetMet(t, fav)
    <3>1. lv = <<Leaving(t.stop, "stop", "yes", i)>>
      BY <1>1, <1>9, <2>0, <2>2, Zenon DEF LeavesIn, LeavesOnTouch
    <3>2. rule.scaleOut = 0 => made \in {AllOut(t, t.stop), AllOut(t, t.target)}
      BY <1>9, <2>2, MeetsStop DEF made
    <3> QED BY <1>0, <1>3, <1>4, <2>2, <3>1, <3>2
  <2>3. CASE ~StopMet(t, adv) /\ TargetMet(t, fav)
    <3>1. lv = <<Leaving(t.target, "target", "no", i)>>
      BY <1>1, <1>9, <2>0, <2>3, Zenon DEF LeavesIn, LeavesOnTouch
    <3>2. rule.scaleOut = 0 \/ ~(Up(Adverse(b)) <= Up(EntryPrice)) => made = AtTarget(t, t.target)
      BY <1>9, <2>3, MeetsTarget DEF made
    <3> QED BY <1>0, <1>3, <1>4, <2>3, <3>1, <3>2
  <2>4. CASE ~StopMet(t, adv) /\ ~TargetMet(t, fav)
    <3>1. lv = <<>>
      BY <1>1, <1>9, <2>0, <2>4, Zenon DEF LeavesIn, LeavesOnTouch
    <3>2. made = ReadClose(t, b.close)
      BY <1>9, <2>4, QuietBar DEF made
    <3>3. made = t
      BY <2>0, <3>2, Zenon DEF ReadClose
    <3> QED BY <3>1, <3>3
  <2> QED BY <2>1, <2>2, <2>3, <2>4
<1> QED BY <1>5, <1>6, <1>7, <1>8, <1>9, <1>r

-----------------------------------------------------------------------------
(* The walk over the bars.                                                 *)

LeavesAt(i, stop, target) == LeavesIn(bars[i], stop, target, i)

\* The first bar of a walk that a position leaves in, if there is one.
FirstOut(start, k, stop, target) ==
  /\ k \in start..Len(bars) /\ LeavesAt(k, stop, target) # <<>>
  /\ \A i \in start..Len(bars) : i < k => LeavesAt(i, stop, target) = <<>>

\* A walk ends at the first bar that a position leaves in, or at the last close.
LEMMA WalkIs ==
  ASSUME NEW start \in Nat, NEW stop, NEW target, Len(bars) \in Nat
  PROVE  \/ /\ \A i \in start..Len(bars) : LeavesAt(i, stop, target) = <<>>
            /\ Walk(start, stop, target) = Leaving(Last(bars).close, "close", "no", Len(bars))
         \/ \E k : FirstOut(start, k, stop, target)
                   /\ Walk(start, stop, target) = LeavesAt(k, stop, target)[1]
<1> DEFINE n == Len(bars)
           out == {i \in start..n : LeavesAt(i, stop, target) # <<>>}
<1>1. Walk(start, stop, target) =
        IF out = {} THEN Leaving(Last(bars).close, "close", "no", n)
        ELSE LeavesAt(CHOOSE i \in out : \A j \in out : i <= j, stop, target)[1]
  BY Zenon DEF Walk, LeavesAt, LeavesIn
<1>2. out \subseteq 0..n
  OBVIOUS
<1>3. CASE out = {}
  BY <1>1, <1>3, Zenon
<1>4. CASE out # {}
  <2> HIDE DEF out
  <2>1. PICK k \in out : /\ \A j \in out : k <= j
                         /\ (CHOOSE i \in out : \A j \in out : i <= j) = k
    BY <1>2, <1>4, LeastOf
  <2>2. Walk(start, stop, target) = LeavesAt(k, stop, target)[1]
    BY <1>1, <1>4, <2>1, Zenon
  <2>3. FirstOut(start, k, stop, target)
    <3>1. k \in start..n /\ LeavesAt(k, stop, target) # <<>>
      BY DEF out
    <3>2. ASSUME NEW i \in start..n, i < k PROVE LeavesAt(i, stop, target) = <<>>
      <4>1. i \notin out
        BY <2>1, <3>1, <3>2
      <4> QED BY <4>1 DEF out
    <3> QED BY <3>1, <3>2 DEF FirstOut
  <2> QED BY <2>2, <2>3
<1> QED BY <1>3, <1>4

-----------------------------------------------------------------------------
(* The tape, bar by bar.                                                   *)

\* A position on the tape stays one, whatever price is printed.
LEMMA PrintsStay ==
  ASSUME rule \in Rules, NEW t \in OnTape, NEW p \in Int
  PROVE  Jump(t, p) \in OnTape /\ Run(t, p) \in OnTape /\ ReadClose(t, p) \in OnTape
<1>1. t.left \in Int /\ t.stop \in Int /\ t.target \in Int /\ t.gain \in Int
  BY DEF OnTape
<1>2. ASSUME NEW q \in Int PROVE AllOut(t, q) \in OnTape
  <2>1. t.gain + Gain(t.left, q) \in Int
    <3>1. PICK g \in Int : g = Gain(t.left, q)
      BY <1>1, <1>2, GainIs, Zenon
    <3> QED BY <1>1, <3>1
  <2>2. AllOut(t, q) = [left |-> 0, stop |-> t.stop, target |-> t.target, gain |-> t.gain + Gain(t.left, q)]
    BY AllOutIs
  <2> QED BY <1>1, <2>1, <2>2 DEF OnTape
<1>3. ASSUME NEW q \in Int PROVE AtTarget(t, q) \in OnTape
  <2>1. rule.scaleOut \in Int /\ EntryPrice \in Int /\ NoTarget \in Int
    BY RuleIs DEF NoTarget
  <2>2. t.gain + Gain(rule.scaleOut, q) \in Int
    <3>1. PICK g \in Int : g = Gain(rule.scaleOut, q)
      BY <1>3, <2>1, GainIs, Zenon
    <3> QED BY <1>1, <3>1
  <2>3. t.left - rule.scaleOut \in Int
    BY <1>1, <2>1
  <2>4. Rest(t, q) \in OnTape
    BY <2>1, <2>2, <2>3 DEF Rest, OnTape
  <2> QED BY <1>2, <1>3, <2>4, AtTargetIs
<1> QED BY <1>1, <1>2, <1>3, Zenon DEF Jump, Run, ReadClose

\* Nor does it become anything else through a bar.
LEMMA TradeStays ==
  ASSUME rule \in Rules, NEW t \in OnTape, NEW b \in Bar, NEW first
  PROVE  Trade(t, b, first) \in OnTape
<1>1. b.open \in Int /\ b.high \in Int /\ b.low \in Int /\ b.close \in Int
  BY BarEnds DEF InBar
<1>2. PICK one \in Int, other \in Int :
        Trade(t, b, first) = ReadClose(Run(Run(Run(Jump(t, b.open), one), other), b.close), b.close)
  <2>1. CASE first = "high"
    BY <1>1, <2>1, Zenon DEF Trade
  <2>2. CASE first # "high"
    BY <1>1, <2>2, Zenon DEF Trade
  <2> QED BY <2>1, <2>2
<1>3. PICK t1 \in OnTape : t1 = Jump(t, b.open)
  BY <1>1, PrintsStay
<1>4. PICK t2 \in OnTape : t2 = Run(t1, one)
  BY PrintsStay
<1>5. PICK t3 \in OnTape : t3 = Run(t2, other)
  BY PrintsStay
<1>6. PICK t4 \in OnTape : t4 = Run(t3, b.close)
  BY <1>1, PrintsStay
<1>7. ReadClose(t4, b.close) \in OnTape
  BY <1>1, PrintsStay
<1> QED BY <1>2, <1>3, <1>4, <1>5, <1>6, <1>7, Zenon

\* The position that is entered is on the tape, with the levels of the rule.
LEMMA OpenedIs ==
  ASSUME rule \in Rules
  PROVE  /\ Opened \in OnTape /\ Live(Opened)
         /\ Opened.left = Parts /\ Opened.stop = StopPrice /\ Opened.target = TargetPrice /\ Opened.gain = 0
<1>1. /\ StopPrice \in Int /\ TargetPrice \in Int /\ EntryPrice \in Int /\ Parts \in Nat /\ Parts > 0
      /\ Up(StopPrice) < Up(EntryPrice) /\ Up(EntryPrice) < Up(TargetPrice)
  BY LevelsAre, RuleIs
<1>2. Up(StopPrice) < Up(TargetPrice)
  <2>1. CASE \A p \in Int : Up(p) = p
    BY <1>1, <2>1
  <2>2. CASE \A p \in Int : Up(p) = -p
    BY <1>1, <2>2
  <2> QED BY <2>1, <2>2, UpIs
<1>3. Opened.left = Parts /\ Opened.stop = StopPrice /\ Opened.target = TargetPrice /\ Opened.gain = 0
  BY DEF Opened
<1>4. Opened \in OnTape
  BY <1>1 DEF Opened, OnTape
<1> QED BY <1>1, <1>2, <1>3, <1>4 DEF Live

TapeBy(order) == [p \in OnTape \X DOMAIN bars |-> Trade(p[1], bars[p[2]], order[p[2]])]
BarNumbers == [i \in DOMAIN bars |-> i]
TapeEnd(order) == FoldLeft(LAMBDA t, i : Trade(t, bars[i], order[i]), Opened, BarNumbers)

\* The model's fold is a fold of this function.
LEMMA TapeIsFold ==
  ASSUME rule \in Rules, bars \in Seq(Bar), NEW order
  PROVE  TapeEnd(order) = FoldBy(TapeBy(order), Opened, BarNumbers)
<1> DEFINE D == DOMAIN BarNumbers
           F == TapeBy(order)
           seq == BarNumbers
           base == Opened
           step(t, i) == Trade(t, bars[i], order[i])
           Own(h) == h = [s \in SUBSET D |->
                            IF s = {} THEN base ELSE step(h[s \ {Max(s)}], seq[Max(s)])]
<1>0. D = DOMAIN bars /\ \A i \in D : seq[i] = i /\ bars[i] \in Bar
  BY Indices DEF BarNumbers
<1>1. /\ Numbers(D) /\ IsFiniteSet(D) /\ Typed(seq, D, D)
      /\ base \in OnTape
  BY <1>0, Indices, OpenedIs DEF Typed
<1>2. \A a \in OnTape, x \in D : F[<<a, x>>] = step(a, x)
  BY <1>0 DEF TapeBy
<1>s. Stays(F, OnTape, D)
  <2>1. ASSUME NEW a \in OnTape, NEW x \in D PROVE step(a, x) \in OnTape
    BY <1>0, TradeStays
  <2> QED BY <1>2, <2>1, Zenon DEF Stays
<1>3. PICK g : Folded(g, F, base, seq, D)
  BY <1>1, FoldedExist
<1>4. \A s \in SUBSET D : g[s] \in OnTape
  <2> HIDE DEF base, F, seq, D
  <2> QED BY <1>1, <1>s, <1>3, FoldedIn
<1>5. \A s \in SUBSET D : s # {} => s \ {Max(s)} \in SUBSET D /\ Max(s) \in D
  BY <1>1, FS_Subset, MaxIsIn DEF Numbers
<1>6. Own(g)
  <2>1. ASSUME NEW s \in SUBSET D, s # {}
        PROVE  F[<<g[s \ {Max(s)}], seq[Max(s)]>>] = step(g[s \ {Max(s)}], seq[Max(s)])
    <3>1. g[s \ {Max(s)}] \in OnTape /\ seq[Max(s)] \in D
      BY <1>1, <1>4, <1>5, <2>1 DEF Typed
    <3> QED BY <1>2, <3>1, Zenon
  <2>2. g = [s \in SUBSET D |-> IF s = {} THEN base ELSE F[<<g[s \ {Max(s)}], seq[Max(s)]>>]]
    BY <1>3, Zenon DEF Folded
  <2>3. \A s \in SUBSET D : (IF s = {} THEN base ELSE F[<<g[s \ {Max(s)}], seq[Max(s)]>>])
                            = (IF s = {} THEN base ELSE step(g[s \ {Max(s)}], seq[Max(s)]))
    BY <2>1, Zenon
  <2> HIDE DEF F, seq, base, step, D
  <2>4. [s \in SUBSET D |-> IF s = {} THEN base ELSE F[<<g[s \ {Max(s)}], seq[Max(s)]>>]]
        = [s \in SUBSET D |-> IF s = {} THEN base ELSE step(g[s \ {Max(s)}], seq[Max(s)])]
    BY <2>3
  <2> QED BY <2>2, <2>4, Zenon
<1> DEFINE h == CHOOSE h : Own(h)
<1>7. Own(h)
  BY <1>6, Zenon
<1>8. TapeEnd(order) = h[D]
  BY Zenon DEF TapeEnd, FoldLeft, MapThenFoldSet
<1> HIDE DEF h
<1>9. TakesSteps(h, F, OnTape, base, seq, D)
  <2>1. ASSUME NEW s \in SUBSET D
        PROVE  h[s] = IF s = {} THEN base ELSE step(h[s \ {Max(s)}], seq[Max(s)])
    BY <1>7, Zenon
  <2>2. h[{}] = base
    <3>1. {} \in SUBSET D
      OBVIOUS
    <3> QED BY <2>1, <3>1, Zenon
  <2>3. ASSUME NEW s \in SUBSET D, s # {}, h[s \ {Max(s)}] \in OnTape
        PROVE  h[s] = F[<<h[s \ {Max(s)}], seq[Max(s)]>>]
    <3>1. seq[Max(s)] \in D
      BY <1>1, <1>5, <2>3 DEF Typed
    <3>2. h[s] = step(h[s \ {Max(s)}], seq[Max(s)])
      BY <2>1, <2>3, Zenon
    <3> QED BY <1>2, <2>3, <3>1, <3>2, Zenon
  <2> QED BY <2>2, <2>3 DEF TakesSteps
<1>10. FoldBy(F, base, seq) = h[D]
  <2>1. D = DOMAIN seq
    OBVIOUS
  <2> HIDE DEF D, F, base, seq
  <2> QED BY <1>1, <1>s, <1>9, <2>1, FoldBySteps
<1> QED BY <1>8, <1>10, Zenon

\* TapeGoes(h, order): h[i] is what the tape has made of the position after i bars.
TapeGoes(h, order) ==
  /\ h[0] = Opened
  /\ \A i \in 1..Len(bars) : h[i] = Trade(h[i - 1], bars[i], order[i])
  /\ TapeGain(order) = IF bars = <<>> THEN 0 ELSE AllOut(h[Len(bars)], Last(bars).close).gain

\* Every tape takes the position somewhere after every bar.
LEMMA TapeIs ==
  ASSUME rule \in Rules, bars \in Seq(Bar), NEW order
  PROVE  \E h : TapeGoes(h, order)
<1> DEFINE F == TapeBy(order)
<1>1. PICK n \in Nat : n = Len(bars) /\ DOMAIN bars = 1..n /\ \A i \in 1..n : bars[i] \in Bar
  BY Indices
<1>2. Counts(BarNumbers, n) /\ \A i \in 1..n : BarNumbers[i] = i
  BY <1>1 DEF Counts, BarNumbers
<1>3. PICK h : /\ h[0] = Opened
               /\ \A i \in 1..n : h[i] = F[<<h[i - 1], BarNumbers[i]>>]
               /\ FoldBy(F, Opened, BarNumbers) = h[n]
  <2> HIDE DEF F
  <2>1. PICK base : base = Opened
    OBVIOUS
  <2> QED BY <1>2, <2>1, FoldByPrefixes
<1>4. \A a \in OnTape, i \in 1..n : F[<<a, i>>] = Trade(a, bars[i], order[i])
  BY <1>1 DEF TapeBy
<1> HIDE DEF F
<1> DEFINE P == {i \in 0..n : h[i] \in OnTape}
<1>5. 0 \in P
  BY <1>3, OpenedIs
<1>6. ASSUME NEW i \in 1..n, i - 1 \in P
      PROVE  i \in P
  <2>1. h[i - 1] \in OnTape
    BY <1>6
  <2>2. h[i] = Trade(h[i - 1], bars[i], order[i])
    BY <1>2, <1>3, <1>4, <2>1
  <2>3. h[i] \in OnTape
    BY <1>1, <2>1, <2>2, TradeStays
  <2> QED BY <2>3
<1>7. \A i \in 0..n : h[i] \in OnTape
  <2>1. 0..n \subseteq P
    <3> HIDE DEF P
    <3> QED BY <1>5, <1>6, UpTo
  <2> QED BY <2>1
<1>8. \A i \in 1..n : h[i] = Trade(h[i - 1], bars[i], order[i])
  <2> TAKE i \in 1..n
  <2>1. i - 1 \in 0..n
    OBVIOUS
  <2>2. h[i - 1] \in OnTape
    BY <1>7, <2>1
  <2> QED BY <1>2, <1>3, <1>4, <2>2
<1>9. TapeEnd(order) = h[n]
  BY <1>3, TapeIsFold DEF F
<1>10. TapeGain(order) = IF bars = <<>> THEN 0 ELSE AllOut(TapeEnd(order), Last(bars).close).gain
  BY Zenon DEF TapeGain, TapeEnd, BarNumbers
<1>11. TapeGoes(h, order)
  BY <1>1, <1>3, <1>8, <1>9, <1>10, Zenon DEF TapeGoes
<1> QED BY <1>11

-----------------------------------------------------------------------------
(* The portions an outcome is made of.                                     *)

GainsOf(seq) == FoldLeft(LAMBDA sum, leg : sum + Gain(leg.parts, leg.price), 0, seq)

\* Portions with numbers in them.
Portions(seq, n) ==
  /\ n \in Nat /\ DOMAIN seq = 1..n
  /\ \A i \in 1..n : seq[i].parts \in Int /\ seq[i].price \in Int

GainBy(seq) == [p \in Int \X ToSet(seq) |-> p[1] + Gain(p[2].parts, p[2].price)]

\* The model's fold is a fold of this function.
LEMMA GainsAreFold ==
  ASSUME rule \in Rules, NEW n, NEW seq, Portions(seq, n)
  PROVE  GainsOf(seq) = FoldBy(GainBy(seq), 0, seq)
<1> DEFINE D == DOMAIN seq
           T == ToSet(seq)
           F == GainBy(seq)
           step(a, l) == a + Gain(l.parts, l.price)
           Own(h) == h = [s \in SUBSET D |->
                            IF s = {} THEN 0 ELSE step(h[s \ {Max(s)}], seq[Max(s)])]
<1>0. n \in Nat /\ D = 1..n /\ \A l \in T : l.parts \in Int /\ l.price \in Int
  BY DEF Portions, ToSet
<1>1. Numbers(D) /\ IsFiniteSet(D) /\ Typed(seq, D, T) /\ 0 \in Int
  <2>1. IsFiniteSet(1..n)
    BY <1>0, FS_Interval
  <2> QED BY <1>0, <2>1 DEF Numbers, Typed, ToSet
<1>2. \A a \in Int, x \in T : F[<<a, x>>] = step(a, x)
  BY DEF GainBy
<1>s. Stays(F, Int, T)
  <2>1. ASSUME NEW a \in Int, NEW x \in T PROVE step(a, x) \in Int
    <3>1. PICK g \in Int : g = Gain(x.parts, x.price)
      BY <1>0, GainIs
    <3> QED BY <3>1
  <2> QED BY <1>2, <2>1, Zenon DEF Stays
<1>3. PICK g : Folded(g, F, 0, seq, D)
  BY <1>1, FoldedExist
<1>4. \A s \in SUBSET D : g[s] \in Int
  <2>1. PICK base : base = 0
    OBVIOUS
  <2> HIDE DEF F, D, T
  <2> QED BY <1>1, <1>s, <1>3, <2>1, FoldedIn
<1>5. \A s \in SUBSET D : s # {} => s \ {Max(s)} \in SUBSET D /\ Max(s) \in D
  BY <1>1, FS_Subset, MaxIsIn DEF Numbers
<1>6. Own(g)
  <2>1. ASSUME NEW s \in SUBSET D, s # {}
        PROVE  F[<<g[s \ {Max(s)}], seq[Max(s)]>>] = step(g[s \ {Max(s)}], seq[Max(s)])
    <3>1. g[s \ {Max(s)}] \in Int /\ seq[Max(s)] \in T
      BY <1>1, <1>4, <1>5, <2>1 DEF Typed
    <3> QED BY <1>2, <3>1, Zenon
  <2>2. g = [s \in SUBSET D |-> IF s = {} THEN 0 ELSE F[<<g[s \ {Max(s)}], seq[Max(s)]>>]]
    BY <1>3, Zenon DEF Folded
  <2>3. \A s \in SUBSET D : (IF s = {} THEN 0 ELSE F[<<g[s \ {Max(s)}], seq[Max(s)]>>])
                            = (IF s = {} THEN 0 ELSE step(g[s \ {Max(s)}], seq[Max(s)]))
    BY <2>1, Zenon
  <2> HIDE DEF F, step, D
  <2>4. [s \in SUBSET D |-> IF s = {} THEN 0 ELSE F[<<g[s \ {Max(s)}], seq[Max(s)]>>]]
        = [s \in SUBSET D |-> IF s = {} THEN 0 ELSE step(g[s \ {Max(s)}], seq[Max(s)])]
    BY <2>3
  <2> QED BY <2>2, <2>4, Zenon
<1> DEFINE h == CHOOSE h : Own(h)
<1>7. Own(h)
  BY <1>6, Zenon
<1>8. GainsOf(seq) = h[D]
  BY Zenon DEF GainsOf, FoldLeft, MapThenFoldSet
<1> HIDE DEF h
<1>9. TakesSteps(h, F, Int, 0, seq, D)
  <2>1. ASSUME NEW s \in SUBSET D
        PROVE  h[s] = IF s = {} THEN 0 ELSE step(h[s \ {Max(s)}], seq[Max(s)])
    BY <1>7, Zenon
  <2>2. h[{}] = 0
    <3>1. {} \in SUBSET D
      OBVIOUS
    <3> QED BY <2>1, <3>1, Zenon
  <2>3. ASSUME NEW s \in SUBSET D, s # {}, h[s \ {Max(s)}] \in Int
        PROVE  h[s] = F[<<h[s \ {Max(s)}], seq[Max(s)]>>]
    <3>1. seq[Max(s)] \in T
      BY <1>1, <1>5, <2>3 DEF Typed
    <3>2. h[s] = step(h[s \ {Max(s)}], seq[Max(s)])
      BY <2>1, <2>3, Zenon
    <3> QED BY <1>2, <2>3, <3>1, <3>2, Zenon
  <2> QED BY <2>2, <2>3 DEF TakesSteps
<1>10. FoldBy(F, 0, seq) = h[D]
  <2>1. D = DOMAIN seq
    OBVIOUS
  <2>2. PICK base : base = 0
    OBVIOUS
  <2>3. base \in Int /\ TakesSteps(h, F, Int, base, seq, D)
    BY <1>9, <2>2
  <2> HIDE DEF D, F, T
  <2>4. FoldBy(F, base, seq) = h[D]
    BY <1>1, <1>s, <2>1, <2>3, FoldBySteps
  <2> QED BY <2>2, <2>4
<1> QED BY <1>8, <1>10, Zenon

\* One portion gains what it gains, and two what they gain together.
LEMMA GainsAre ==
  ASSUME rule \in Rules, NEW a, NEW b, a.parts \in Int, a.price \in Int, b.parts \in Int, b.price \in Int
  PROVE  /\ GainsOf(<<a>>) = Gain(a.parts, a.price)
         /\ GainsOf(<<a, b>>) = Gain(a.parts, a.price) + Gain(b.parts, b.price)
<1>0. PICK x \in Int, y \in Int : x = Gain(a.parts, a.price) /\ y = Gain(b.parts, b.price)
  BY GainIs
<1>1. GainsOf(<<a>>) = x
  <2>a. PICK seq : seq = <<a>>
    OBVIOUS
  <2>b. PICK n \in Nat : n = 1
    OBVIOUS
  <2>1. seq = <<a>> /\ n = 1
    BY <2>a, <2>b
  <2>2. Portions(seq, n) /\ Counts(seq, n) /\ seq[1] = a
    BY <2>1 DEF Portions, Counts
  <2>3. a \in ToSet(seq)
    BY <2>1 DEF ToSet
  <2>4. PICK h : /\ h[0] = 0 /\ \A i \in 1..n : h[i] = GainBy(seq)[<<h[i - 1], seq[i]>>]
                 /\ FoldBy(GainBy(seq), 0, seq) = h[n]
    BY <2>2, FoldByPrefixes
  <2>5. h[1] = GainBy(seq)[<<0, a>>]
    <3>1. 1 \in 1..n /\ 1 - 1 = 0
      BY <2>1
    <3> QED BY <2>2, <2>4, <3>1, Zenon
  <2>6. GainBy(seq)[<<0, a>>] = 0 + x
    BY <1>0, <2>3 DEF GainBy
  <2>7. GainsOf(seq) = h[1]
    BY <2>1, <2>2, <2>4, GainsAreFold
  <2> QED BY <2>1, <2>5, <2>6, <2>7, x \in Int
<1>2. GainsOf(<<a, b>>) = x + y
  <2>a. PICK seq : seq = <<a, b>>
    OBVIOUS
  <2>b. PICK n \in Nat : n = 2
    OBVIOUS
  <2>1. seq = <<a, b>> /\ n = 2
    BY <2>a, <2>b
  <2>2. Portions(seq, n) /\ Counts(seq, n) /\ seq[1] = a /\ seq[2] = b
    BY <2>1 DEF Portions, Counts
  <2>3. a \in ToSet(seq) /\ b \in ToSet(seq)
    BY <2>1 DEF ToSet
  <2>4. PICK h : /\ h[0] = 0 /\ \A i \in 1..n : h[i] = GainBy(seq)[<<h[i - 1], seq[i]>>]
                 /\ FoldBy(GainBy(seq), 0, seq) = h[n]
    BY <2>2, FoldByPrefixes
  <2>5. h[1] = GainBy(seq)[<<0, a>>] /\ h[2] = GainBy(seq)[<<h[1], b>>]
    <3>1. 1 \in 1..n /\ 2 \in 1..n /\ 1 - 1 = 0 /\ 2 - 1 = 1
      BY <2>1
    <3> QED BY <2>2, <2>4, <3>1, Zenon
  <2>6. h[1] = 0 + x
    BY <1>0, <2>3, <2>5 DEF GainBy
  <2>7. h[1] = x
    BY <2>6, x \in Int
  <2>8. h[2] = x + y
    <3>1. GainBy(seq)[<<x, b>>] = x + y
      BY <1>0, <2>3 DEF GainBy
    <3> QED BY <2>5, <2>7, <3>1, Zenon
  <2>9. GainsOf(seq) = h[2]
    BY <2>1, <2>2, <2>4, GainsAreFold
  <2> QED BY <2>1, <2>8, <2>9
<1> QED BY <1>0, <1>1, <1>2

\* The outcome of one portion and of two.
LEMMA ExitIs ==
  ASSUME rule \in Rules, NEW m \in Int, NEW x, x.price \in Int, NEW n \in Int, NEW y, y.price \in Int
  PROVE  /\ ExitLegs = <<Portion(m, x)>> =>
              Exit.gain = Gain(m, x.price) /\ (x.ambiguous = "yes" => Exit.ambiguous)
         /\ ExitLegs = <<Portion(m, x), Portion(n, y)>> =>
              /\ Exit.gain = Gain(m, x.price) + Gain(n, y.price)
              /\ y.ambiguous = "yes" => Exit.ambiguous
<1>1. PICK a : a = Portion(m, x)
  OBVIOUS
<1>2. PICK b : b = Portion(n, y)
  OBVIOUS
<1>3. a.parts = m /\ a.price = x.price /\ a.ambiguous = x.ambiguous
  BY <1>1 DEF Portion
<1>4. b.parts = n /\ b.price = y.price /\ b.ambiguous = y.ambiguous
  BY <1>2 DEF Portion
<1>5. Exit.gain = GainsOf(ExitLegs) /\ (Exit.ambiguous <=> \E i \in DOMAIN ExitLegs : ExitLegs[i].ambiguous = "yes")
  BY DEF Exit, GainsOf
<1>6. GainsOf(<<a>>) = Gain(m, x.price) /\ GainsOf(<<a, b>>) = Gain(m, x.price) + Gain(n, y.price)
  BY <1>3, <1>4, GainsAre
<1>7. ASSUME ExitLegs = <<a>>
      PROVE  Exit.gain = Gain(m, x.price) /\ (x.ambiguous = "yes" => Exit.ambiguous)
  <2>1. PICK legs : legs = ExitLegs /\ legs = <<a>>
    BY <1>7
  <2>2. 1 \in DOMAIN legs /\ legs[1] = a
    BY <2>1
  <2> QED BY <1>3, <1>5, <1>6, <2>1, <2>2, Zenon
<1>8. ASSUME ExitLegs = <<a, b>>
      PROVE  /\ Exit.gain = Gain(m, x.price) + Gain(n, y.price)
             /\ y.ambiguous = "yes" => Exit.ambiguous
  <2>1. PICK legs : legs = ExitLegs /\ legs = <<a, b>>
    BY <1>8
  <2>2. 2 \in DOMAIN legs /\ legs[2] = b
    BY <2>1
  <2> QED BY <1>4, <1>5, <1>6, <2>1, <2>2, Zenon
<1> QED BY <1>1, <1>2, <1>7, <1>8, Zenon

-----------------------------------------------------------------------------
(* A position on its way through the bars.                                 *)

\* A position stays what it was through bars it does not leave in.
LEMMA StaysUntil ==
  ASSUME rule \in Rules, bars \in Seq(Bar), NEW order \in Tapes, NEW h, TapeGoes(h, order),
         NEW t, Live(t), NEW a \in 0..Len(bars), h[a] = t, NEW c \in a..Len(bars),
         \A i \in (a + 1)..c : LeavesAt(i, t.stop, t.target) = <<>>
  PROVE  h[c] = t
<1>1. PICK n \in Nat : n = Len(bars) /\ DOMAIN bars = 1..n /\ \A i \in 1..n : bars[i] \in Bar
  BY Indices
<1>2. a \in Nat /\ c \in Nat /\ a <= c /\ c <= n
  BY <1>1
<1>3. \A i \in 1..n : h[i] = Trade(h[i - 1], bars[i], order[i]) /\ order[i] \in {"high", "low"}
  BY <1>1 DEF TapeGoes, Tapes
<1> DEFINE P == {i \in 0..c : i < a \/ h[i] = t}
<1>4. 0 \in P
  BY <1>2
<1>5. ASSUME NEW i \in 1..c, i - 1 \in P
      PROVE  i \in P
  <2>1. CASE i < a \/ i = a
    BY <1>2, <2>1
  <2>2. CASE a < i
    <3>1. i \in 1..n /\ i \in (a + 1)..c /\ ~(i - 1 < a)
      BY <1>2, <2>2
    <3>2. h[i - 1] = t
      BY <1>5, <3>1
    <3>3. LeavesIn(bars[i], t.stop, t.target, i) = <<>>
      BY <3>1 DEF LeavesAt
    <3>4. h[i] = Trade(t, bars[i], order[i])
      BY <1>3, <3>1, <3>2
    <3>5. bars[i] \in Bar /\ order[i] \in {"high", "low"}
      BY <1>1, <1>3, <3>1
    <3>6. h[i] = t
      BY <3>3, <3>4, <3>5, BarMakes
    <3> QED BY <3>6
  <2> QED BY <1>2, <2>1, <2>2
<1>6. 0..c \subseteq P
  <2> HIDE DEF P
  <2> QED BY <1>2, <1>4, <1>5, UpTo
<1> QED BY <1>2, <1>6

\* What is out stays out.
LEMMA StaysOut ==
  ASSUME bars \in Seq(Bar), NEW order, NEW h, TapeGoes(h, order),
         NEW t, t.left = 0, NEW a \in 0..Len(bars), h[a] = t
  PROVE  h[Len(bars)] = t
<1>1. PICK n \in Nat : n = Len(bars)
  BY Indices
<1>2. a \in Nat /\ a <= n
  BY <1>1
<1> DEFINE P == {i \in 0..n : i < a \/ h[i] = t}
<1>3. 0 \in P
  BY <1>2
<1>4. ASSUME NEW i \in 1..n, i - 1 \in P
      PROVE  i \in P
  <2>1. CASE i < a \/ i = a
    BY <1>2, <2>1
  <2>2. CASE a < i
    <3>1. h[i - 1] = t
      BY <1>2, <1>4, <2>2
    <3>2. h[i] = Trade(t, bars[i], order[i])
      BY <1>1, <3>1 DEF TapeGoes
    <3>3. h[i] = t
      BY <3>2, TradeOut
    <3> QED BY <3>3
  <2> QED BY <1>2, <2>1, <2>2
<1>5. 0..n \subseteq P
  <2> HIDE DEF P
  <2> QED BY <1>3, <1>4, UpTo
<1> QED BY <1>1, <1>2, <1>5

\* Nothing gains nothing, and a better price gains no less.
LEMMA GainGrows ==
  ASSUME rule \in Rules, NEW p \in Int, NEW q \in Int
  PROVE  /\ Gain(0, p) = 0 /\ \A m \in Int : Gain(m, EntryPrice) = 0
         /\ Up(p) <= Up(q) => Gain(Parts, p) <= Gain(Parts, q)
<1>1. PICK e \in Nat, m \in Nat : e = EntryPrice /\ m = Parts
  BY RuleIs
<1>2. CASE SignOf = 1 /\ \A x \in Int : Up(x) = x
  <2>1. 0 * 1 * (p - e) = 0 /\ \A k \in Int : k * 1 * (e - e) = 0
    BY ONLY p \in Int, e \in Nat
  <2>2. p <= q => m * 1 * (p - e) <= m * 1 * (q - e)
    BY ONLY p \in Int, q \in Int, m \in Nat, e \in Nat
  <2> QED BY <1>1, <1>2, <2>1, <2>2 DEF Gain
<1>3. CASE SignOf = -1 /\ \A x \in Int : Up(x) = -x
  <2>1. 0 * (-1) * (p - e) = 0 /\ \A k \in Int : k * (-1) * (e - e) = 0
    BY ONLY p \in Int, e \in Nat
  <2>2. -p <= -q => m * (-1) * (p - e) <= m * (-1) * (q - e)
    BY ONLY p \in Int, q \in Int, m \in Nat, e \in Nat
  <2> QED BY <1>1, <1>3, <2>1, <2>2 DEF Gain
<1> QED BY <1>2, <1>3, UpIs

\* The last bar closes at a number.
LEMMA LastCloses ==
  ASSUME rule \in Rules, bars \in Seq(Bar), bars # <<>>
  PROVE  /\ Len(bars) \in Nat /\ Len(bars) > 0
         /\ Last(bars).close \in Int
<1>1. Len(bars) \in Nat /\ Len(bars) > 0 /\ bars[Len(bars)] \in Bar
  OBVIOUS
<1>2. Last(bars) = bars[Len(bars)]
  BY DEF Last
<1>3. InBar(Last(bars), Last(bars).close)
  BY DEF InBar
<1> QED BY <1>1, <1>2, <1>3, BarEnds

\* A position that is out has made what it made.
LEMMA OutGains ==
  ASSUME rule \in Rules, bars \in Seq(Bar), bars # <<>>, NEW order, NEW h, TapeGoes(h, order),
         NEW t \in OnTape, NEW p \in Int, NEW k \in 0..Len(bars), h[k] = AllOut(t, p)
  PROVE  TapeGain(order) = t.gain + Gain(t.left, p)
<1>1. PICK x : x = AllOut(t, p)
  OBVIOUS
<1>2. x.left = 0 /\ x.gain = t.gain + Gain(t.left, p)
  <2>1. x = [left |-> 0, stop |-> t.stop, target |-> t.target, gain |-> t.gain + Gain(t.left, p)]
    BY <1>1, AllOutIs
  <2> QED BY <2>1
<1>3. x.gain \in Int /\ x \in OnTape
  <2>1. t.gain \in Int /\ t.left \in Int /\ t.stop \in Int /\ t.target \in Int
    BY DEF OnTape
  <2>2. PICK g \in Int : g = Gain(t.left, p)
    BY <2>1, GainIs
  <2>3. x = [left |-> 0, stop |-> t.stop, target |-> t.target, gain |-> t.gain + g]
    BY <1>1, <2>2, AllOutIs
  <2> QED BY <2>1, <2>3 DEF OnTape
<1>4. h[Len(bars)] = x
  BY <1>1, <1>2, StaysOut
<1>5. TapeGain(order) = AllOut(x, Last(bars).close).gain
  BY <1>4 DEF TapeGoes
<1>6. AllOut(x, Last(bars).close).gain = x.gain + Gain(0, Last(bars).close)
  <2>1. PICK y : y = AllOut(x, Last(bars).close)
    OBVIOUS
  <2>2. y = [left |-> 0, stop |-> x.stop, target |-> x.target, gain |-> x.gain + Gain(x.left, Last(bars).close)]
    BY <1>3, <2>1, AllOutIs
  <2> QED BY <1>2, <2>1, <2>2
<1>7. Gain(0, Last(bars).close) = 0
  BY LastCloses, GainGrows
<1> QED BY <1>2, <1>3, <1>5, <1>6, <1>7

\* Walked(h, order, t, a, x): what a walk says of a position is what the tape made of it.
Walked(h, order, t, a, x) ==
  /\ x.price \in Int
  /\ \/ /\ x.reason = "close" /\ x.ambiguous = "no"
        /\ TapeGain(order) = t.gain + Gain(t.left, x.price)
     \/ \E k \in (a + 1)..Len(bars) : x.at = k /\ LeftAs(t, bars[k], h[k], x)

\* The walk and the tape leave in the same bar, or in none.
LEMMA WalkMakes ==
  ASSUME rule \in Rules, bars \in Seq(Bar), bars # <<>>, NEW order \in Tapes, NEW h, TapeGoes(h, order),
         NEW t, Live(t), NEW a \in 0..Len(bars), h[a] = t
  PROVE  Walked(h, order, t, a, Walk(a + 1, t.stop, t.target))
<1>1. PICK n \in Nat : n = Len(bars) /\ n > 0 /\ DOMAIN bars = 1..n /\ \A i \in 1..n : bars[i] \in Bar
  BY Indices, LastCloses
<1>2. PICK x : x = Walk(a + 1, t.stop, t.target)
  OBVIOUS
<1>3. a \in Nat /\ a <= n /\ a + 1 \in Nat /\ Len(bars) \in Nat
  BY <1>1
<1>4. CASE /\ \A i \in (a + 1)..Len(bars) : LeavesAt(i, t.stop, t.target) = <<>>
           /\ x = Leaving(Last(bars).close, "close", "no", Len(bars))
  <2>1. h[n] = t
    <3>1. n \in a..Len(bars) /\ \A i \in (a + 1)..n : LeavesAt(i, t.stop, t.target) = <<>>
      BY <1>1, <1>3, <1>4
    <3> QED BY <3>1, StaysUntil
  <2>2. x.price = Last(bars).close /\ x.reason = "close" /\ x.ambiguous = "no"
    BY <1>4, LeavingIs
  <2>3. x.price \in Int
    BY <2>2, LastCloses
  <2>4. TapeGain(order) = AllOut(t, x.price).gain
    BY <1>1, <2>1, <2>2 DEF TapeGoes
  <2>5. AllOut(t, x.price).gain = t.gain + Gain(t.left, x.price)
    <3>1. PICK y : y = AllOut(t, x.price)
      OBVIOUS
    <3>2. y = [left |-> 0, stop |-> t.stop, target |-> t.target, gain |-> t.gain + Gain(t.left, x.price)]
      BY <3>1, AllOutIs DEF Live
    <3> QED BY <3>1, <3>2
  <2>6. Walked(h, order, t, a, x)
    BY <2>2, <2>3, <2>4, <2>5 DEF Walked
  <2> QED BY <1>2, <2>6
<1>5. ASSUME NEW k, FirstOut(a + 1, k, t.stop, t.target), x = LeavesAt(k, t.stop, t.target)[1]
      PROVE  Walked(h, order, t, a, x)
  <2>1. /\ k \in (a + 1)..Len(bars) /\ LeavesAt(k, t.stop, t.target) # <<>>
        /\ \A i \in (a + 1)..Len(bars) : i < k => LeavesAt(i, t.stop, t.target) = <<>>
    BY <1>5 DEF FirstOut
  <2>2. k \in 1..n /\ k - 1 \in a..Len(bars) /\ \A i \in (a + 1)..(k - 1) : i \in (a + 1)..Len(bars) /\ i < k
    BY <1>1, <1>3, <2>1
  <2>3. h[k - 1] = t
    <3>1. \A i \in (a + 1)..(k - 1) : LeavesAt(i, t.stop, t.target) = <<>>
      BY <2>1, <2>2
    <3> QED BY <2>2, <3>1, StaysUntil
  <2>4. h[k] = Trade(t, bars[k], order[k]) /\ bars[k] \in Bar /\ order[k] \in {"high", "low"}
    BY <1>1, <2>2, <2>3 DEF TapeGoes, Tapes
  <2>5. LeftAs(t, bars[k], h[k], x) /\ x.at = k
    <3>1. LeavesIn(bars[k], t.stop, t.target, k) # <<>> /\ x = LeavesIn(bars[k], t.stop, t.target, k)[1]
      BY <1>5, <2>1 DEF LeavesAt
    <3>2. PICK b \in Bar, first \in {"high", "low"} : b = bars[k] /\ first = order[k]
      BY <2>4
    <3>3. PICK lv : lv = LeavesIn(b, t.stop, t.target, k)
      OBVIOUS
    <3>4. LeftAs(t, b, Trade(t, b, first), lv[1]) /\ lv[1].at = k
      <4>1. lv # <<>> /\ Live(t) /\ rule \in Rules
        BY <3>1, <3>2, <3>3
      <4>2. LeavesIn(b, t.stop, t.target, k) # <<>> =>
              /\ LeftAs(t, b, Trade(t, b, first), LeavesIn(b, t.stop, t.target, k)[1])
              /\ LeavesIn(b, t.stop, t.target, k)[1].at = k
        BY BarMakes
      <4> QED BY <3>3, <4>1, <4>2, Zenon
    <3> QED BY <2>4, <3>1, <3>2, <3>3, <3>4, Zenon
  <2>6. x.price \in Int
    BY <2>5 DEF LeftAs
  <2> QED BY <2>1, <2>5, <2>6 DEF Walked
<1>6. \/ /\ \A i \in (a + 1)..Len(bars) : LeavesAt(i, t.stop, t.target) = <<>>
         /\ x = Leaving(Last(bars).close, "close", "no", Len(bars))
      \/ \E k : FirstOut(a + 1, k, t.stop, t.target) /\ x = LeavesAt(k, t.stop, t.target)[1]
  BY <1>2, <1>3, WalkIs
<1> QED BY <1>2, <1>4, <1>5, <1>6

\* AsTheTape(order): what the property says of one tape.
AsTheTape(order) ==
  \/ Exit.gain = TapeGain(order)
  \/ Exit.ambiguous /\ (rule.scaleOut = 0 => Exit.gain <= TapeGain(order))

\* Without a bar the position leaves where it entered.
LEMMA NoBarsAsTheTape ==
  ASSUME rule \in Rules, bars = <<>>, NEW order
  PROVE  AsTheTape(order)
<1>1. PICK x : x = Leaving(EntryPrice, "close", "no", 0)
  OBVIOUS
<1>2. x.price = EntryPrice
  BY <1>1, LeavingIs
<1>3. ExitLegs = <<Portion(Parts, x)>>
  BY <1>1, Zenon DEF ExitLegs
<1>4. Parts \in Int /\ EntryPrice \in Int
  BY RuleIs
<1>5. Exit.gain = Gain(Parts, EntryPrice)
  <2>1. x.price \in Int
    BY <1>2, <1>4
  <2> QED BY <1>2, <1>3, <1>4, <2>1, ExitIs
<1>6. Gain(Parts, EntryPrice) = 0
  BY <1>4, GainGrows
<1>7. TapeGain(order) = 0
  BY Zenon DEF TapeGain
<1> QED BY <1>5, <1>6, <1>7 DEF AsTheTape

\* A position that leaves whole.
LEMMA WholeAsTheTape ==
  ASSUME rule \in Rules, bars \in Seq(Bar), bars # <<>>, NEW order \in Tapes, NEW h, TapeGoes(h, order),
         NEW x, x = Walk(1, StopPrice, TargetPrice), Walked(h, order, Opened, 0, x),
         x.reason # "target" \/ rule.scaleOut = 0
  PROVE  AsTheTape(order)
<1>1. x.price \in Int /\ Parts \in Int
  BY RuleIs DEF Walked
<1>2. Exit.gain = Gain(Parts, x.price) /\ (x.ambiguous = "yes" => Exit.ambiguous)
  <2>1. ExitLegs = <<Portion(Parts, x)>>
    BY Zenon DEF ExitLegs
  <2> QED BY <1>1, <2>1, ExitIs
<1>3. PICK t : t = Opened
  OBVIOUS
<1>4. /\ t \in OnTape /\ t.left = Parts /\ t.stop = StopPrice /\ t.target = TargetPrice /\ t.gain = 0
      /\ StopPrice \in Int /\ TargetPrice \in Int
  BY <1>3, OpenedIs, LevelsAre
<1>5. ASSUME NEW p \in Int PROVE 0 + Gain(Parts, p) = Gain(Parts, p)
  BY <1>1, GainIs
<1>6. CASE TapeGain(order) = t.gain + Gain(t.left, x.price)
  BY <1>1, <1>2, <1>4, <1>5, <1>6 DEF AsTheTape
<1>7. ASSUME NEW k \in 1..Len(bars), LeftAs(t, bars[k], h[k], x)
      PROVE  AsTheTape(order)
  <2>0. k \in 0..Len(bars)
    BY LastCloses
  <2>1. CASE h[k] = AllOut(t, x.price)
    <3>1. TapeGain(order) = t.gain + Gain(t.left, x.price)
      BY <1>1, <1>4, <2>0, <2>1, OutGains
    <3> QED BY <1>6, <3>1
  <2>2. CASE x.reason = "target" /\ (rule.scaleOut = 0 => h[k] = AtTarget(t, x.price))
    <3>1. AtTarget(t, x.price) = AllOut(t, x.price)
      BY <2>2, AtTargetIs
    <3> QED BY <2>1, <2>2, <3>1
  <2>3. CASE /\ x.ambiguous = "yes" /\ x.price = t.stop
             /\ rule.scaleOut = 0 => h[k] \in {AllOut(t, t.stop), AllOut(t, t.target)}
    <3>1. ASSUME rule.scaleOut = 0 PROVE Exit.gain <= TapeGain(order)
      <4>1. PICK p \in {t.stop, t.target} : h[k] = AllOut(t, p)
        BY <2>3, <3>1
      <4>2. p \in Int
        BY <1>4
      <4>3. TapeGain(order) = Gain(Parts, p)
        <5>1. TapeGain(order) = t.gain + Gain(t.left, p)
          BY <1>4, <2>0, <4>1, <4>2, OutGains
        <5> QED BY <1>4, <1>5, <4>2, <5>1
      <4>4. Up(t.stop) <= Up(p)
        <5>1. Up(StopPrice) \in Int /\ Up(EntryPrice) \in Int /\ Up(TargetPrice) \in Int
          <6>1. StopPrice \in Int /\ TargetPrice \in Int /\ EntryPrice \in Int
            BY LevelsAre, RuleIs
          <6> QED BY <6>1, UpIs
        <5>2. Up(StopPrice) < Up(EntryPrice) /\ Up(EntryPrice) < Up(TargetPrice)
          BY LevelsAre
        <5>3. Up(StopPrice) <= Up(StopPrice) /\ Up(StopPrice) <= Up(TargetPrice)
          BY <5>1, <5>2
        <5> QED BY <1>4, <4>1, <5>3
      <4>5. Gain(Parts, t.stop) <= Gain(Parts, p)
        BY <1>4, <4>2, <4>4, GainGrows
      <4> QED BY <1>2, <2>3, <4>3, <4>5
    <3> QED BY <1>2, <2>3, <3>1 DEF AsTheTape
  <2> QED BY <1>7, <2>1, <2>2, <2>3 DEF LeftAs
<1>8. \/ TapeGain(order) = t.gain + Gain(t.left, x.price)
      \/ \E k \in 1..Len(bars) : LeftAs(t, bars[k], h[k], x)
  <2>1. 0 + 1 = 1
    OBVIOUS
  <2> QED BY <1>3, <2>1, Zenon DEF Walked
<1> QED BY <1>6, <1>7, <1>8

\* A walk ends in a leaving.
LEMMA WalkLeaves ==
  ASSUME NEW start \in Nat, NEW stop, NEW target, Len(bars) \in Nat
  PROVE  \E p, r, a, i : Walk(start, stop, target) = Leaving(p, r, a, i)
<1>1. ASSUME NEW k, LeavesAt(k, stop, target) # <<>>
      PROVE  \E p, r, a : LeavesAt(k, stop, target)[1] = Leaving(p, r, a, k)
  <2>1. \E p, r, a : LeavesAt(k, stop, target) = <<Leaving(p, r, a, k)>>
    BY <1>1, Zenon DEF LeavesAt, LeavesIn, LeavesAtClose, LeavesOnTouch
  <2> QED BY <2>1, LeavingIs
<1>2. CASE Walk(start, stop, target) = Leaving(Last(bars).close, "close", "no", Len(bars))
  BY <1>2, Zenon
<1>3. ASSUME NEW k, FirstOut(start, k, stop, target), Walk(start, stop, target) = LeavesAt(k, stop, target)[1]
      PROVE  \E p, r, a, i : Walk(start, stop, target) = Leaving(p, r, a, i)
  <2>1. LeavesAt(k, stop, target) # <<>>
    BY <1>3, Zenon DEF FirstOut
  <2> QED BY <1>1, <1>3, <2>1, Zenon
<1> QED BY <1>2, <1>3, WalkIs

\* A position that leaves in two portions.
LEMMA ScaledAsTheTape ==
  ASSUME rule \in Rules, bars \in Seq(Bar), bars # <<>>, NEW order \in Tapes, NEW h, TapeGoes(h, order),
         NEW x, x = Walk(1, StopPrice, TargetPrice), Walked(h, order, Opened, 0, x),
         x.reason = "target", rule.scaleOut # 0
  PROVE  AsTheTape(order)
<1>1. PICK n \in Nat : n = Len(bars) /\ n > 0 /\ DOMAIN bars = 1..n /\ \A i \in 1..n : bars[i] \in Bar
  BY Indices, LastCloses
<1>2. PICK t : t = Opened
  OBVIOUS
<1>3. /\ Live(t) /\ t.left = Parts /\ t.gain = 0 /\ t.target = TargetPrice
  BY <1>2, OpenedIs
<1>4. PICK k \in 1..n : x.at = k /\ LeftAs(t, bars[k], h[k], x)
  <2>1. 0 + 1 = 1
    OBVIOUS
  <2>2. \E k \in 1..n : x.at = k /\ LeftAs(t, bars[k], h[k], x)
    BY <1>1, <1>2, <2>1, Zenon DEF Walked
  <2> QED BY <2>2
<1>5. /\ t.target # NoTarget
      /\ ~(Up(Adverse(bars[k])) <= Up(EntryPrice)) => h[k] = AtTarget(t, x.price)
  BY <1>4, Zenon DEF LeftAs
<1>6. /\ x.price \in Int /\ Parts \in Int /\ rule.scaleOut \in Int /\ Parts - rule.scaleOut \in Int
      /\ EntryPrice \in Int
  BY RuleIs DEF Walked
<1>7. PICK y : y = Runner(x)
  OBVIOUS
<1>8. ExitLegs = <<Portion(rule.scaleOut, x), Portion(Parts - rule.scaleOut, y)>>
  BY <1>7, Zenon DEF ExitLegs
<1>9. ASSUME y.price \in Int
      PROVE  /\ Exit.gain = Gain(rule.scaleOut, x.price) + Gain(Parts - rule.scaleOut, y.price)
             /\ y.ambiguous = "yes" => Exit.ambiguous
  BY <1>6, <1>8, <1>9, ExitIs
<1>10. CASE Up(Adverse(bars[k])) <= Up(EntryPrice)
  <2>1. y = Leaving(EntryPrice, "breakeven", "yes", k)
    BY <1>4, <1>7, <1>10, Zenon DEF Runner
  <2>2. y.price = EntryPrice /\ y.ambiguous = "yes"
    BY <2>1, LeavingIs
  <2>3. Exit.ambiguous
    BY <1>6, <1>9, <2>2
  <2> QED BY <2>3 DEF AsTheTape
<1>11. CASE ~(Up(Adverse(bars[k])) <= Up(EntryPrice))
  <2>1. PICK r : r = Rest(t, x.price)
    OBVIOUS
  <2>2. h[k] = r
    BY <1>5, <1>11, <2>1, AtTargetIs
  <2>3. Live(r)
    BY <1>3, <1>5, <1>6, <2>1, RestIs
  <2>4. /\ r.left = Parts - rule.scaleOut /\ r.stop = EntryPrice /\ r.target = NoTarget
        /\ r.gain = 0 + Gain(rule.scaleOut, x.price)
    BY <1>3, <2>1 DEF Rest
  <2>5. PICK later : later = Walk(k + 1, EntryPrice, NoTarget)
    OBVIOUS
  <2>6. Walked(h, order, r, k, later)
    <3>1. k \in 0..Len(bars)
      BY <1>1
    <3>2. Walked(h, order, r, k, Walk(k + 1, r.stop, r.target))
      BY <2>2, <2>3, <3>1, WalkMakes
    <3> QED BY <2>4, <2>5, <3>2
  <2>7. y = IF later.reason = "stop" THEN [later EXCEPT !.reason = "breakeven"] ELSE later
    BY <1>4, <1>7, <1>11, <2>5, Zenon DEF Runner
  <2>8. y.price = later.price
    <3>1. CASE later.reason = "stop"
      <4>1. PICK p, r1, a, i : later = Leaving(p, r1, a, i)
        <5>1. k + 1 \in Nat /\ Len(bars) \in Nat
          BY <1>1
        <5> QED BY <2>5, <5>1, WalkLeaves
      <4>2. later = [price |-> p, reason |-> r1, ambiguous |-> a, at |-> i]
        BY <4>1 DEF Leaving
      <4>3. [later EXCEPT !.reason = "breakeven"].price = later.price
        BY <4>2
      <4> QED BY <2>7, <3>1, <4>3
    <3> QED BY <2>7, <3>1
  <2>9. TapeGain(order) = r.gain + Gain(r.left, later.price)
    <3>1. CASE TapeGain(order) = r.gain + Gain(r.left, later.price)
      BY <3>1
    <3>2. ASSUME NEW j \in (k + 1)..Len(bars), LeftAs(r, bars[j], h[j], later)
          PROVE  TapeGain(order) = r.gain + Gain(r.left, later.price)
      <4>1. h[j] = AllOut(r, later.price) /\ later.price \in Int
        BY <2>4, <3>2, Zenon DEF LeftAs
      <4>2. j \in 0..Len(bars) /\ r \in OnTape
        BY <1>1, <2>3 DEF Live
      <4> QED BY <4>1, <4>2, OutGains
    <3> QED BY <2>6, <3>1, <3>2, Zenon DEF Walked
  <2>10. later.price \in Int
    BY <2>6 DEF Walked
  <2>11. Exit.gain = Gain(rule.scaleOut, x.price) + Gain(Parts - rule.scaleOut, later.price)
    BY <1>9, <2>8, <2>10
  <2>12. PICK g \in Int : g = Gain(rule.scaleOut, x.price)
    BY <1>6, GainIs
  <2>13. TapeGain(order) = g + Gain(Parts - rule.scaleOut, later.price)
    BY <2>4, <2>9, <2>12
  <2> QED BY <2>11, <2>12, <2>13 DEF AsTheTape
<1> QED BY <1>10, <1>11

\* For any rule and any bars.
LEMMA EveryTape ==
  ASSUME rule \in Rules, bars \in Seq(Bar)
  PROVE  OutcomeIsTheTapes
<1> SUFFICES ASSUME NEW order \in Tapes
             PROVE  AsTheTape(order)
  BY Zenon DEF OutcomeIsTheTapes, AsTheTape
<1>1. CASE bars # <<>>
  <2>1. PICK h : TapeGoes(h, order)
    BY TapeIs
  <2>2. PICK x : x = Walk(1, StopPrice, TargetPrice)
    OBVIOUS
  <2>3. Walked(h, order, Opened, 0, x)
    <3>1. h[0] = Opened /\ 0 \in 0..Len(bars) /\ 0 + 1 = 1
      BY <1>1, <2>1, LastCloses DEF TapeGoes
    <3>2. PICK t : t = Opened
      OBVIOUS
    <3>3. Live(t) /\ t.stop = StopPrice /\ t.target = TargetPrice /\ h[0] = t
      BY <3>1, <3>2, OpenedIs
    <3>4. Walked(h, order, t, 0, Walk(0 + 1, t.stop, t.target))
      BY <1>1, <2>1, <3>1, <3>3, WalkMakes
    <3> QED BY <2>2, <3>1, <3>2, <3>3, <3>4
  <2>4. CASE x.reason # "target" \/ rule.scaleOut = 0
    BY <1>1, <2>1, <2>2, <2>3, <2>4, WholeAsTheTape
  <2>5. CASE x.reason = "target" /\ rule.scaleOut # 0
    BY <1>1, <2>1, <2>2, <2>3, <2>5, ScaledAsTheTape
  <2> QED BY <2>4, <2>5
<1> QED BY <1>1, NoBarsAsTheTape

\* Rules stay rules, and bars bars.
ExitInv == rule \in Rules /\ bars \in Seq(Bar)

\* What simulate_exit answers is what every tape of the bars makes, unless it
\* says that it is ambiguous, and then, without portions, no tape makes less: for
\* any prices, rules and number of bars.
THEOREM OutcomeIsAlwaysTheTapes == ExitSpec => []OutcomeIsTheTapes
<1>1. ExitInit => ExitInv
  BY DEF ExitInit, ExitInv
<1>2. ExitInv /\ [ExitNext]_exitVars => ExitInv'
  BY DEF ExitInv, ExitNext, NextBar, exitVars, Bar
<1>3. ExitInv => OutcomeIsTheTapes
  BY EveryTape DEF ExitInv
<1> QED BY <1>1, <1>2, <1>3, PTL DEF ExitSpec
=============================================================================

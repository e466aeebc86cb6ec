--------------------------- MODULE CampaignsProofs ---------------------------
(***************************************************************************)
(* Proofs about the passes of a campaign, for either playbook, any strikes, *)
(* any orders traded by hand, any moments they are stamped with and any     *)
(* number of orders, switches and restarts.  What a pass may save as its    *)
(* cursor is settled when it lists the orders: up to each order of its      *)
(* list, all that were done in time left a trace or stand in the list.      *)
(* Orders done later are later than all that was reached, or late, and no   *)
(* event is ever taken back.  How often an order is counted is bounded by   *)
(* a sum: what was added plus what the passes in hand may still add.        *)
(***************************************************************************)
EXTENDS Campaigns, SumLemmas

\* A pass that records has an order and an event in hand, one that places has a
\* step to take, one that has placed an order knows its id, and what it lists
\* are orders, of the n there are.
RowInHand(row, n) ==
  /\ row.at = "record" => row.list # <<>> /\ row.todo # <<>>
  /\ row.at = "place" => row.step # Hold
  /\ row.at \in {"mark", "executed"} => row.id \in 1..n
  /\ \A i \in DOMAIN row.list : row.list[i] \in 1..n

InHand == \A p \in Passes : RowInHand(pass[p], Len(orders))

\* Every order done in time up to the moment n left a trace or is in the list.
Covered(list, n) ==
  \A o \in Done : orders[o].late = "no" /\ orders[o].stamp <= n
    => HasOrderEvent(o) \/ \E i \in DOMAIN list : list[i] = o

\* A moment that was reached and up to which nothing is open.
Seen(n) == Reached(n) /\ Covered(<<>>, n)

\* What a pass has of cursors and lists: up to its newest stamp, and up to each
\* order of its list, what left no trace is still in the list.
RowTells(row) ==
  /\ Seen(row.cursor)
  /\ Reached(row.newest) /\ Covered(row.list, row.newest)
  /\ \A i \in DOMAIN row.list :
       row.list[i] \in Done /\ Covered(row.list, orders[row.list[i]].stamp)
  /\ row.at \in {"snapshot", "save"} => row.list = <<>>

\* The cursor of the row, and what the passes hold.
CursorsTell ==
  /\ Seen(0) /\ Seen(1) /\ Seen(campaign.cursor)
  /\ \A p \in Passes : RowTells(pass[p])

-----------------------------------------------------------------------------
(* A few facts about the operators of the code.                             *)

LEMMA ConstantsHold ==
  /\ CampaignBounds /\ HandTradesAssumption /\ BookAssumption
BY CampaignBounds, HandTradesAssumption, BookAssumption DEF CampaignBounds, HandTradesAssumption, BookAssumption

\* Whatever an order stands for, it is at least one event, and none of them
\* is that of an execution.
LEMMA EventsOfType ==
  ASSUME NEW strategy
  PROVE  EventsOf(strategy) \in Seq(Addition) /\ EventsOf(strategy) # <<>>
<1>1. \A kind \in EventKinds \ {"executed"}, cash \in Int :
        /\ <<[kind |-> kind, cash |-> cash]>> \in Seq(Addition)
        /\ <<[kind |-> kind, cash |-> cash]>> # <<>>
  BY DEF Addition
<1>2. \A s, t \in Seq(Addition) : s # <<>> => s \o t \in Seq(Addition) /\ s \o t # <<>>
  OBVIOUS
<1>3. \A kind \in {"sold_put", "sold_call", "bought_call", "closed", "sold_long", "rolled",
                   "expired", "cash_settled", "assigned", "called_away", "manual_note"} :
        kind \in EventKinds \ {"executed"}
  BY DEF EventKinds
<1> HIDE DEF Addition, EventKinds
<1>4. CASE strategy = "close_both"
  <2>1. EventsOf(strategy) = <<[kind |-> "closed", cash |-> -1]>> \o <<[kind |-> "sold_long", cash |-> 3]>>
    BY <1>4 DEF EventsOf
  <2>2. QED
    BY <1>1, <1>2, <1>3, <2>1
<1>5. CASE strategy = "roll_long"
  <2>1. EventsOf(strategy) = <<[kind |-> "sold_long", cash |-> 3]>> \o <<[kind |-> "bought_call", cash |-> -3]>>
    BY <1>5 DEF EventsOf
  <2>2. QED
    BY <1>1, <1>2, <1>3, <2>1
<1>6. CASE strategy \notin {"close_both", "roll_long"}
  <2>1. CASE strategy = "cash_secured_put"
    <3>1. EventsOf(strategy) = <<[kind |-> "sold_put", cash |-> 2]>>
      BY <2>1 DEF EventsOf
    <3>2. QED
      BY <1>1, <1>3, <3>1
  <2>2. CASE strategy = "covered_call"
    <3>1. EventsOf(strategy) = <<[kind |-> "sold_call", cash |-> 2]>>
      BY <2>2 DEF EventsOf
    <3>2. QED
      BY <1>1, <1>3, <3>1
  <2>3. CASE strategy = "long_call"
    <3>1. EventsOf(strategy) = <<[kind |-> "bought_call", cash |-> -3]>>
      BY <2>3 DEF EventsOf
    <3>2. QED
      BY <1>1, <1>3, <3>1
  <2>4. CASE strategy \in {"close_put", "close_call"}
    <3>1. EventsOf(strategy) = <<[kind |-> "closed", cash |-> -1]>>
      BY <2>4 DEF EventsOf
    <3>2. QED
      BY <1>1, <1>3, <3>1
  <2>5. CASE strategy = "close_long"
    <3>1. EventsOf(strategy) = <<[kind |-> "closed", cash |-> 3]>>
      BY <2>5 DEF EventsOf
    <3>2. QED
      BY <1>1, <1>3, <3>1
  <2>6. CASE strategy = "roll"
    <3>1. EventsOf(strategy) = <<[kind |-> "rolled", cash |-> 1]>>
      BY <2>6 DEF EventsOf
    <3>2. QED
      BY <1>1, <1>3, <3>1
  <2>7. CASE strategy \in {"expire_put", "expire_call"}
    <3>1. EventsOf(strategy) = <<[kind |-> "expired", cash |-> 0]>>
      BY <2>7 DEF EventsOf
    <3>2. QED
      BY <1>1, <1>3, <3>1
  <2>8. CASE strategy = "assigned"
    <3>1. EventsOf(strategy) = <<[kind |-> "assigned", cash |-> 0]>>
      BY <2>8 DEF EventsOf
    <3>2. QED
      BY <1>1, <1>3, <3>1
  <2>9. CASE strategy = "called_away"
    <3>1. EventsOf(strategy) = <<[kind |-> "called_away", cash |-> 0]>>
      BY <2>9 DEF EventsOf
    <3>2. QED
      BY <1>1, <1>3, <3>1
  <2>10. CASE strategy \notin {"cash_secured_put", "covered_call", "long_call", "close_put", "close_call", "close_long",
                         "roll", "expire_put", "expire_call", "cash_settled_call", "cash_settled_long",
                         "assigned", "called_away"}
    <3>1. EventsOf(strategy) = <<[kind |-> "manual_note", cash |-> 0]>>
      BY <1>6, <2>10 DEF EventsOf
    <3>2. QED
      BY <1>1, <1>3, <3>1
  <2>11. CASE strategy = "cash_settled_call"
    <3>1. EventsOf(strategy) = <<[kind |-> "cash_settled", cash |-> -1]>>
      BY <2>11 DEF EventsOf
    <3>2. QED
      BY <1>1, <1>3, <3>1
  <2>12. CASE strategy = "cash_settled_long"
    <3>1. EventsOf(strategy) = <<[kind |-> "cash_settled", cash |-> 3]>>
      BY <2>12 DEF EventsOf
    <3>2. QED
      BY <1>1, <1>3, <3>1
  <2>13. QED
    BY <2>1, <2>2, <2>3, <2>4, <2>5, <2>6, <2>7, <2>8, <2>9, <2>10, <2>11, <2>12
<1>7. QED
  BY <1>4, <1>5, <1>6

\* The steps a playbook may answer with.
LEMMA NextStepsType ==
  ASSUME NEW b, NEW step \in NextSteps(b)
  PROVE  step \in Steps
BY ConstantsHold DEF NextSteps, WheelSteps, PoorMansSteps, Named, Hold, Steps, CampaignBounds

LEMMA PhaseOfType == \A b : PhaseOf(b) \in CampaignPhases
BY DEF PhaseOf, CampaignPhases

LEMMA OrderOfType ==
  ASSUME NEW step \in Steps, step # Hold
  PROVE  OrderOf(step.kind) \in Strategies
BY DEF OrderOf, Steps, Strategies

\* What an order does to the book is told in numbers.
LEMMA EffectType ==
  ASSUME NEW strategy, NEW f \in {"puts", "calls", "longs", "lots"}
  PROVE  Effect(strategy)[f] \in Int
<1>1. CASE strategy = "cash_secured_put"
  BY <1>1 DEF Effect
<1>2. CASE strategy = "covered_call"
  BY <1>2 DEF Effect
<1>3. CASE strategy = "long_call"
  BY <1>3 DEF Effect
<1>4. CASE strategy \in {"close_put", "expire_put"}
  BY <1>4 DEF Effect
<1>5. CASE strategy \in {"close_call", "expire_call", "cash_settled_call"}
  BY <1>5 DEF Effect
<1>6. CASE strategy \in {"close_long", "cash_settled_long"}
  BY <1>6 DEF Effect
<1>7. CASE strategy = "close_both"
  <2>1. Effect(strategy) = [puts |-> 0, calls |-> -1, longs |-> -1, lots |-> 0]
    BY <1>7, Zenon DEF Effect
  <2>2. QED
    BY <2>1
<1>8. CASE strategy = "assigned"
  <2>1. Effect(strategy) = [puts |-> -1, calls |-> 0, longs |-> 0, lots |-> 1]
    BY <1>8, Zenon DEF Effect
  <2>2. QED
    BY <2>1
<1>9. CASE strategy = "called_away"
  <2>1. Effect(strategy) = [puts |-> 0, calls |-> -1, longs |-> 0, lots |-> -1]
    BY <1>9, Zenon DEF Effect
  <2>2. QED
    BY <2>1
<1>10. CASE strategy \notin {"cash_secured_put", "covered_call", "long_call", "close_put", "expire_put",
                           "close_call", "expire_call", "cash_settled_call", "close_long", "cash_settled_long",
                           "close_both", "assigned", "called_away"}
  BY <1>10 DEF Effect
<1>11. QED
  BY <1>1, <1>2, <1>3, <1>4, <1>5, <1>6, <1>7, <1>8, <1>9, <1>10

\* An order the book takes leaves it a book.
LEMMA AfterType ==
  ASSUME book \in Book, NEW strategy, Possible(strategy)
  PROVE  After(strategy) \in Book
<1>1. DOMAIN book = {"puts", "calls", "longs", "lots"}
  BY DEF Book
<1>2. \A f \in DOMAIN book : book[f] \in Int /\ Effect(strategy)[f] \in Int
  BY <1>1, EffectType DEF Book
<1>3. \A f \in DOMAIN book : After(strategy)[f] \in Nat
  BY <1>2 DEF After, Possible
<1>4. After(strategy) = [f \in {"puts", "calls", "longs", "lots"} |-> After(strategy)[f]]
  BY <1>1 DEF After
<1>5. QED
  BY <1>1, <1>3, <1>4 DEF Book

LEMMA FiniteWithOneMore ==
  ASSUME NEW S, IsFiniteSet(S), NEW x
  PROVE  IsFiniteSet(S \cup {x})
BY FS_Union, FS_Singleton

\* An event more, whatever bag it is added to.
LEMMA AddedType ==
  ASSUME IsABag(events), IsFiniteSet(DOMAIN events), DOMAIN events \subseteq CampaignEvent,
         NEW kind \in EventKinds, NEW o \in Nat \ {0}, NEW cash \in Int
  PROVE  LET e == [kind |-> kind, order |-> o, cash |-> cash]
             b == Added(kind, o, cash) IN
         /\ IsABag(b) /\ IsFiniteSet(DOMAIN b) /\ DOMAIN b \subseteq CampaignEvent
         /\ DOMAIN b = DOMAIN events \cup {e}
         /\ b[e] = IF e \in DOMAIN events THEN events[e] + 1 ELSE 1
         /\ \A x \in DOMAIN events : x # e => b[x] = events[x]
<1> DEFINE e == [kind |-> kind, order |-> o, cash |-> cash]
           b == Added(kind, o, cash)
<1>1. e \in CampaignEvent
  BY DEF CampaignEvent
<1>2. \A x \in DOMAIN events : events[x] \in Nat /\ events[x] > 0
  BY DEF IsABag
<1>3. b = [x \in DOMAIN events \cup {e} |->
            (IF x \in DOMAIN events THEN events[x] ELSE 0) + (IF x \in {e} THEN 1 ELSE 0)]
  <2>1. SetToBag({e}) = [x \in {e} |-> 1]
    BY DEF SetToBag
  <2>2. b = events (+) SetToBag({e})
    BY DEF Added
  <2> HIDE DEF e, b
  <2>3. QED
    BY <2>1, <2>2 DEF (+), IsABag
<1> HIDE DEF e, b
<1>4. IsFiniteSet(DOMAIN events \cup {e})
  BY FiniteWithOneMore
<1>5. DOMAIN b = DOMAIN events \cup {e}
  BY <1>3
<1>6. b[e] = IF e \in DOMAIN events THEN events[e] + 1 ELSE 1
  BY <1>3
<1>7. \A x \in DOMAIN events : x # e => b[x] = events[x]
  BY <1>2, <1>3
<1>8. IsABag(b)
  <2>1. \A x \in DOMAIN b : b[x] \in Nat /\ b[x] > 0
    BY <1>2, <1>5, <1>6, <1>7
  <2>2. b = [x \in DOMAIN b |-> b[x]]
    BY <1>3
  <2>3. QED
    BY <2>1, <2>2 DEF IsABag
<1>9. QED
  BY <1>1, <1>4, <1>5, <1>6, <1>7, <1>8 DEF e, b

\* What was collected is a number.
LEMMA CollectedType ==
  ASSUME IsABag(events), IsFiniteSet(DOMAIN events), DOMAIN events \subseteq CampaignEvent
  PROVE  Collected \in Int
<1> DEFINE w == [e \in DOMAIN events |-> events[e] * Premium(e)]
<1>1. \A e \in DOMAIN events : events[e] \in Int /\ Premium(e) \in Int
  BY DEF IsABag, Premium, CampaignEvent
<1>2. \A e \in DOMAIN events : w[e] \in Int
  BY <1>1
<1>3. DOMAIN w = DOMAIN events /\ Collected = SumFunctionOnSet(w, DOMAIN w)
  BY DEF Collected, SumFunction
<1> HIDE DEF w
<1>4. QED
  BY <1>2, <1>3, SumType

\* There are two passes at most, and as many of any kind.
LEMMA PassesAreFew ==
  /\ IsFiniteSet(Passes) /\ Cardinality(Passes) \in 0..2
  /\ Passes # {} => Cardinality(Passes) \in 1..2
  /\ \A X \in SUBSET Passes :
       IsFiniteSet(X) /\ Cardinality(X) \in Nat /\ Cardinality(X) <= Cardinality(Passes)
<1>1. Passes \in SUBSET {"loop", "request"}
  BY ConstantsHold DEF CampaignBounds
<1>2. IsFiniteSet({"loop"}) /\ Cardinality({"loop"}) = 1
  BY FS_Singleton
<1>3. {"loop", "request"} = {"loop"} \cup {"request"} /\ "request" \notin {"loop"}
  OBVIOUS
<1>4. IsFiniteSet({"loop", "request"}) /\ Cardinality({"loop", "request"}) = 2
  BY <1>2, <1>3, FS_AddElement
<1>5. IsFiniteSet(Passes) /\ Cardinality(Passes) <= 2
  BY <1>1, <1>4, FS_Subset
<1>6. \A X \in SUBSET Passes : IsFiniteSet(X) /\ Cardinality(X) <= Cardinality(Passes)
  BY <1>5, FS_Subset
<1>7. \A X : IsFiniteSet(X) => Cardinality(X) \in Nat
  BY FS_CardinalityType
<1>8. Cardinality(Passes) = 0 <=> Passes = {}
  BY <1>5, FS_EmptySet
<1>9. QED
  BY <1>5, <1>6, <1>7, <1>8

\* A set of passes that has lost one of them, or none.
LEMMA FewerPasses ==
  ASSUME NEW X \in SUBSET Passes, NEW Y
  PROVE  /\ Y \subseteq X => Cardinality(Y) \in Nat /\ Cardinality(Y) <= Cardinality(X)
         /\ \A p \in X : Y \subseteq X \ {p} =>
              Cardinality(Y) \in Nat /\ Cardinality(Y) <= Cardinality(X) - 1
<1>1. IsFiniteSet(X) /\ Cardinality(X) \in Nat
  BY PassesAreFew
<1>2. \A Z : Z \subseteq X /\ Y \subseteq Z =>
        IsFiniteSet(Z) /\ Cardinality(Y) \in Nat /\ Cardinality(Y) <= Cardinality(Z)
  BY <1>1, FS_Subset, FS_CardinalityType
<1>3. \A p \in X : Cardinality(X \ {p}) = Cardinality(X) - 1
  BY <1>1, FS_RemoveElement
<1>4. QED
  BY <1>2, <1>3

\* The orders of the account, and those of them that are done.
LEMMA OrdersAre ==
  ASSUME CampaignsTypeOK
  PROVE  /\ \A o \in DOMAIN orders : orders[o] \in OrderRow /\ orders[o].stamp \in Nat
         /\ \A o \in Done : o \in DOMAIN orders /\ orders[o].stamp \in Nat /\ orders[o].late \in {"yes", "no"}
<1>1. \A o \in DOMAIN orders : orders[o] \in OrderRow
  BY DEF CampaignsTypeOK
<1>2. \A o \in Done : o \in DOMAIN orders
  BY DEF Done
<1>3. QED
  BY <1>1, <1>2 DEF OrderRow

\* What is done now, or rests, is an order, and the clock stays a clock.
LEMMA OrderTypes ==
  ASSUME CampaignsTypeOK, NEW strategy \in Strategies, NEW now \in Moments
  PROVE  /\ DoneOrder(strategy, now) \in OrderRow
         /\ RestingOrder(strategy) \in OrderRow
         /\ ClockMoves(now) => clock' \in Nat
<1>1. clock \in Nat /\ EarliestNow \in Nat
  BY ConstantsHold DEF CampaignsTypeOK, CampaignBounds
<1>2. now \in Nat
  BY <1>1 DEF Moments
<1>3. DoneOrder(strategy, now) \in OrderRow
  BY <1>2 DEF DoneOrder, OrderRow
<1>4. RestingOrder(strategy) \in OrderRow
  BY DEF RestingOrder, OrderRow
<1>5. QED
  BY <1>1, <1>2, <1>3, <1>4 DEF ClockMoves

-----------------------------------------------------------------------------
(* The types.                                                               *)

LEMMA InitTypes == CampaignsInit => CampaignsTypeOK /\ InHand
<1> SUFFICES ASSUME CampaignsInit
             PROVE  CampaignsTypeOK /\ InHand
  OBVIOUS
<1>1. IsABag(events) /\ IsFiniteSet(DOMAIN events) /\ DOMAIN events \subseteq CampaignEvent
  <2>1. EmptyBag = [e \in {} |-> 1]
    BY DEF EmptyBag, SetToBag
  <2>2. DOMAIN events = {}
    BY <2>1 DEF CampaignsInit
  <2>3. IsFiniteSet({})
    BY FS_EmptySet
  <2>4. QED
    BY <2>1, <2>2, <2>3 DEF CampaignsInit, IsABag
<1>2. NoPass \in PassRow
  BY DEF NoPass, PassRow, Hold, Steps, CampaignPhases
<1>3. QED
  BY <1>1, <1>2, ConstantsHold
  DEF CampaignsInit, CampaignsTypeOK, InHand, RowInHand, CampaignRow, BookAssumption, Hold, Steps, CampaignPhases, NoPass

\* As the orders grow in number what is in hand stays so.
LEMMA StillInHand ==
  ASSUME CampaignsTypeOK, InHand, UNCHANGED pass,
         NEW n \in Nat, Len(orders') = n, Len(orders) <= n
  PROVE  InHand'
<1>1. Len(orders) \in Nat
  BY DEF CampaignsTypeOK
<1>2. 1..Len(orders) \subseteq 1..n
  BY <1>1
<1>3. \A p \in Passes : RowInHand(pass[p], Len(orders)) => RowInHand(pass[p], n)
  BY <1>2 DEF RowInHand
<1>4. QED
  BY <1>3 DEF InHand

\* A pass goes on to another row.
Goes(p, row) == pass' = [pass EXCEPT ![p] = row]

LEMMA RowTypes ==
  ASSUME CampaignsTypeOK, InHand, NEW p \in Passes, NEW row \in PassRow,
         Goes(p, row),
         Len(orders') \in Nat, Len(orders) <= Len(orders'), RowInHand(row, Len(orders'))
  PROVE  pass' \in [Passes -> PassRow] /\ InHand'
<1>1. pass' \in [Passes -> PassRow]
  BY DEF Goes, CampaignsTypeOK
<1>2. Len(orders) \in Nat
  BY DEF CampaignsTypeOK
<1>3. 1..Len(orders) \subseteq 1..Len(orders')
  BY <1>2
<1>4. ASSUME NEW q \in Passes
      PROVE  RowInHand(pass'[q], Len(orders'))
  <2>1. CASE q = p
    <3>1. pass'[q] = row
      BY <2>1 DEF Goes, CampaignsTypeOK
    <3>2. QED
      BY <3>1
  <2>2. CASE q # p
    <3>1. pass'[q] = pass[q] /\ RowInHand(pass[q], Len(orders))
      BY <2>2 DEF Goes, CampaignsTypeOK, InHand
    <3>2. QED
      BY <1>3, <3>1 DEF RowInHand
  <2>3. QED
    BY <2>1, <2>2
<1>5. QED
  BY <1>1, <1>4 DEF InHand

LEMMA AccountTypes ==
  ASSUME CampaignsTypeOK, InHand,
         \/ \E strategy \in HandTrades, now \in Moments : TradeByHand(strategy, now)
         \/ \E o \in DOMAIN orders, now \in Moments : FillResting(o, now)
         \/ MoveShares
  PROVE  CampaignsTypeOK' /\ InHand'
<1>1. ASSUME NEW strategy \in HandTrades, NEW now \in Moments, TradeByHand(strategy, now)
      PROVE  CampaignsTypeOK' /\ InHand'
  <2>1. strategy \in Strategies
    BY ConstantsHold DEF HandTradesAssumption
  <2>2. DoneOrder(strategy, now) \in OrderRow /\ clock' \in Nat
    BY <1>1, <2>1, OrderTypes DEF TradeByHand
  <2>3. After(strategy) \in Book
    BY <1>1, AfterType DEF CampaignsTypeOK, TradeByHand
  <2>4. orders' \in Seq(OrderRow) /\ Len(orders') \in Nat /\ Len(orders) <= Len(orders')
    BY <1>1, <2>2 DEF TradeByHand, CampaignsTypeOK
  <2>5. InHand'
    BY <1>1, <2>4, StillInHand DEF TradeByHand, restAlone
  <2>6. QED
    BY <1>1, <2>2, <2>3, <2>4, <2>5 DEF TradeByHand, CampaignsTypeOK, restAlone
<1>2. ASSUME NEW o \in DOMAIN orders, NEW now \in Moments, FillResting(o, now)
      PROVE  CampaignsTypeOK' /\ InHand'
  <2>1. orders[o].strategy \in Strategies
    <3>1. orders[o] \in OrderRow
      BY OrdersAre
    <3>2. QED
      BY <3>1 DEF OrderRow
  <2>2. DoneOrder(orders[o].strategy, now) \in OrderRow /\ clock' \in Nat
    BY <1>2, <2>1, OrderTypes DEF FillResting
  <2>3. After(orders[o].strategy) \in Book
    BY <1>2, AfterType DEF CampaignsTypeOK, FillResting
  <2>4. orders' \in Seq(OrderRow) /\ Len(orders') \in Nat /\ Len(orders) <= Len(orders')
    BY <1>2, <2>2 DEF FillResting, CampaignsTypeOK
  <2>5. InHand'
    BY <1>2, <2>4, StillInHand DEF FillResting, restAlone
  <2>6. QED
    BY <1>2, <2>2, <2>3, <2>4, <2>5 DEF FillResting, CampaignsTypeOK, restAlone
<1>3. ASSUME MoveShares
      PROVE  CampaignsTypeOK' /\ InHand'
  <2>1. book' \in Book
    <3>1. book.lots \in Nat /\ \A n \in Nat : [book EXCEPT !.lots = n] \in Book
      BY DEF CampaignsTypeOK, Book
    <3>2. PICK n : n = (IF book.lots = 0 THEN 1 ELSE book.lots - 1)
      OBVIOUS
    <3>3. book' = [book EXCEPT !.lots = n] /\ n \in Nat
      BY <1>3, <3>1, <3>2 DEF MoveShares
    <3>4. QED
      BY <3>1, <3>3
  <2>2. QED
    BY <1>3, <2>1 DEF MoveShares, CampaignsTypeOK, InHand, restAlone
<1>4. QED
  BY <1>1, <1>2, <1>3

LEMMA RequestTypes ==
  ASSUME CampaignsTypeOK, InHand,
         SwitchOn \/ RestartPasses \/ \E status \in StatusesTried : SetCampaignStatus(status)
  PROVE  CampaignsTypeOK' /\ InHand'
<1>1. CASE SwitchOn
  <2>1. Hold \in Steps
    BY DEF Hold, Steps
  <2>2. CampaignsTypeOK'
    <3>1. campaign' \in CampaignRow
      BY <1>1, <2>1 DEF SwitchOn, CampaignsTypeOK, CampaignRow
    <3>2. placed' \in [step : Steps, times : Nat, torn : Nat]
      BY <1>1, <2>1 DEF SwitchOn, CampaignsTypeOK
    <3>3. QED
      BY <1>1, <3>1, <3>2 DEF SwitchOn, CampaignsTypeOK
  <2>3. QED
    BY <1>1, <2>2 DEF SwitchOn, InHand
<1>2. CASE RestartPasses
  <2>1. NoPass \in PassRow
    BY DEF NoPass, PassRow, Hold, Steps, CampaignPhases
  <2>2. pass' \in [Passes -> PassRow]
    BY <1>2, <2>1 DEF RestartPasses
  <2>3. InHand'
    BY <1>2 DEF RestartPasses, InHand, RowInHand, NoPass
  <2>4. PICK n : n = Cardinality({p \in Passes : PassAt(p, "mark")})
    OBVIOUS
  <2>5. n \in Nat
    BY <2>4, PassesAreFew
  <2>6. placed' \in [step : Steps, times : Nat, torn : Nat]
    BY <1>2, <2>4, <2>5 DEF RestartPasses, CampaignsTypeOK
  <2>7. QED
    BY <1>2, <2>2, <2>3, <2>6 DEF RestartPasses, CampaignsTypeOK
<1>3. ASSUME NEW status \in StatusesTried, SetCampaignStatus(status)
      PROVE  CampaignsTypeOK' /\ InHand'
  <2>1. status \in {"active", "paused", "closed"}
    BY ConstantsHold DEF CampaignBounds
  <2>2. QED
    BY <1>3, <2>1 DEF SetCampaignStatus, CampaignsTypeOK, CampaignRow, InHand
<1>4. QED
  BY <1>1, <1>2, <1>3

LEMMA OntoByCount ==
  ASSUME NEW S, NEW T, IsFiniteSet(T), NEW f \in Injection(S, T), Cardinality(S) = Cardinality(T)
  PROVE  f \in Surjection(S, T)
BY FS_Injection

\* What a pass lists: the done orders after its cursor.
LEMMA Listed ==
  ASSUME CampaignsTypeOK, NEW p \in Passes, ReadOrders(p)
  PROVE  \E list \in Seq(Nat \ {0}) :
           /\ pass' = [pass EXCEPT ![p] = [pass[p] EXCEPT !.at = "look", !.list = list]]
           /\ \A i \in DOMAIN list : list[i] \in Done
           /\ \A o \in Done : orders[o].stamp > pass[p].cursor => \E i \in DOMAIN list : list[i] = o
<1> DEFINE mine == {o \in Done : orders[o].stamp > pass[p].cursor}
<1>1. PICK list \in SetToSeqs(mine) :
        pass' = [pass EXCEPT ![p] = [pass[p] EXCEPT !.at = "look", !.list = list]]
  BY DEF ReadOrders
<1>2. DOMAIN orders = 1..Len(orders) /\ Len(orders) \in Nat
  BY DEF CampaignsTypeOK
<1>3. IsFiniteSet(mine) /\ Cardinality(mine) \in Nat
  <2>1. IsFiniteSet(1..Len(orders))
    BY <1>2, FS_Interval
  <2>2. mine \subseteq 1..Len(orders)
    BY <1>2 DEF Done
  <2> HIDE DEF mine
  <2>3. IsFiniteSet(mine)
    BY <2>1, <2>2, FS_Subset
  <2>4. QED
    BY <2>3, FS_CardinalityType
<1> DEFINE D == 1..Cardinality(mine)
<1>4. list \in [D -> mine] /\ \A i, j \in D : i # j => list[i] # list[j]
  BY <1>1 DEF SetToSeqs
<1>5. mine \subseteq Nat \ {0}
  BY <1>2 DEF Done
<1>6. list \in Seq(Nat \ {0}) /\ DOMAIN list = D
  <2> HIDE DEF mine
  <2>1. list \in [1..Cardinality(mine) -> Nat \ {0}]
    BY <1>4, <1>5
  <2>2. QED
    BY <1>3, <2>1
<1>7. \A o \in mine : \E i \in D : list[i] = o
  <2>1. list \in Injection(D, mine)
    BY <1>4 DEF Injection, IsInjective
  <2>2. Cardinality(D) = Cardinality(mine)
    <3> HIDE DEF mine
    <3>1. (Cardinality(mine) \in Int /\ ~(1 > Cardinality(mine))) \/ Cardinality(mine) = 0
      BY <1>3
    <3>2. QED
      BY <1>3, <3>1, FS_Interval
  <2> HIDE DEF mine, D
  <2>3. list \in Surjection(D, mine)
    BY <1>3, <2>1, <2>2, OntoByCount
  <2>4. QED
    BY <2>3 DEF Surjection
<1>8. pass' = [pass EXCEPT ![p] = [pass[p] EXCEPT !.at = "look", !.list = list]]
  BY <1>1
<1>9. \A i \in DOMAIN list : list[i] \in Done
  BY <1>4, <1>6
<1>10. \A o \in Done : orders[o].stamp > pass[p].cursor => \E i \in DOMAIN list : list[i] = o
  BY <1>6, <1>7
<1>11. QED
  BY <1>6, <1>8, <1>9, <1>10

\* An event is added.
LEMMA EventTypes ==
  ASSUME CampaignsTypeOK, NEW kind \in EventKinds, NEW o \in Nat \ {0}, NEW cash \in Int,
         events' = Added(kind, o, cash)
  PROVE  IsABag(events') /\ IsFiniteSet(DOMAIN events') /\ DOMAIN events' \subseteq CampaignEvent
BY AddedType DEF CampaignsTypeOK

LEMMA ReconcileTypes ==
  ASSUME CampaignsTypeOK, InHand, NEW p \in Passes, Reconcile(p)
  PROVE  CampaignsTypeOK' /\ InHand'
<1>1. pass[p] \in PassRow /\ NoPass \in PassRow /\ campaign \in CampaignRow
  BY DEF CampaignsTypeOK, NoPass, PassRow, Hold, Steps, CampaignPhases
<1>2. RowInHand(pass[p], Len(orders)) /\ Len(orders) \in Nat /\ DOMAIN orders = 1..Len(orders)
  BY DEF InHand, CampaignsTypeOK
<1>3. UNCHANGED orders /\ Len(orders') = Len(orders)
  BY DEF Reconcile, BeginPass, ReadOrders, LookAt, Record, ReadShares, Snapshot, Save, accountAlone
<1>4. CASE BeginPass(p)
  <2> DEFINE row == [NoPass EXCEPT !.at = "orders", !.newest = campaign.cursor,
                                   !.cursor = campaign.cursor, !.shares = campaign.shares]
  <2>1. Goes(p, row)
    BY <1>4 DEF BeginPass, Goes
  <2>2. row \in PassRow
    BY <1>1 DEF PassRow, CampaignRow
  <2>3. RowInHand(row, Len(orders))
    BY DEF NoPass, RowInHand
  <2> HIDE DEF row
  <2>4. pass' \in [Passes -> PassRow] /\ InHand'
    BY <1>2, <1>3, <2>1, <2>2, <2>3, RowTypes
  <2>5. QED
    BY <1>4, <2>4 DEF BeginPass, accountAlone, CampaignsTypeOK
<1>5. CASE ReadOrders(p)
  <2>1. PICK list \in Seq(Nat \ {0}) :
          /\ pass' = [pass EXCEPT ![p] = [pass[p] EXCEPT !.at = "look", !.list = list]]
          /\ \A i \in DOMAIN list : list[i] \in Done
    BY <1>5, Listed
  <2> DEFINE row == [pass[p] EXCEPT !.at = "look", !.list = list]
  <2>2. row \in PassRow /\ row.at = "look" /\ row.list = list
    BY <1>1 DEF PassRow
  <2>3. Goes(p, row)
    BY <2>1 DEF Goes
  <2> HIDE DEF row
  <2>4. RowInHand(row, Len(orders))
    BY <1>2, <2>1, <2>2 DEF RowInHand, Done
  <2>5. pass' \in [Passes -> PassRow] /\ InHand'
    BY <1>2, <1>3, <2>2, <2>3, <2>4, RowTypes
  <2>6. QED
    BY <1>5, <2>5 DEF ReadOrders, accountAlone, CampaignsTypeOK
<1>6. CASE LookAt(p)
  <2> DEFINE o == Head(pass[p].list)
             row == IF HasOrderEvent(o) THEN [pass[p] EXCEPT !.list = Tail(@)]
                    ELSE [pass[p] EXCEPT !.at = "record", !.todo = EventsOf(orders[o].strategy)]
  <2>1. pass[p].at = "look" /\ pass[p].list # <<>> /\ pass[p].list \in Seq(Nat \ {0})
    BY <1>1, <1>6 DEF LookAt, PassAt, PassRow
  <2>2. EventsOf(orders[o].strategy) \in Seq(Addition) /\ EventsOf(orders[o].strategy) # <<>>
    BY EventsOfType
  <2>3. /\ Tail(pass[p].list) \in Seq(Nat \ {0})
        /\ \A i \in DOMAIN Tail(pass[p].list) : Tail(pass[p].list)[i] \in 1..Len(orders)
    BY <1>2, <2>1 DEF RowInHand
  <2>4. Goes(p, row)
    <3>1. CASE HasOrderEvent(o)
      BY <1>6, <3>1 DEF LookAt, Goes
    <3>2. CASE ~HasOrderEvent(o)
      BY <1>6, <3>2 DEF LookAt, Goes
    <3>3. QED
      BY <3>1, <3>2
  <2>5. row \in PassRow /\ RowInHand(row, Len(orders))
    <3>1. CASE HasOrderEvent(o)
      BY <1>1, <2>1, <2>3, <3>1 DEF PassRow, RowInHand
    <3>2. CASE ~HasOrderEvent(o)
      BY <1>1, <1>2, <2>1, <2>2, <3>2 DEF PassRow, RowInHand
    <3>3. QED
      BY <3>1, <3>2
  <2> HIDE DEF row
  <2>6. pass' \in [Passes -> PassRow] /\ InHand'
    BY <1>2, <1>3, <2>4, <2>5, RowTypes
  <2>7. QED
    BY <1>6, <2>6 DEF LookAt, accountAlone, CampaignsTypeOK
<1>7. CASE Record(p)
  <2> DEFINE o == Head(pass[p].list)
             e == Head(pass[p].todo)
             noted == [pass[p] EXCEPT !.todo = Tail(@), !.recorded = "yes",
                         !.settled = IF e.kind \in {"assigned", "called_away"} THEN "yes" ELSE @]
             row == IF noted.todo # <<>> THEN noted
                    ELSE [noted EXCEPT !.at = "look", !.list = Tail(@),
                                       !.newest = IF orders[o].stamp > @ THEN orders[o].stamp ELSE @]
  <2>1. pass[p].at = "record" /\ pass[p].list # <<>> /\ pass[p].todo # <<>>
    BY <1>2, <1>7 DEF Record, PassAt, RowInHand
  <2>2. pass[p].list \in Seq(Nat \ {0}) /\ pass[p].todo \in Seq(Addition)
    BY <1>1 DEF PassRow
  <2>3. o \in Nat \ {0} /\ o \in 1..Len(orders) /\ e \in Addition
    BY <1>2, <2>1, <2>2 DEF RowInHand
  <2>4. Tail(pass[p].list) \in Seq(Nat \ {0}) /\ Tail(pass[p].todo) \in Seq(Addition)
        /\ \A i \in DOMAIN Tail(pass[p].list) : Tail(pass[p].list)[i] \in 1..Len(orders)
    BY <1>2, <2>1, <2>2 DEF RowInHand
  <2>5. orders[o].stamp \in Nat
    <3> HIDE DEF o
    <3>1. orders[o] \in OrderRow
      BY <1>2, <2>3 DEF CampaignsTypeOK
    <3>2. QED
      BY <3>1 DEF OrderRow
  <2>6. noted \in PassRow /\ noted.at = "record" /\ noted.list = pass[p].list
    BY <1>1, <2>1, <2>4 DEF PassRow
  <2>7. Goes(p, row)
    BY <1>7 DEF Record, Goes
  <2>8. row \in PassRow /\ RowInHand(row, Len(orders))
    <3> HIDE DEF noted, o
    <3>1. CASE noted.todo # <<>>
      BY <1>2, <2>1, <2>6, <3>1 DEF RowInHand
    <3>2. CASE noted.todo = <<>>
      BY <2>4, <2>5, <2>6, <3>2 DEF PassRow, RowInHand
    <3>3. QED
      BY <3>1, <3>2
  <2> HIDE DEF row
  <2>9. pass' \in [Passes -> PassRow] /\ InHand'
    BY <1>2, <1>3, <2>7, <2>8, RowTypes
  <2>10. IsABag(events') /\ IsFiniteSet(DOMAIN events') /\ DOMAIN events' \subseteq CampaignEvent
    <3>1. events' = Added(e.kind, o, e.cash)
      BY <1>7 DEF Record
    <3>2. e.kind \in EventKinds /\ e.cash \in Int
      BY <2>3 DEF Addition
    <3> HIDE DEF o, e
    <3>3. QED
      BY <2>3, <3>1, <3>2, EventTypes
  <2>11. QED
    BY <1>7, <2>9, <2>10 DEF Record, accountAlone, CampaignsTypeOK
<1>8. CASE ReadShares(p)
  <2> DEFINE row == [pass[p] EXCEPT !.at = "snapshot",
       !.recorded = IF book.lots # pass[p].shares /\ pass[p].settled = "no" THEN "yes" ELSE @]
  <2>1. Goes(p, row)
    BY <1>8 DEF ReadShares, Goes
  <2>2. row \in PassRow
    BY <1>1 DEF PassRow
  <2>3. RowInHand(row, Len(orders))
    BY <1>1, <1>2 DEF PassRow, RowInHand
  <2> HIDE DEF row
  <2>4. pass' \in [Passes -> PassRow] /\ InHand'
    BY <1>2, <1>3, <2>1, <2>2, <2>3, RowTypes
  <2>5. QED
    BY <1>8, <2>4 DEF ReadShares, accountAlone, CampaignsTypeOK
<1>9. CASE Snapshot(p)
  <2> DEFINE row == [pass[p] EXCEPT !.at = "save", !.shares = book.lots,
                                    !.premiums = Collected, !.phase = PhaseOf(book)]
  <2>1. Goes(p, row)
    BY <1>9 DEF Snapshot, Goes
  <2>2. book.lots \in Nat /\ Collected \in Int /\ PhaseOf(book) \in CampaignPhases
    <3>1. book.lots \in Nat
      BY DEF CampaignsTypeOK, Book
    <3>2. Collected \in Int
      BY CollectedType DEF CampaignsTypeOK
    <3>3. PhaseOf(book) \in CampaignPhases
      BY PhaseOfType
    <3>4. QED
      BY <3>1, <3>2, <3>3
  <2>3. row \in PassRow
    BY <1>1, <2>2 DEF PassRow
  <2>4. RowInHand(row, Len(orders))
    BY <1>1, <1>2 DEF PassRow, RowInHand
  <2> HIDE DEF row
  <2>5. pass' \in [Passes -> PassRow] /\ InHand'
    BY <1>2, <1>3, <2>1, <2>3, <2>4, RowTypes
  <2>6. QED
    BY <1>9, <2>5 DEF Snapshot, accountAlone, CampaignsTypeOK
<1>10. CASE Save(p)
  <2> DEFINE row == [NoPass EXCEPT !.at = "due", !.recorded = pass[p].recorded]
  <2>1. Goes(p, row)
    BY <1>10 DEF Save, Goes
  <2>2. row \in PassRow
    BY <1>1 DEF PassRow
  <2>3. RowInHand(row, Len(orders))
    BY DEF NoPass, RowInHand
  <2> HIDE DEF row
  <2>4. pass' \in [Passes -> PassRow] /\ InHand'
    BY <1>2, <1>3, <2>1, <2>2, <2>3, RowTypes
  <2>5. campaign' \in CampaignRow
    BY <1>1, <1>10 DEF Save, NewCursor, PassRow, CampaignRow
  <2>6. QED
    BY <1>10, <2>4, <2>5 DEF Save, accountAlone, CampaignsTypeOK
<1>11. QED
  BY <1>4, <1>5, <1>6, <1>7, <1>8, <1>9, <1>10 DEF Reconcile

LEMMA AdvanceTypes ==
  ASSUME CampaignsTypeOK, InHand, NEW p \in Passes, Advance(p)
  PROVE  CampaignsTypeOK' /\ InHand'
<1>1. pass[p] \in PassRow /\ NoPass \in PassRow /\ campaign \in CampaignRow
  BY DEF CampaignsTypeOK, NoPass, PassRow, Hold, Steps, CampaignPhases
<1>2. /\ RowInHand(pass[p], Len(orders)) /\ RowInHand(NoPass, Len(orders))
      /\ Len(orders) \in Nat /\ DOMAIN orders = 1..Len(orders)
  BY DEF InHand, CampaignsTypeOK, RowInHand, NoPass
<1>3. ASSUME EndPass(p), UNCHANGED orders
      PROVE  pass' \in [Passes -> PassRow] /\ InHand'
  <2>1. Goes(p, NoPass) /\ Len(orders') = Len(orders)
    BY <1>3 DEF EndPass, Goes
  <2>2. QED
    BY <1>1, <1>2, <2>1, RowTypes
<1>4. CASE NotDue(p) \/ ProposeFails(p) \/ LeaveIt(p)
  <2>1. EndPass(p) /\ UNCHANGED <<accountAlone, campaign, events, placed>>
    BY <1>4 DEF NotDue, ProposeFails, LeaveIt
  <2>2. QED
    BY <1>3, <2>1 DEF accountAlone, CampaignsTypeOK
<1>5. CASE Propose(p)
  <2>1. PICK step \in NextSteps(book) : pass' = [pass EXCEPT ![p] = [pass[p] EXCEPT !.at = "execute", !.step = step]]
    BY <1>5 DEF Propose
  <2> DEFINE row == [pass[p] EXCEPT !.at = "execute", !.step = step]
  <2>2. row \in PassRow
    BY <1>1, NextStepsType DEF PassRow
  <2>3. RowInHand(row, Len(orders))
    BY <1>1, <1>2 DEF PassRow, RowInHand
  <2>4. Goes(p, row) /\ Len(orders') = Len(orders)
    BY <1>5, <2>1 DEF Propose, accountAlone, Goes
  <2> HIDE DEF row
  <2>5. pass' \in [Passes -> PassRow] /\ InHand'
    BY <1>2, <2>2, <2>3, <2>4, RowTypes
  <2>6. QED
    BY <1>5, <2>5 DEF Propose, accountAlone, CampaignsTypeOK
<1>6. CASE ExecuteIt(p)
  <2> DEFINE row == [pass[p] EXCEPT !.at = "place"]
  <2>1. row \in PassRow
    BY <1>1 DEF PassRow
  <2>2. RowInHand(row, Len(orders))
    BY <1>1, <1>2, <1>6 DEF PassRow, RowInHand, ExecuteIt, MayExecute
  <2>3. Goes(p, row) /\ Len(orders') = Len(orders)
    BY <1>6 DEF ExecuteIt, accountAlone, Goes
  <2> HIDE DEF row
  <2>4. pass' \in [Passes -> PassRow] /\ InHand'
    BY <1>2, <2>1, <2>2, <2>3, RowTypes
  <2>5. placed' \in [step : Steps, times : Nat, torn : Nat]
    <3>1. PICK n : n = (IF Placing = {} THEN placed.torn ELSE placed.torn + 1)
      OBVIOUS
    <3>2. n \in Nat
      BY <3>1 DEF CampaignsTypeOK
    <3>3. placed' = [placed EXCEPT !.torn = n]
      BY <1>6, <3>1 DEF ExecuteIt
    <3>4. QED
      BY <3>2, <3>3 DEF CampaignsTypeOK
  <2>6. QED
    BY <1>6, <2>4, <2>5 DEF ExecuteIt, accountAlone, CampaignsTypeOK
<1>7. CASE Place(p)
  <2> DEFINE strategy == OrderOf(pass[p].step.kind)
             row == [pass[p] EXCEPT !.at = "mark", !.id = Len(orders) + 1]
  <2>1. strategy \in Strategies
    <3>1. pass[p].step \in Steps
      BY <1>1 DEF PassRow
    <3>2. pass[p].step # Hold
      BY <1>2, <1>7 DEF RowInHand, Place, PassAt
    <3>3. QED
      BY <3>1, <3>2, OrderOfType
  <2>2. /\ RestingOrder(strategy) \in OrderRow
        /\ \A now \in Moments : DoneOrder(strategy, now) \in OrderRow /\ (ClockMoves(now) => clock' \in Nat)
    <3> HIDE DEF strategy
    <3>1. RestingOrder(strategy) \in OrderRow
      BY <2>1 DEF RestingOrder, OrderRow
    <3>2. QED
      BY <2>1, <3>1, OrderTypes
  <2>3. After(strategy) \in Book
    BY <1>7, AfterType DEF CampaignsTypeOK, Place
  <2>4. /\ \/ \E now \in Moments : orders' = Append(orders, DoneOrder(strategy, now))
           \/ orders' = Append(orders, RestingOrder(strategy))
        /\ clock' \in Nat /\ book' \in Book
    BY <1>7, <2>2, <2>3 DEF Place, CampaignsTypeOK
  <2>5. orders' \in Seq(OrderRow) /\ Len(orders') = Len(orders) + 1
    <3> HIDE DEF strategy
    <3>1. orders \in Seq(OrderRow)
      BY DEF CampaignsTypeOK
    <3>2. \A x \in OrderRow : Append(orders, x) \in Seq(OrderRow) /\ Len(Append(orders, x)) = Len(orders) + 1
      BY <3>1
    <3>3. QED
      BY <2>2, <2>4, <3>2
  <2>6. PICK n \in Nat : n = Len(orders) + 1 /\ n \in 1..n /\ 1..Len(orders) \subseteq 1..n
    BY <1>2
  <2>7. row \in PassRow /\ RowInHand(row, n)
    <3>1. row = [pass[p] EXCEPT !.at = "mark", !.id = n]
      BY <2>6
    <3> HIDE DEF row
    <3>2. row \in PassRow /\ row.at = "mark" /\ row.id = n /\ row.list = pass[p].list
      BY <1>1, <3>1 DEF PassRow
    <3>3. QED
      BY <1>2, <2>6, <3>2 DEF RowInHand
  <2>8. Goes(p, row)
    BY <1>7 DEF Place, Goes
  <2>9. placed' \in [step : Steps, times : Nat, torn : Nat]
    <3>1. PICK t : t = (IF placed.step = pass[p].step THEN placed.times + 1 ELSE 1)
      OBVIOUS
    <3>2. placed' = [step |-> pass[p].step, times |-> t, torn |-> placed.torn] /\ placed.torn \in Nat
      BY <1>7, <3>1 DEF Place, CampaignsTypeOK
    <3>3. t \in Nat
      BY <3>1 DEF CampaignsTypeOK
    <3>4. pass[p].step \in Steps
      BY <1>1 DEF PassRow
    <3>5. QED
      BY <3>2, <3>3, <3>4
  <2> HIDE DEF row
  <2>10. pass' \in [Passes -> PassRow] /\ InHand'
    BY <1>2, <2>5, <2>6, <2>7, <2>8, RowTypes
  <2>11. QED
    BY <1>7, <2>4, <2>5, <2>9, <2>10 DEF Place, CampaignsTypeOK
<1>8. CASE PlaceFails(p)
  <2>1. pass' \in [Passes -> PassRow] /\ InHand'
    BY <1>3, <1>8 DEF PlaceFails, accountAlone
  <2>2. campaign' \in CampaignRow
    BY <1>1, <1>8 DEF PlaceFails, CampaignRow
  <2>3. QED
    BY <1>8, <2>1, <2>2 DEF PlaceFails, accountAlone, CampaignsTypeOK
<1>9. CASE MarkExecuted(p)
  <2> DEFINE row == [pass[p] EXCEPT !.at = "executed"]
  <2>1. row \in PassRow
    BY <1>1 DEF PassRow
  <2>2. RowInHand(row, Len(orders))
    BY <1>1, <1>2, <1>9 DEF PassRow, RowInHand, MarkExecuted, PassAt
  <2>3. Goes(p, row) /\ Len(orders') = Len(orders)
    BY <1>9 DEF MarkExecuted, accountAlone, Goes
  <2> HIDE DEF row
  <2>4. pass' \in [Passes -> PassRow] /\ InHand'
    BY <1>2, <2>1, <2>2, <2>3, RowTypes
  <2>5. campaign' \in CampaignRow
    BY <1>1, <1>9 DEF MarkExecuted, CampaignRow, PassRow
  <2>6. QED
    BY <1>9, <2>4, <2>5 DEF MarkExecuted, accountAlone, CampaignsTypeOK
<1>10. CASE NoteExecuted(p)
  <2>1. pass' \in [Passes -> PassRow] /\ InHand'
    BY <1>3, <1>10 DEF NoteExecuted, accountAlone
  <2>2. pass[p].id \in Nat \ {0}
    BY <1>2, <1>10 DEF NoteExecuted, PassAt, RowInHand
  <2>3. "executed" \in EventKinds
    BY DEF EventKinds
  <2>4. events' = Added("executed", pass[p].id, 0)
    BY <1>10 DEF NoteExecuted
  <2>5. IsABag(events') /\ IsFiniteSet(DOMAIN events') /\ DOMAIN events' \subseteq CampaignEvent
    BY <2>2, <2>3, <2>4, EventTypes
  <2>6. QED
    BY <1>10, <2>1, <2>5 DEF NoteExecuted, accountAlone, CampaignsTypeOK
<1>11. QED
  BY <1>4, <1>5, <1>6, <1>7, <1>8, <1>9, <1>10 DEF Advance

LEMMA StepTypes ==
  ASSUME CampaignsTypeOK, InHand, CampaignsNext
  PROVE  CampaignsTypeOK' /\ InHand'
BY AccountTypes, RequestTypes, ReconcileTypes, AdvanceTypes DEF CampaignsNext

-----------------------------------------------------------------------------
(* The cursor.                                                              *)

\* What a step may do to the orders that are done and to the events: an order
\* done by it is after all that was reached or late, and no event is taken back.
Grows ==
  /\ Done \subseteq Done'
  /\ \A o \in Done : orders'[o] = orders[o]
  /\ \A o \in Done' : o \notin Done /\ orders'[o].late = "no" => ~Reached(orders'[o].stamp)
  /\ \A o : HasOrderEvent(o) => HasOrderEvent(o)'

\* One order more is done.
LEMMA DoneGrows ==
  ASSUME UNCHANGED events, \A o \in Done : orders'[o] = orders[o],
         NEW n, n \notin Done, Done' = Done \cup {n},
         orders'[n].late = "no" => ~Reached(orders'[n].stamp)
  PROVE  Grows
<1>1. \A o : HasOrderEvent(o) => HasOrderEvent(o)'
  BY DEF HasOrderEvent
<1>2. QED
  BY <1>1 DEF Grows

\* No order more is done.
LEMMA NoneDone ==
  ASSUME DOMAIN events \subseteq DOMAIN events',
         \A o \in Done : orders'[o] = orders[o], Done' = Done
  PROVE  Grows
<1>1. \A o : HasOrderEvent(o) => HasOrderEvent(o)'
  BY DEF HasOrderEvent
<1>2. QED
  BY <1>1 DEF Grows

\* An order is added to the others, resting or done.
LEMMA AppendGrows ==
  ASSUME CampaignsTypeOK, NEW row \in OrderRow, UNCHANGED events, orders' = Append(orders, row),
         row.status = "resting" \/ (row.late = "no" => ~Reached(row.stamp))
  PROVE  Grows
<1>1. orders \in Seq(OrderRow)
  BY DEF CampaignsTypeOK
<1>2. PICK n \in Nat : n = Len(orders) + 1
  BY <1>1
<1>3. /\ DOMAIN orders = 1..(n - 1) /\ DOMAIN orders' = 1..n
      /\ \A o \in DOMAIN orders : orders'[o] = orders[o]
      /\ orders'[n] = row
  BY <1>1, <1>2
<1>4. n \notin Done /\ \A o \in Done : orders'[o] = orders[o]
  BY <1>3 DEF Done
<1>5. Done' = Done \cup (IF row.status = "done" THEN {n} ELSE {})
  BY <1>3 DEF Done
<1>6. CASE row.status = "done"
  <2>1. Done' = Done \cup {n} /\ (orders'[n].late = "no" => ~Reached(orders'[n].stamp))
    BY <1>3, <1>5, <1>6
  <2>2. QED
    BY <1>4, <2>1, DoneGrows
<1>7. CASE row.status # "done"
  <2>1. Done' = Done
    BY <1>5, <1>7
  <2>2. QED
    BY <1>4, <2>1, NoneDone
<1>8. QED
  BY <1>6, <1>7

\* An order that is done now is after all that was reached, or late.
LEMMA DoneOrderTells ==
  ASSUME NEW strategy, NEW now, NEW row, row = DoneOrder(strategy, now)
  PROVE  row.status = "done" /\ (row.late = "no" => ~Reached(row.stamp))
BY DEF DoneOrder

LEMMA FillGrows ==
  ASSUME CampaignsTypeOK, NEW o \in DOMAIN orders, NEW now \in Moments, FillResting(o, now)
  PROVE  Grows
<1>1. orders \in Seq(OrderRow)
  BY DEF CampaignsTypeOK
<1>2. o \notin Done
  BY DEF FillResting, Done
<1>3. PICK row : row = DoneOrder(orders[o].strategy, now)
  OBVIOUS
<1>4. /\ DOMAIN orders' = DOMAIN orders
      /\ \A x \in DOMAIN orders : x # o => orders'[x] = orders[x]
      /\ orders'[o] = row
  BY <1>1, <1>3 DEF FillResting
<1>5. row.status = "done" /\ (row.late = "no" => ~Reached(row.stamp))
  BY <1>3, DoneOrderTells
<1>6. Done' = Done \cup {o} /\ \A x \in Done : orders'[x] = orders[x]
  BY <1>2, <1>4, <1>5 DEF Done
<1>7. UNCHANGED events
  BY DEF FillResting, restAlone
<1>8. QED
  BY <1>2, <1>4, <1>5, <1>6, <1>7, DoneGrows

\* Nothing but events is added.
LEMMA EventsGrow ==
  ASSUME UNCHANGED orders, DOMAIN events \subseteq DOMAIN events'
  PROVE  Grows
<1>1. Done' = Done
  BY DEF Done
<1>2. QED
  BY <1>1, NoneDone

LEMMA AddedGrow ==
  ASSUME CampaignsTypeOK, NEW kind \in EventKinds, NEW o \in Nat \ {0}, NEW cash \in Int,
         events' = Added(kind, o, cash)
  PROVE  DOMAIN events \subseteq DOMAIN events' /\ HasOrderEvent(o)'
<1>1. DOMAIN events' = DOMAIN events \cup {[kind |-> kind, order |-> o, cash |-> cash]}
  BY AddedType DEF CampaignsTypeOK
<1>2. PICK e : e = [kind |-> kind, order |-> o, cash |-> cash]
  OBVIOUS
<1>3. e \in DOMAIN events' /\ e.order = o
  BY <1>1, <1>2
<1>4. QED
  BY <1>1, <1>3 DEF HasOrderEvent

\* What is covered up to a moment that was reached stays covered.
LEMMA StillCovered ==
  ASSUME CampaignsTypeOK, CampaignsTypeOK', Grows, NEW list, NEW n \in Nat, Reached(n), Covered(list, n)
  PROVE  Reached(n)' /\ Covered(list, n)'
<1>1. \A o \in Done : orders[o].stamp \in Nat
  BY OrdersAre
<1>2. \A o \in Done' : orders'[o].stamp \in Nat
  <2>1. \A o \in DOMAIN orders' : orders'[o] \in OrderRow
    BY DEF CampaignsTypeOK
  <2>2. \A o \in Done' : o \in DOMAIN orders'
    BY DEF Done
  <2>3. QED
    BY <2>1, <2>2 DEF OrderRow
<1>3. Reached(n)'
  BY DEF Reached, Grows
<1>4. ASSUME NEW o \in Done', orders'[o].late = "no", orders'[o].stamp <= n
      PROVE  HasOrderEvent(o)' \/ \E i \in DOMAIN list : list[i] = o
  <2>1. Reached(orders'[o].stamp)
    <3>1. PICK s \in Nat : s = orders'[o].stamp /\ s <= n
      BY <1>2, <1>4
    <3>2. Reached(s)
      BY <1>1, <3>1 DEF Reached
    <3>3. QED
      BY <3>1, <3>2
  <2>2. o \in Done
    BY <1>4, <2>1 DEF Grows
  <2>3. QED
    BY <1>4, <2>2 DEF Grows, Covered
<1>5. QED
  BY <1>3, <1>4 DEF Covered

\* What is told of a row of a pass is told as well after a step.
LEMMA RowStillTells ==
  ASSUME CampaignsTypeOK, CampaignsTypeOK', Grows, NEW row, row.cursor \in Nat, row.newest \in Nat,
         RowTells(row)
  PROVE  RowTells(row)'
<1>1. Seen(row.cursor)'
  BY StillCovered DEF RowTells, Seen
<1>2. Reached(row.newest)' /\ Covered(row.list, row.newest)'
  BY StillCovered DEF RowTells
<1>3. ASSUME NEW i \in DOMAIN row.list
      PROVE  row.list[i] \in Done' /\ Covered(row.list, orders[row.list[i]].stamp)'
  <2>1. PICK o : o = row.list[i]
    OBVIOUS
  <2>2. o \in Done /\ Covered(row.list, orders[o].stamp)
    BY <2>1 DEF RowTells
  <2>3. PICK n \in Nat : n = orders[o].stamp
    BY <2>2, OrdersAre
  <2>4. Reached(n)
    BY <2>2, <2>3 DEF Reached
  <2>5. Covered(row.list, n)'
    BY <2>2, <2>3, <2>4, StillCovered
  <2>6. o \in Done' /\ orders'[o].stamp = n
    BY <2>2, <2>3 DEF Grows
  <2>7. QED
    BY <2>1, <2>5, <2>6 DEF Covered
<1>4. QED
  BY <1>1, <1>2, <1>3 DEF RowTells

\* What Record does: the first event that its order stands for is added, and
\* after the last of them the pass goes on to the next order.
RecordsTo(p, o, row) ==
  /\ o = Head(pass[p].list) /\ HasOrderEvent(o)'
  /\ LET e == Head(pass[p].todo) IN e \in Addition /\ events' = Added(e.kind, o, e.cash)
  /\ Goes(p, row) /\ row.cursor = pass[p].cursor /\ row.todo = Tail(pass[p].todo)
  /\ \/ row.at = "record" /\ row.list = pass[p].list /\ row.newest = pass[p].newest
     \/ /\ row.at = "look" /\ row.list = Tail(pass[p].list)
        /\ row.newest \in {orders[o].stamp, pass[p].newest}

RecordsOne(p) ==
  /\ pass[p].at = "record" /\ pass[p].list # <<>> /\ pass[p].todo # <<>>
  /\ DOMAIN events \subseteq DOMAIN events'
  /\ \E o \in 1..Len(orders) : \E row : RecordsTo(p, o, row)

LEMMA RecordTells ==
  ASSUME CampaignsTypeOK, InHand, NEW p \in Passes, Record(p)
  PROVE  RecordsOne(p)
<1>1. pass[p] \in PassRow /\ RowInHand(pass[p], Len(orders))
  BY DEF CampaignsTypeOK, InHand
<1>2. pass[p].at = "record" /\ pass[p].list # <<>> /\ pass[p].todo # <<>>
  BY <1>1 DEF Record, PassAt, RowInHand
<1>3. pass[p].list \in Seq(Nat \ {0}) /\ pass[p].todo \in Seq(Addition)
  BY <1>1 DEF PassRow
<1>4. PICK o : o = Head(pass[p].list)
  OBVIOUS
<1>5. PICK e : e = Head(pass[p].todo)
  OBVIOUS
<1>6. o \in Nat \ {0} /\ o \in 1..Len(orders) /\ e \in Addition
  BY <1>1, <1>2, <1>3, <1>4, <1>5 DEF RowInHand
<1>7. events' = Added(e.kind, o, e.cash) /\ e.kind \in EventKinds /\ e.cash \in Int
  BY <1>4, <1>5, <1>6 DEF Record, Addition
<1>8. DOMAIN events \subseteq DOMAIN events' /\ HasOrderEvent(o)'
  BY <1>6, <1>7, AddedGrow
<1> DEFINE noted == [pass[p] EXCEPT !.todo = Tail(@), !.recorded = "yes",
                       !.settled = IF e.kind \in {"assigned", "called_away"} THEN "yes" ELSE @]
           row == IF noted.todo # <<>> THEN noted
                  ELSE [noted EXCEPT !.at = "look", !.list = Tail(@),
                                     !.newest = IF orders[o].stamp > @ THEN orders[o].stamp ELSE @]
<1>9. /\ noted.cursor = pass[p].cursor /\ noted.list = pass[p].list /\ noted.newest = pass[p].newest
      /\ noted.at = "record" /\ noted.todo = Tail(pass[p].todo)
      /\ DOMAIN noted = DOMAIN pass[p]
  BY <1>1, <1>2 DEF PassRow
<1>10. Goes(p, row)
  BY <1>4, <1>5 DEF Record, Goes
<1>11. /\ row.cursor = pass[p].cursor /\ row.todo = Tail(pass[p].todo)
       /\ \/ row.at = "record" /\ row.list = pass[p].list /\ row.newest = pass[p].newest
          \/ /\ row.at = "look" /\ row.list = Tail(pass[p].list)
             /\ row.newest \in {orders[o].stamp, pass[p].newest}
  <2>1. DOMAIN pass[p] = {"at", "cursor", "shares", "list", "todo", "newest", "recorded", "settled",
                          "premiums", "phase", "step", "id"}
    BY <1>1 DEF PassRow
  <2> HIDE DEF noted
  <2>2. QED
    BY <1>9, <2>1
<1> HIDE DEF row
<1>12. QED
  BY <1>2, <1>4, <1>5, <1>6, <1>7, <1>8, <1>10, <1>11 DEF RecordsOne, RecordsTo

LEMMA StepGrows ==
  ASSUME CampaignsTypeOK, InHand, CampaignsNext
  PROVE  Grows
<1>1. ASSUME NEW strategy \in HandTrades, NEW now \in Moments, TradeByHand(strategy, now)
      PROVE  Grows
  <2>1. strategy \in Strategies
    BY ConstantsHold DEF HandTradesAssumption
  <2>2. PICK row : row = DoneOrder(strategy, now)
    OBVIOUS
  <2>3. row \in OrderRow /\ (row.late = "no" => ~Reached(row.stamp))
    BY <2>1, <2>2, OrderTypes, DoneOrderTells
  <2>4. orders' = Append(orders, row) /\ UNCHANGED events
    BY <1>1, <2>2 DEF TradeByHand, restAlone
  <2>5. QED
    BY <2>3, <2>4, AppendGrows
<1>2. ASSUME NEW o \in DOMAIN orders, NEW now \in Moments, FillResting(o, now)
      PROVE  Grows
  BY <1>2, FillGrows
<1>3. CASE MoveShares \/ SwitchOn \/ RestartPasses \/ \E status \in StatusesTried : SetCampaignStatus(status)
  <2>1. UNCHANGED <<orders, events>>
    BY <1>3 DEF MoveShares, SwitchOn, RestartPasses, SetCampaignStatus, restAlone
  <2>2. QED
    BY <2>1, EventsGrow
<1>4. ASSUME NEW p \in Passes, Reconcile(p)
      PROVE  Grows
  <2>1. UNCHANGED orders
    BY <1>4 DEF Reconcile, BeginPass, ReadOrders, LookAt, Record, ReadShares, Snapshot, Save, accountAlone
  <2>2. CASE Record(p)
    <3>1. RecordsOne(p)
      BY <1>4, <2>2, RecordTells
    <3>2. QED
      BY <2>1, <3>1, EventsGrow DEF RecordsOne
  <2>3. CASE ~Record(p)
    <3>1. UNCHANGED events
      BY <1>4, <2>3 DEF Reconcile, BeginPass, ReadOrders, LookAt, ReadShares, Snapshot, Save
    <3>2. QED
      BY <2>1, <3>1, EventsGrow
  <2>4. QED
    BY <2>2, <2>3
<1>5. ASSUME NEW p \in Passes, Advance(p)
      PROVE  Grows
  <2>1. CASE Place(p)
    <3>1. PICK strategy : strategy = OrderOf(pass[p].step.kind)
      OBVIOUS
    <3>2. strategy \in Strategies
      <4>1. RowInHand(pass[p], Len(orders)) /\ pass[p] \in PassRow
        BY DEF InHand, CampaignsTypeOK
      <4>2. pass[p].step \in Steps /\ pass[p].step # Hold
        BY <2>1, <4>1 DEF RowInHand, PassRow, Place, PassAt
      <4>3. QED
        BY <3>1, <4>2, OrderOfType
    <3>3. UNCHANGED events
      BY <2>1 DEF Place
    <3>4. CASE orders' = Append(orders, RestingOrder(strategy))
      <4>1. PICK row : row = RestingOrder(strategy)
        OBVIOUS
      <4>2. row \in OrderRow /\ row.status = "resting"
        BY <3>2, <4>1 DEF RestingOrder, OrderRow
      <4>3. QED
        BY <3>3, <3>4, <4>1, <4>2, AppendGrows
    <3>5. ASSUME NEW now \in Moments, orders' = Append(orders, DoneOrder(strategy, now))
          PROVE  Grows
      <4>1. PICK row : row = DoneOrder(strategy, now)
        OBVIOUS
      <4>2. row \in OrderRow /\ (row.late = "no" => ~Reached(row.stamp))
        BY <3>2, <4>1, OrderTypes, DoneOrderTells
      <4>3. QED
        BY <3>3, <3>5, <4>1, <4>2, AppendGrows
    <3>6. QED
      BY <2>1, <3>1, <3>4, <3>5 DEF Place
  <2>2. CASE ~Place(p)
    <3>1. UNCHANGED orders
      BY <1>5, <2>2 DEF Advance, NotDue, Propose, ProposeFails, LeaveIt, ExecuteIt, PlaceFails,
           MarkExecuted, NoteExecuted, accountAlone
    <3>2. DOMAIN events \subseteq DOMAIN events'
      <4>1. CASE NoteExecuted(p)
        <5>1. pass[p].id \in Nat \ {0}
          BY <4>1 DEF NoteExecuted, PassAt, RowInHand, InHand
        <5>2. "executed" \in EventKinds /\ events' = Added("executed", pass[p].id, 0)
          BY <4>1 DEF NoteExecuted, EventKinds
        <5>3. QED
          BY <5>1, <5>2, AddedGrow
      <4>2. CASE ~NoteExecuted(p)
        BY <1>5, <2>2, <4>2 DEF Advance, NotDue, Propose, ProposeFails, LeaveIt, ExecuteIt,
             PlaceFails, MarkExecuted
      <4>3. QED
        BY <4>1, <4>2
    <3>3. QED
      BY <3>1, <3>2, EventsGrow
  <2>3. QED
    BY <2>1, <2>2
<1>6. QED
  BY <1>1, <1>2, <1>3, <1>4, <1>5 DEF CampaignsNext

\* When of each pass that moves all is told, and the cursor of the campaign
\* stays or is that of a pass whose list is used up, all is told.
LEMMA StepTells ==
  ASSUME CampaignsTypeOK, CampaignsTypeOK', Grows, CursorsTell,
         \A q \in Passes : pass'[q] = pass[q] \/ RowTells(pass[q])',
         \/ campaign'.cursor = campaign.cursor
         \/ \E q \in Passes : campaign'.cursor = pass[q].newest /\ pass[q].list = <<>>
  PROVE  CursorsTell'
<1>1. \A q \in Passes : pass[q] \in PassRow /\ pass[q].cursor \in Nat /\ pass[q].newest \in Nat
  <2>1. \A q \in Passes : pass[q] \in PassRow
    BY DEF CampaignsTypeOK
  <2>2. QED
    BY <2>1 DEF PassRow
<1>2. campaign.cursor \in Nat
  BY DEF CampaignsTypeOK, CampaignRow
<1>3. ASSUME NEW q \in Passes, pass'[q] = pass[q]
      PROVE  RowTells(pass[q])'
  <2>1. PICK r : r = pass[q]
    OBVIOUS
  <2>2. pass'[q] = r
    BY <1>3, <2>1
  <2>3. RowTells(r)
    BY <2>1 DEF CursorsTell
  <2>4. RowTells(r)'
    BY <1>1, <2>1, <2>3, RowStillTells
  <2>5. QED
    BY <2>2, <2>4 DEF RowTells
<1>4. PICK n \in Nat : n = campaign'.cursor
  BY <1>1, <1>2
<1>5. Seen(n)
  BY <1>1, <1>2, <1>4 DEF CursorsTell, RowTells, Seen
<1>6. Seen(n)' /\ Seen(0)' /\ Seen(1)'
  BY <1>5, StillCovered DEF CursorsTell, Seen
<1>7. Seen(campaign.cursor)'
  BY <1>4, <1>6 DEF Seen, Covered, Reached
<1>8. QED
  BY <1>3, <1>6, <1>7 DEF CursorsTell

LEMMA GoesTells ==
  ASSUME CampaignsTypeOK, CampaignsTypeOK', Grows, CursorsTell,
         NEW p \in Passes, NEW row, Goes(p, row), RowTells(row)',
         \/ campaign'.cursor = campaign.cursor
         \/ campaign'.cursor = pass[p].newest /\ pass[p].list = <<>>
  PROVE  CursorsTell'
<1>1. pass' = [pass EXCEPT ![p] = row] /\ DOMAIN pass = Passes
  BY DEF Goes, CampaignsTypeOK
<1>2. ASSUME NEW q \in Passes
      PROVE  pass'[q] = pass[q] \/ RowTells(pass[q])'
  <2>1. CASE q = p
    <3>1. pass'[q] = row
      BY <1>1, <2>1
    <3>2. QED
      BY <3>1 DEF RowTells
  <2>2. CASE q # p
    BY <1>1, <2>2
  <2>3. QED
    BY <2>1, <2>2
<1>3. QED
  BY <1>2, StepTells

\* A pass that keeps what it has, or has nothing left, or begins from the row.
LEMMA SameTells ==
  ASSUME CampaignsTypeOK, CampaignsTypeOK', Grows, CursorsTell,
         NEW p \in Passes, NEW row, Goes(p, row),
         row.cursor \in {0, campaign.cursor, pass[p].cursor},
         \/ row.newest \in {0, campaign.cursor} /\ row.list = <<>>
         \/ row.newest = pass[p].newest /\ row.list = pass[p].list,
         row.at \in {"snapshot", "save"} => row.list = <<>>,
         \/ campaign'.cursor = campaign.cursor
         \/ campaign'.cursor = pass[p].newest /\ pass[p].list = <<>>
  PROVE  CursorsTell'
<1>1. pass[p].cursor \in Nat /\ pass[p].newest \in Nat /\ campaign.cursor \in Nat
  <2>1. pass[p] \in PassRow /\ campaign \in CampaignRow
    BY DEF CampaignsTypeOK
  <2>2. QED
    BY <2>1 DEF PassRow, CampaignRow
<1>2. Seen(0) /\ Seen(campaign.cursor) /\ RowTells(pass[p])
  BY DEF CursorsTell
<1>3. Seen(row.cursor)
  BY <1>2 DEF RowTells
<1>4. RowTells(row)
  <2>1. CASE row.newest \in {0, campaign.cursor} /\ row.list = <<>>
    BY <1>2, <1>3, <2>1 DEF RowTells, Seen
  <2>2. CASE row.newest = pass[p].newest /\ row.list = pass[p].list
    BY <1>2, <1>3, <2>2 DEF RowTells
  <2>3. QED
    BY <2>1, <2>2
<1>5. row.cursor \in Nat /\ row.newest \in Nat
  BY <1>1
<1>6. RowTells(row)'
  BY <1>4, <1>5, RowStillTells
<1>7. QED
  BY <1>6, GoesTells

\* The first order of a list has left a trace by now: the others cover the rest.
LEMMA TailTells ==
  ASSUME NEW list \in Seq(Nat \ {0}), list # <<>>, HasOrderEvent(Head(list))',
         NEW n, Covered(list, n)'
  PROVE  Covered(Tail(list), n)'
<1>1. /\ Head(list) = list[1]
      /\ \A i \in DOMAIN list : i # 1 => i - 1 \in DOMAIN Tail(list) /\ Tail(list)[i - 1] = list[i]
  OBVIOUS
<1>2. PICK t : t = Tail(list)
  OBVIOUS
<1>3. PICK h : h = Head(list)
  OBVIOUS
<1>4. HasOrderEvent(h)'
  BY <1>3 DEF HasOrderEvent
<1>5. ASSUME NEW o \in Done', orders'[o].late = "no", orders'[o].stamp <= n
      PROVE  HasOrderEvent(o)' \/ \E i \in DOMAIN t : t[i] = o
  <2>1. CASE \E i \in DOMAIN list : list[i] = o
    <3>1. PICK i \in DOMAIN list : list[i] = o
      BY <2>1
    <3>2. CASE i = 1
      <4>1. o = h
        BY <1>1, <1>3, <3>1, <3>2
      <4>2. QED
        BY <1>4, <4>1 DEF HasOrderEvent
    <3>3. CASE i # 1
      BY <1>1, <1>2, <3>1, <3>3
    <3>4. QED
      BY <3>2, <3>3
  <2>2. QED
    BY <1>5, <2>1 DEF Covered
<1>6. QED
  BY <1>2, <1>5 DEF Covered

\* So a pass that goes on behind the first order of its list tells of the rest.
LEMMA TailRowTells ==
  ASSUME CampaignsTypeOK', NEW list \in Seq(Nat \ {0}), list # <<>>, HasOrderEvent(Head(list))',
         NEW old, old.list = list, RowTells(old)',
         NEW row, row.list = Tail(list), row.cursor = old.cursor, row.at = "look",
         row.newest \in {old.newest, orders'[Head(list)].stamp}
  PROVE  RowTells(row)'
<1>1. /\ Head(list) = list[1] /\ 1 \in DOMAIN list
      /\ \A i \in DOMAIN Tail(list) : i + 1 \in DOMAIN list /\ Tail(list)[i] = list[i + 1]
  OBVIOUS
<1>2. \A n : Covered(list, n)' => Covered(Tail(list), n)'
  BY TailTells
<1>3. PICK t : t = Tail(list)
  OBVIOUS
<1>4. PICK h : h = Head(list)
  OBVIOUS
<1>5. h \in Done' /\ Covered(list, orders[h].stamp)'
  BY <1>1, <1>4 DEF RowTells
<1>6. Reached(orders[h].stamp)'
  <2>1. orders'[h].stamp \in Nat
    <3>1. \A o \in DOMAIN orders' : orders'[o] \in OrderRow
      BY DEF CampaignsTypeOK
    <3>2. h \in DOMAIN orders'
      BY <1>5 DEF Done
    <3>3. QED
      BY <3>1, <3>2 DEF OrderRow
  <2>2. QED
    BY <1>5, <2>1 DEF Reached
<1>7. Reached(row.newest)' /\ Covered(t, row.newest)'
  <2>1. CASE row.newest = old.newest
    <3>1. Reached(old.newest)' /\ Covered(list, old.newest)'
      BY DEF RowTells
    <3>2. QED
      BY <1>2, <1>3, <2>1, <3>1
  <2>2. CASE row.newest = orders'[h].stamp
    <3>1. PICK n : n = orders'[h].stamp
      OBVIOUS
    <3>2. Reached(n)' /\ Covered(list, n)'
      BY <1>5, <1>6, <3>1 DEF Covered, Reached
    <3>3. QED
      BY <1>2, <1>3, <2>2, <3>1, <3>2
  <2>3. QED
    BY <1>4, <2>1, <2>2
<1>8. ASSUME NEW i \in DOMAIN t
      PROVE  t[i] \in Done' /\ Covered(t, orders[t[i]].stamp)'
  <2>1. i + 1 \in DOMAIN list /\ t[i] = list[i + 1]
    BY <1>1, <1>3
  <2>2. PICK o : o = t[i]
    OBVIOUS
  <2>3. o \in Done' /\ Covered(list, orders[o].stamp)'
    BY <2>1, <2>2 DEF RowTells
  <2>4. PICK n : n = orders'[o].stamp
    OBVIOUS
  <2>5. Covered(list, n)'
    BY <2>3, <2>4 DEF Covered
  <2>6. Covered(t, n)'
    BY <1>2, <1>3, <2>5
  <2>7. QED
    BY <2>2, <2>3, <2>4, <2>6 DEF Covered
<1>9. Seen(row.cursor)'
  BY DEF RowTells
<1>10. QED
  BY <1>3, <1>7, <1>8, <1>9 DEF RowTells

LEMMA StepCursors ==
  ASSUME CampaignsTypeOK, InHand, CursorsTell, CampaignsNext, CampaignsTypeOK', Grows
  PROVE  CursorsTell'
<1>1. \A p \in Passes : pass[p] \in PassRow
  BY DEF CampaignsTypeOK
<1>2. NoPass.at = "rest" /\ NoPass.cursor = 0 /\ NoPass.newest = 0 /\ NoPass.list = <<>>
  BY DEF NoPass
<1>3. DOMAIN NoPass = {"at", "cursor", "shares", "list", "todo", "newest", "recorded", "settled",
                       "premiums", "phase", "step", "id"}
  BY DEF NoPass
<1>4. CASE \/ \E strategy \in HandTrades, now \in Moments : TradeByHand(strategy, now)
           \/ \E o \in DOMAIN orders, now \in Moments : FillResting(o, now)
           \/ MoveShares \/ SwitchOn
           \/ \E status \in StatusesTried : SetCampaignStatus(status)
  <2>1. UNCHANGED pass
    BY <1>4 DEF TradeByHand, FillResting, MoveShares, SwitchOn, SetCampaignStatus, restAlone
  <2>2. campaign'.cursor = campaign.cursor
    <3>1. campaign \in CampaignRow
      BY DEF CampaignsTypeOK
    <3>2. QED
      BY <1>4, <3>1 DEF TradeByHand, FillResting, MoveShares, SwitchOn, SetCampaignStatus, restAlone, CampaignRow
  <2>3. QED
    BY <2>1, <2>2, StepTells
<1>5. CASE RestartPasses
  <2>1. pass' = [p \in Passes |-> NoPass] /\ UNCHANGED campaign
    BY <1>5 DEF RestartPasses
  <2>2. Seen(0)'
    BY StillCovered DEF CursorsTell, Seen
  <2>3. ASSUME NEW q \in Passes
        PROVE  RowTells(pass[q])'
    <3>1. pass'[q] = NoPass
      BY <2>1
    <3>2. RowTells(NoPass)'
      BY <1>2, <2>2 DEF RowTells, Seen
    <3>3. QED
      BY <3>1, <3>2 DEF RowTells
  <2>4. QED
    BY <2>1, <2>3, StepTells
<1>6. ASSUME NEW p \in Passes, Reconcile(p)
      PROVE  CursorsTell'
  <2>1. CASE BeginPass(p)
    <3>1. PICK row : row = [NoPass EXCEPT !.at = "orders", !.newest = campaign.cursor,
                                          !.cursor = campaign.cursor, !.shares = campaign.shares]
      OBVIOUS
    <3>2. Goes(p, row) /\ UNCHANGED campaign
      BY <2>1, <3>1 DEF BeginPass, Goes
    <3>3. row.cursor = campaign.cursor /\ row.newest = campaign.cursor /\ row.list = <<>> /\ row.at = "orders"
      BY <1>2, <1>3, <3>1
    <3>4. QED
      BY <3>2, <3>3, SameTells
  <2>2. CASE ReadOrders(p)
    <3>1. PICK list \in Seq(Nat \ {0}) :
            /\ pass' = [pass EXCEPT ![p] = [pass[p] EXCEPT !.at = "look", !.list = list]]
            /\ \A i \in DOMAIN list : list[i] \in Done
            /\ \A o \in Done : orders[o].stamp > pass[p].cursor => \E i \in DOMAIN list : list[i] = o
      BY <2>2, Listed
    <3>2. PICK row : row = [pass[p] EXCEPT !.at = "look", !.list = list]
      OBVIOUS
    <3>3. row.cursor = pass[p].cursor /\ row.newest = pass[p].newest /\ row.list = list /\ row.at = "look"
      BY <1>1, <3>2 DEF PassRow
    <3>4. Goes(p, row) /\ UNCHANGED campaign
      BY <2>2, <3>1, <3>2 DEF Goes, ReadOrders
    <3>5. ASSUME NEW n
          PROVE  Covered(list, n)
      <4>1. ASSUME NEW o \in Done, orders[o].late = "no", ~HasOrderEvent(o)
            PROVE  \E i \in DOMAIN list : list[i] = o
        <5>1. Seen(pass[p].cursor)
          BY DEF CursorsTell, RowTells
        <5>2. orders[o].stamp \in Nat /\ pass[p].cursor \in Nat
          BY <1>1, OrdersAre DEF PassRow
        <5>3. ~(orders[o].stamp <= pass[p].cursor)
          BY <4>1, <5>1 DEF Seen, Covered
        <5>4. QED
          BY <3>1, <5>2, <5>3
      <4>2. QED
        BY <4>1 DEF Covered
    <3>6. RowTells(row)
      BY <3>1, <3>3, <3>5 DEF CursorsTell, RowTells
    <3>7. RowTells(row)'
      <4>1. row.cursor \in Nat /\ row.newest \in Nat
        BY <1>1, <3>3 DEF PassRow
      <4>2. QED
        BY <3>6, <4>1, RowStillTells
    <3>8. QED
      BY <3>4, <3>7, GoesTells
  <2>3. pass[p] \in PassRow /\ RowInHand(pass[p], Len(orders)) /\ RowTells(pass[p])
    BY DEF CampaignsTypeOK, InHand, CursorsTell
  <2>4. pass[p].list \in Seq(Nat \ {0}) /\ pass[p].cursor \in Nat /\ pass[p].newest \in Nat
    BY <2>3 DEF PassRow
  <2>6. CASE LookAt(p)
    <3>1. PICK list \in Seq(Nat \ {0}) : list = pass[p].list
      BY <2>4
    <3>2. list # <<>> /\ UNCHANGED <<accountAlone, campaign, events>> /\ pass[p].at = "look"
      BY <2>6, <3>1 DEF LookAt, PassAt
    <3>3. CASE HasOrderEvent(Head(list))
      <4>1. PICK row : row = [pass[p] EXCEPT !.list = Tail(@)]
        OBVIOUS
      <4>2. Goes(p, row)
        BY <2>6, <3>1, <3>3, <4>1 DEF LookAt, Goes
      <4>3. /\ row.cursor = pass[p].cursor /\ row.newest = pass[p].newest /\ row.list = Tail(list)
            /\ row.at = "look"
        BY <2>3, <3>1, <3>2, <4>1 DEF PassRow
      <4>4. PICK old : old = pass[p]
        OBVIOUS
      <4>5. RowTells(old)'
        BY <2>3, <2>4, <4>4, RowStillTells
      <4>6. HasOrderEvent(Head(list))'
        BY <3>2, <3>3 DEF HasOrderEvent
      <4>7. RowTells(row)'
        BY <3>1, <3>2, <4>3, <4>4, <4>5, <4>6, TailRowTells
      <4>8. QED
        BY <3>2, <4>2, <4>7, GoesTells
    <3>4. CASE ~HasOrderEvent(Head(list))
      <4>1. PICK row : row = [pass[p] EXCEPT !.at = "record", !.todo = EventsOf(orders[Head(list)].strategy)]
        OBVIOUS
      <4>2. Goes(p, row)
        BY <2>6, <3>1, <3>4, <4>1 DEF LookAt, Goes
      <4>3. /\ row.cursor = pass[p].cursor /\ row.newest = pass[p].newest /\ row.list = pass[p].list
            /\ row.at = "record"
        BY <2>3, <4>1 DEF PassRow
      <4>4. QED
        BY <3>2, <4>2, <4>3, SameTells
    <3>5. QED
      BY <3>3, <3>4
  <2>7. CASE Record(p)
    <3>1. RecordsOne(p)
      BY <2>7, RecordTells
    <3>2. UNCHANGED <<accountAlone, campaign>>
      BY <2>7 DEF Record
    <3>3. PICK o \in 1..Len(orders) : \E row : RecordsTo(p, o, row)
      BY <3>1 DEF RecordsOne
    <3>4. PICK row : RecordsTo(p, o, row)
      BY <3>3
    <3>5. /\ o = Head(pass[p].list) /\ HasOrderEvent(o)'
          /\ Goes(p, row) /\ row.cursor = pass[p].cursor
          /\ \/ row.at = "record" /\ row.list = pass[p].list /\ row.newest = pass[p].newest
             \/ /\ row.at = "look" /\ row.list = Tail(pass[p].list)
                /\ row.newest \in {orders[o].stamp, pass[p].newest}
      BY <3>4 DEF RecordsTo
    <3>6. CASE row.at = "record" /\ row.list = pass[p].list /\ row.newest = pass[p].newest
      BY <3>2, <3>5, <3>6, SameTells
    <3>7. CASE /\ row.at = "look" /\ row.list = Tail(pass[p].list)
               /\ row.newest \in {orders[o].stamp, pass[p].newest}
      <4>1. PICK list \in Seq(Nat \ {0}) : list = pass[p].list
        BY <2>4
      <4>2. list # <<>> /\ Head(list) = o
        BY <3>1, <3>5, <4>1 DEF RecordsOne
      <4>3. PICK old : old = pass[p]
        OBVIOUS
      <4>4. RowTells(old)'
        BY <2>3, <2>4, <4>3, RowStillTells
      <4>5. HasOrderEvent(Head(list))'
        BY <3>5, <4>2 DEF HasOrderEvent
      <4>6. row.newest \in {old.newest, orders'[Head(list)].stamp}
        BY <3>2, <3>7, <4>2, <4>3 DEF accountAlone
      <4>7. row.list = Tail(list) /\ row.cursor = old.cursor /\ old.list = list
        BY <3>5, <3>7, <4>1, <4>3
      <4>8. RowTells(row)'
        BY <3>7, <4>2, <4>4, <4>5, <4>6, <4>7, TailRowTells
      <4>9. QED
        BY <3>2, <3>5, <4>8, GoesTells
    <3>8. QED
      BY <3>5, <3>6, <3>7
  <2>8. CASE ReadShares(p)
    <3>1. PICK row : row = [pass[p] EXCEPT !.at = "snapshot",
            !.recorded = IF book.lots # pass[p].shares /\ pass[p].settled = "no" THEN "yes" ELSE @]
      OBVIOUS
    <3>2. Goes(p, row) /\ UNCHANGED campaign /\ pass[p].list = <<>>
      BY <2>8, <3>1 DEF ReadShares, Goes
    <3>3. row.cursor = pass[p].cursor /\ row.newest = pass[p].newest /\ row.list = pass[p].list
      BY <2>3, <3>1 DEF PassRow
    <3>4. QED
      BY <3>2, <3>3, SameTells
  <2>9. CASE Snapshot(p)
    <3>1. PICK row : row = [pass[p] EXCEPT !.at = "save", !.shares = book.lots,
                                           !.premiums = Collected, !.phase = PhaseOf(book)]
      OBVIOUS
    <3>2. Goes(p, row) /\ UNCHANGED campaign /\ pass[p].list = <<>>
      BY <2>3, <2>9, <3>1 DEF Snapshot, Goes, PassAt, RowTells
    <3>3. row.cursor = pass[p].cursor /\ row.newest = pass[p].newest /\ row.list = pass[p].list
      BY <2>3, <3>1 DEF PassRow
    <3>4. QED
      BY <3>2, <3>3, SameTells
  <2>10. CASE Save(p)
    <3>1. PICK row : row = [NoPass EXCEPT !.at = "due", !.recorded = pass[p].recorded]
      OBVIOUS
    <3>2. Goes(p, row)
      BY <2>10, <3>1 DEF Save, Goes
    <3>3. row.cursor = 0 /\ row.newest = 0 /\ row.list = <<>> /\ pass[p].list = <<>>
      BY <1>2, <1>3, <2>3, <2>10, <3>1 DEF Save, PassAt, RowTells
    <3>4. campaign \in CampaignRow
      BY DEF CampaignsTypeOK
    <3>5. campaign'.cursor = campaign.cursor \/ campaign'.cursor = pass[p].newest
      BY <2>10, <3>4 DEF Save, NewCursor, CampaignRow
    <3>6. QED
      BY <3>2, <3>3, <3>5, SameTells
  <2>11. QED
    BY <1>6, <2>1, <2>2, <2>6, <2>7, <2>8, <2>9, <2>10 DEF Reconcile
<1>7. ASSUME NEW p \in Passes, Advance(p)
      PROVE  CursorsTell'
  <2>1. pass[p] \in PassRow /\ campaign \in CampaignRow
    BY DEF CampaignsTypeOK
  <2>2. campaign'.cursor = campaign.cursor
    BY <1>7, <2>1 DEF Advance, NotDue, Propose, ProposeFails, LeaveIt, ExecuteIt, Place, PlaceFails,
         MarkExecuted, NoteExecuted, CampaignRow
  <2>3. CASE EndPass(p)
    <3>1. Goes(p, NoPass)
      BY <2>3 DEF EndPass, Goes
    <3>2. QED
      BY <1>2, <2>2, <3>1, SameTells
  <2>4. ASSUME NEW row, Goes(p, row), row.cursor = pass[p].cursor, row.newest = pass[p].newest,
               row.list = pass[p].list, row.at \notin {"snapshot", "save"}
        PROVE  CursorsTell'
    BY <2>2, <2>4, SameTells
  <2>5. CASE Propose(p)
    <3>1. PICK step \in NextSteps(book) : pass' = [pass EXCEPT ![p] = [pass[p] EXCEPT !.at = "execute", !.step = step]]
      BY <2>5 DEF Propose
    <3>2. PICK row : row = [pass[p] EXCEPT !.at = "execute", !.step = step]
      OBVIOUS
    <3>3. Goes(p, row)
      BY <3>1, <3>2 DEF Goes
    <3>4. /\ row.cursor = pass[p].cursor /\ row.newest = pass[p].newest /\ row.list = pass[p].list
          /\ row.at = "execute"
      BY <2>1, <3>2 DEF PassRow
    <3>5. QED
      BY <2>4, <3>3, <3>4
  <2>6. CASE ExecuteIt(p)
    <3>1. PICK row : row = [pass[p] EXCEPT !.at = "place"]
      OBVIOUS
    <3>2. Goes(p, row)
      BY <2>6, <3>1 DEF ExecuteIt, Goes
    <3>3. /\ row.cursor = pass[p].cursor /\ row.newest = pass[p].newest /\ row.list = pass[p].list
          /\ row.at = "place"
      BY <2>1, <3>1 DEF PassRow
    <3>4. QED
      BY <2>4, <3>2, <3>3
  <2>7. CASE Place(p)
    <3>1. PICK row : row = [pass[p] EXCEPT !.at = "mark", !.id = Len(orders) + 1]
      OBVIOUS
    <3>2. Goes(p, row)
      BY <2>7, <3>1 DEF Place, Goes
    <3>3. /\ row.cursor = pass[p].cursor /\ row.newest = pass[p].newest /\ row.list = pass[p].list
          /\ row.at = "mark"
      BY <2>1, <3>1 DEF PassRow
    <3>4. QED
      BY <2>4, <3>2, <3>3
  <2>8. CASE MarkExecuted(p)
    <3>1. PICK row : row = [pass[p] EXCEPT !.at = "executed"]
      OBVIOUS
    <3>2. Goes(p, row)
      BY <2>8, <3>1 DEF MarkExecuted, Goes
    <3>3. /\ row.cursor = pass[p].cursor /\ row.newest = pass[p].newest /\ row.list = pass[p].list
          /\ row.at = "executed"
      BY <2>1, <3>1 DEF PassRow
    <3>4. QED
      BY <2>4, <3>2, <3>3
  <2>9. QED
    BY <1>7, <2>3, <2>5, <2>6, <2>7, <2>8 DEF Advance, NotDue, ProposeFails, LeaveIt, PlaceFails, NoteExecuted
<1>8. QED
  BY <1>4, <1>5, <1>6, <1>7 DEF CampaignsNext

-----------------------------------------------------------------------------
(* How often an order is counted.                                           *)

\* No event stands twice in what a pass has to add.
OnceEach(todo) == \A i, j \in DOMAIN todo : todo[i] = todo[j] => i = j

\* How often an event was added, and which passes are still to add it.
Counted(e) == IF e \in DOMAIN events THEN events[e] ELSE 0

Adds(row, e) ==
  /\ row.at = "record" /\ Head(row.list) = e.order
  /\ \E i \in DOMAIN row.todo : row.todo[i] = [kind |-> e.kind, cash |-> e.cash]

Adders(e) == {p \in Passes : Adds(pass[p], e)}

CountsTell ==
  /\ \A e \in DOMAIN events : e.order \in 1..Len(orders)
  /\ \A e \in CampaignEvent : Counted(e) + Cardinality(Adders(e)) <= Cardinality(Passes)
  /\ \A p \in Passes : OnceEach(pass[p].todo)

\* Passes that have placed an order have each their own, and no event tells yet
\* of its execution.
Marks(row) == row.at \in {"mark", "executed"}

ExecutionsTell ==
  /\ \A p, q \in Passes : Marks(pass[p]) /\ Marks(pass[q]) /\ pass[p].id = pass[q].id => p = q
  /\ \A p \in Passes : Marks(pass[p]) =>
       \A e \in DOMAIN events : e.kind = "executed" => e.order # pass[p].id

LEMMA EventsOnce == \A strategy : OnceEach(EventsOf(strategy))
<1>1. ASSUME NEW strategy, strategy \notin {"close_both", "roll_long"}
      PROVE  \E e : EventsOf(strategy) = <<e>>
  BY <1>1 DEF EventsOf
<1>2. \A e : OnceEach(<<e>>)
  BY DEF OnceEach
<1>3. \A a, b : a # b => OnceEach(<<a>> \o <<b>>)
  BY DEF OnceEach
<1>4. /\ [kind |-> "closed", cash |-> -1] # [kind |-> "sold_long", cash |-> 3]
      /\ [kind |-> "sold_long", cash |-> 3] # [kind |-> "bought_call", cash |-> -3]
  OBVIOUS
<1>5. /\ EventsOf("close_both") = <<[kind |-> "closed", cash |-> -1]>> \o <<[kind |-> "sold_long", cash |-> 3]>>
      /\ EventsOf("roll_long") = <<[kind |-> "sold_long", cash |-> 3]>> \o <<[kind |-> "bought_call", cash |-> -3]>>
  BY DEF EventsOf
<1>6. OnceEach(EventsOf("close_both")) /\ OnceEach(EventsOf("roll_long"))
  BY <1>3, <1>4, <1>5
<1>7. QED
  BY <1>1, <1>2, <1>6

LEMMA AddedCounts ==
  ASSUME CampaignsTypeOK, NEW e \in CampaignEvent, events' = Added(e.kind, e.order, e.cash)
  PROVE  /\ DOMAIN events' = DOMAIN events \cup {e}
         /\ Counted(e)' = Counted(e) + 1
         /\ \A x \in CampaignEvent : x # e => Counted(x)' = Counted(x)
<1>1. /\ e.kind \in EventKinds /\ e.order \in Nat \ {0} /\ e.cash \in Int
      /\ e = [kind |-> e.kind, order |-> e.order, cash |-> e.cash]
  BY DEF CampaignEvent
<1>2. IsABag(events) /\ IsFiniteSet(DOMAIN events) /\ DOMAIN events \subseteq CampaignEvent
  BY DEF CampaignsTypeOK
<1>3. PICK kind \in EventKinds : kind = e.kind
  BY <1>1
<1>4. PICK o \in Nat \ {0} : o = e.order
  BY <1>1
<1>5. PICK cash \in Int : cash = e.cash
  BY <1>1
<1>6. events' = Added(kind, o, cash)
  BY <1>3, <1>4, <1>5
<1>7. /\ DOMAIN events' = DOMAIN events \cup {e}
      /\ events'[e] = IF e \in DOMAIN events THEN events[e] + 1 ELSE 1
      /\ \A x \in DOMAIN events : x # e => events'[x] = events[x]
  <2>1. /\ DOMAIN events' = DOMAIN events \cup {[kind |-> kind, order |-> o, cash |-> cash]}
        /\ events'[[kind |-> kind, order |-> o, cash |-> cash]] =
             IF [kind |-> kind, order |-> o, cash |-> cash] \in DOMAIN events
             THEN events[[kind |-> kind, order |-> o, cash |-> cash]] + 1 ELSE 1
        /\ \A x \in DOMAIN events :
             x # [kind |-> kind, order |-> o, cash |-> cash] => events'[x] = events[x]
    BY <1>2, <1>6, AddedType
  <2>2. e = [kind |-> kind, order |-> o, cash |-> cash]
    BY <1>1, <1>3, <1>4, <1>5
  <2>3. QED
    BY <2>1, <2>2
<1>8. \A x \in DOMAIN events : events[x] \in Nat
  BY <1>2 DEF IsABag
<1>9. Counted(e)' = Counted(e) + 1
  BY <1>7, <1>8 DEF Counted
<1>10. \A x \in CampaignEvent : x # e => Counted(x)' = Counted(x)
  BY <1>7 DEF Counted
<1>11. QED
  BY <1>7, <1>9, <1>10

\* Neither an event is added nor a pass set to add one.
LEMMA CountsKept ==
  ASSUME CampaignsTypeOK, CountsTell, UNCHANGED events,
         Len(orders') \in Nat, Len(orders) <= Len(orders'),
         \A q \in Passes : \/ pass'[q] = pass[q]
                           \/ pass'[q].at # "record" /\ pass'[q].todo \in {<<>>, pass[q].todo}
  PROVE  CountsTell'
<1>1. Len(orders) \in Nat
  BY DEF CampaignsTypeOK
<1>2. \A e \in DOMAIN events' : e.order \in 1..Len(orders')
  BY <1>1 DEF CountsTell
<1>3. ASSUME NEW q \in Passes
      PROVE  OnceEach(pass[q].todo)'
  <2>1. OnceEach(pass[q].todo) /\ OnceEach(<<>>)
    BY DEF CountsTell, OnceEach
  <2>2. pass'[q].todo \in {<<>>, pass[q].todo}
    OBVIOUS
  <2>3. QED
    BY <2>1, <2>2 DEF OnceEach
<1>4. ASSUME NEW e \in CampaignEvent
      PROVE  (Counted(e) + Cardinality(Adders(e)) <= Cardinality(Passes))'
  <2>1. Counted(e)' = Counted(e)
    BY DEF Counted
  <2>2. Counted(e) \in Nat
    BY DEF Counted, CampaignsTypeOK, IsABag
  <2>3. Adders(e)' \subseteq Adders(e)
    BY DEF Adders, Adds
  <2>4. Adders(e) \in SUBSET Passes
    BY DEF Adders
  <2>5. PICK n : n = Cardinality(Adders(e)')
    OBVIOUS
  <2>6. n \in Nat /\ n <= Cardinality(Adders(e))
    BY <2>3, <2>4, <2>5, FewerPasses
  <2>7. Cardinality(Adders(e)) \in Nat /\ Cardinality(Passes) \in Nat
    BY <2>4, PassesAreFew
  <2>8. Counted(e) + Cardinality(Adders(e)) <= Cardinality(Passes)
    BY DEF CountsTell
  <2>9. Counted(e) + n <= Cardinality(Passes)
    BY <2>2, <2>6, <2>7, <2>8
  <2>10. QED
    BY <2>1, <2>5, <2>9
<1>5. QED
  BY <1>2, <1>3, <1>4 DEF CountsTell

\* A pass takes up an order of which nothing is told yet.
LEMMA TakenUpCounts ==
  ASSUME CampaignsTypeOK, CountsTell, NEW p \in Passes, LookAt(p), ~HasOrderEvent(Head(pass[p].list))
  PROVE  CountsTell'
<1>1. PICK o : o = Head(pass[p].list)
  OBVIOUS
<1>2. PICK row : row = [pass[p] EXCEPT !.at = "record", !.todo = EventsOf(orders[o].strategy)]
  OBVIOUS
<1>3. Goes(p, row) /\ UNCHANGED <<events, orders>>
  BY <1>1, <1>2 DEF LookAt, Goes, accountAlone
<1>4. pass[p] \in PassRow
  BY DEF CampaignsTypeOK
<1>5. Head(row.list) = o /\ OnceEach(row.todo)
  BY <1>1, <1>2, <1>4, EventsOnce DEF PassRow
<1>6. pass'[p] = row /\ \A q \in Passes : q # p => pass'[q] = pass[q]
  BY <1>3 DEF Goes, CampaignsTypeOK
<1>7. ASSUME NEW e \in CampaignEvent
      PROVE  (Counted(e) + Cardinality(Adders(e)) <= Cardinality(Passes))'
  <2>1. Counted(e)' = Counted(e) /\ Counted(e) \in Nat
    BY <1>3 DEF Counted, CampaignsTypeOK, IsABag
  <2>2. PICK n : n = Cardinality(Adders(e)')
    OBVIOUS
  <2>3. CASE e.order = o
    <3>1. Counted(e) = 0
      BY <1>1, <2>3 DEF HasOrderEvent, Counted
    <3>2. Adders(e)' \in SUBSET Passes
      BY DEF Adders
    <3>3. n \in Nat /\ n <= Cardinality(Passes)
      BY <2>2, <3>2, PassesAreFew
    <3>4. QED
      BY <2>1, <2>2, <3>1, <3>3
  <2>4. CASE e.order # o
    <3>1. ~Adds(row, e)
      BY <1>5, <2>4 DEF Adds
    <3>2. Adders(e)' \subseteq Adders(e)
      BY <1>6, <3>1 DEF Adders, Adds
    <3>3. Adders(e) \in SUBSET Passes
      BY DEF Adders
    <3>4. n \in Nat /\ n <= Cardinality(Adders(e))
      BY <2>2, <3>2, <3>3, FewerPasses
    <3>5. Cardinality(Adders(e)) \in Nat /\ Cardinality(Passes) \in Nat
      BY <3>3, PassesAreFew
    <3>6. Counted(e) + Cardinality(Adders(e)) <= Cardinality(Passes)
      BY DEF CountsTell
    <3>7. QED
      BY <2>1, <2>2, <3>4, <3>5, <3>6
  <2>5. QED
    BY <2>3, <2>4
<1>8. \A q \in Passes : OnceEach(pass[q].todo)'
  BY <1>5, <1>6 DEF CountsTell, OnceEach
<1>9. QED
  BY <1>3, <1>7, <1>8 DEF CountsTell

\* An event more of one kind, and one pass less that is to add it.
LEMMA CountsMove ==
  ASSUME CampaignsTypeOK, CountsTell, NEW e \in CampaignEvent, e.order \in 1..Len(orders),
         UNCHANGED orders, DOMAIN events' = DOMAIN events \cup {e},
         Counted(e)' = Counted(e) + 1,
         \A x \in CampaignEvent : x # e => Counted(x)' = Counted(x),
         \A x \in CampaignEvent : Adders(x)' \subseteq Adders(x),
         Counted(e) + 1 + Cardinality(Adders(e)') <= Cardinality(Passes),
         \A q \in Passes : OnceEach(pass[q].todo)'
  PROVE  CountsTell'
<1>1. \A x \in DOMAIN events' : x.order \in 1..Len(orders')
  BY DEF CountsTell
<1>2. ASSUME NEW x \in CampaignEvent
      PROVE  (Counted(x) + Cardinality(Adders(x)) <= Cardinality(Passes))'
  <2>1. CASE x = e
    <3>1. Cardinality(Adders(x)') = Cardinality(Adders(e)') /\ Counted(x)' = Counted(e)'
      BY <2>1 DEF Adders, Adds, Counted
    <3>2. QED
      BY <3>1
  <2>2. CASE x # e
    <3>1. Counted(x)' = Counted(x) /\ Counted(x) \in Nat
      BY <2>2 DEF Counted, CampaignsTypeOK, IsABag
    <3>2. PICK n : n = Cardinality(Adders(x)')
      OBVIOUS
    <3>3. Adders(x) \in SUBSET Passes
      BY DEF Adders
    <3>4. n \in Nat /\ n <= Cardinality(Adders(x))
      BY <3>2, <3>3, FewerPasses
    <3>5. Cardinality(Adders(x)) \in Nat /\ Cardinality(Passes) \in Nat
      BY <3>3, PassesAreFew
    <3>6. Counted(x) + Cardinality(Adders(x)) <= Cardinality(Passes)
      BY DEF CountsTell
    <3>7. QED
      BY <3>1, <3>2, <3>4, <3>5, <3>6
  <2>3. QED
    BY <2>1, <2>2
<1>3. QED
  BY <1>1, <1>2 DEF CountsTell

LEMMA RecordCounts ==
  ASSUME CampaignsTypeOK, InHand, CountsTell, NEW p \in Passes, Record(p)
  PROVE  CountsTell'
<1>1. RecordsOne(p) /\ UNCHANGED orders
  BY RecordTells DEF Record, accountAlone
<1>2. PICK o \in 1..Len(orders) : \E row : RecordsTo(p, o, row)
  BY <1>1 DEF RecordsOne
<1>3. PICK row : RecordsTo(p, o, row)
  BY <1>2
<1>4. PICK todo : todo = pass[p].todo
  OBVIOUS
<1>5. PICK a : a = Head(todo)
  OBVIOUS
<1>6. /\ todo \in Seq(Addition) /\ todo # <<>> /\ a \in Addition /\ OnceEach(todo)
      /\ pass[p].at = "record" /\ Head(pass[p].list) = o
  <2>1. pass[p] \in PassRow
    BY DEF CampaignsTypeOK
  <2>2. QED
    BY <1>1, <1>3, <1>4, <1>5, <2>1 DEF PassRow, RecordsOne, RecordsTo, CountsTell
<1>7. a.kind \in EventKinds /\ a.cash \in Int /\ a = [kind |-> a.kind, cash |-> a.cash]
  BY <1>6 DEF Addition
<1>8. PICK e : e = [kind |-> a.kind, order |-> o, cash |-> a.cash]
  OBVIOUS
<1>9. e.kind = a.kind /\ e.order = o /\ e.cash = a.cash
  BY <1>8
<1>10. e \in CampaignEvent /\ events' = Added(e.kind, e.order, e.cash)
  <2>1. o \in Nat \ {0} /\ events' = Added(a.kind, o, a.cash)
    BY <1>3, <1>4, <1>5 DEF RecordsTo, CampaignsTypeOK
  <2>2. QED
    BY <1>7, <1>8, <1>9, <2>1 DEF CampaignEvent
<1>11. /\ e \in CampaignEvent /\ DOMAIN events' = DOMAIN events \cup {e}
       /\ Counted(e)' = Counted(e) + 1
       /\ \A x \in CampaignEvent : x # e => Counted(x)' = Counted(x)
  BY <1>10, AddedCounts
<1>12. pass'[p] = row /\ \A q \in Passes : q # p => pass'[q] = pass[q]
  BY <1>3 DEF RecordsTo, Goes, CampaignsTypeOK
<1>13. /\ row.todo = Tail(todo)
       /\ row.at = "record" => Head(row.list) = o
  BY <1>3, <1>4, <1>6 DEF RecordsTo
<1>14. /\ 1 \in DOMAIN todo /\ todo[1] = a
       /\ \A i \in DOMAIN Tail(todo) : i + 1 \in DOMAIN todo /\ Tail(todo)[i] = todo[i + 1] /\ i + 1 # 1 /\ i \in Int
  BY <1>5, <1>6
<1>15. p \in Adders(e)
  BY <1>6, <1>7, <1>9, <1>4, <1>14 DEF Adders, Adds
<1>16. ~Adds(row, e)
  <2>1. \A i \in DOMAIN Tail(todo) : Tail(todo)[i] # a
    BY <1>6, <1>14 DEF OnceEach
  <2>2. QED
    BY <1>7, <1>9, <1>13, <2>1 DEF Adds
<1>17. \A x : Adds(row, x) => Adds(pass[p], x)
  BY <1>4, <1>6, <1>13, <1>14 DEF Adds
<1>18. \A x \in CampaignEvent : Adders(x)' \subseteq Adders(x)
  BY <1>12, <1>17 DEF Adders, Adds
<1>19. Counted(e) + 1 + Cardinality(Adders(e)') <= Cardinality(Passes)
  <2>1. Adders(e)' \subseteq Adders(e) \ {p}
    BY <1>11, <1>12, <1>16, <1>18 DEF Adders, Adds
  <2>2. Adders(e) \in SUBSET Passes
    BY DEF Adders
  <2>3. PICK n : n = Cardinality(Adders(e)')
    OBVIOUS
  <2>4. n \in Nat /\ n <= Cardinality(Adders(e)) - 1
    BY <1>15, <2>1, <2>2, <2>3, FewerPasses
  <2>5. Counted(e) + Cardinality(Adders(e)) <= Cardinality(Passes) /\ Counted(e) \in Nat
    BY <1>11 DEF CountsTell, Counted, CampaignsTypeOK, IsABag
  <2>6. Cardinality(Adders(e)) \in Nat /\ Cardinality(Passes) \in Nat
    BY <2>2, PassesAreFew
  <2>7. QED
    BY <2>3, <2>4, <2>5, <2>6
<1>20. \A q \in Passes : OnceEach(pass[q].todo)'
  <2>1. OnceEach(row.todo)
    <3>1. \A i, j \in DOMAIN Tail(todo) : i + 1 = j + 1 => i = j
      BY <1>14
    <3>2. QED
      BY <1>6, <1>13, <1>14, <3>1 DEF OnceEach
  <2>2. QED
    BY <1>12, <2>1 DEF CountsTell, OnceEach
<1>21. QED
  BY <1>1, <1>9, <1>11, <1>18, <1>19, <1>20, CountsMove

LEMMA NoteCounts ==
  ASSUME CampaignsTypeOK, InHand, CountsTell, ExecutionsTell, NEW p \in Passes, NoteExecuted(p)
  PROVE  CountsTell' /\ ExecutionsTell'
<1>1. PICK o : o = pass[p].id
  OBVIOUS
<1>2. /\ Goes(p, NoPass) /\ UNCHANGED orders /\ events' = Added("executed", o, 0)
      /\ Marks(pass[p]) /\ o \in 1..Len(orders)
  BY <1>1 DEF NoteExecuted, EndPass, Goes, accountAlone, Marks, PassAt, InHand, RowInHand
<1>3. o \in Nat \ {0} /\ "executed" \in EventKinds /\ 0 \in Int
  BY <1>2 DEF CampaignsTypeOK, EventKinds
<1>4. PICK e : e = [kind |-> "executed", order |-> o, cash |-> 0]
  OBVIOUS
<1>4a. e \in CampaignEvent /\ events' = Added(e.kind, e.order, e.cash)
  BY <1>2, <1>3, <1>4 DEF CampaignEvent
<1>5. /\ e \in CampaignEvent /\ DOMAIN events' = DOMAIN events \cup {e}
      /\ Counted(e)' = Counted(e) + 1
      /\ \A x \in CampaignEvent : x # e => Counted(x)' = Counted(x)
  BY <1>4a, AddedCounts
<1>6. e.kind = "executed" /\ e.order = o
  BY <1>4
<1>7. NoPass.at = "rest" /\ NoPass.todo = <<>>
  BY DEF NoPass
<1>8. pass'[p] = NoPass /\ \A q \in Passes : q # p => pass'[q] = pass[q]
  BY <1>2 DEF Goes, CampaignsTypeOK
<1>9. Counted(e) = 0
  BY <1>1, <1>2, <1>6 DEF ExecutionsTell, Counted
<1>10. \A x \in CampaignEvent : Adders(x)' \subseteq Adders(x)
  BY <1>7, <1>8 DEF Adders, Adds
<1>11. Adders(e) = {}
  <2>1. ASSUME NEW q \in Passes, NEW i \in DOMAIN pass[q].todo
        PROVE  pass[q].todo[i].kind # "executed"
    <3>1. pass[q] \in PassRow
      BY DEF CampaignsTypeOK
    <3>2. pass[q].todo[i] \in Addition
      BY <3>1 DEF PassRow
    <3>3. QED
      BY <3>2 DEF Addition
  <2>2. QED
    BY <1>6, <2>1 DEF Adders, Adds
<1>12. Counted(e) + 1 + Cardinality(Adders(e)') <= Cardinality(Passes)
  <2>1. Adders(e)' = {}
    BY <1>5, <1>10, <1>11
  <2>2. Cardinality(Adders(e)') = 0
    BY <2>1, FS_EmptySet
  <2>3. Cardinality(Passes) >= 1 /\ Cardinality(Passes) \in Nat
    BY PassesAreFew
  <2>4. QED
    BY <1>9, <2>2, <2>3
<1>13. \A q \in Passes : OnceEach(pass[q].todo)'
  BY <1>7, <1>8 DEF CountsTell, OnceEach
<1>14. CountsTell'
  BY <1>2, <1>5, <1>6, <1>10, <1>12, <1>13, CountsMove
<1>15. ExecutionsTell'
  <2>1. \A q \in Passes : Marks(pass'[q]) => q # p /\ pass'[q] = pass[q]
    BY <1>7, <1>8 DEF Marks
  <2>2. \A q \in Passes : Marks(pass[q]) /\ q # p => pass[q].id # o
    BY <1>1, <1>2 DEF ExecutionsTell
  <2>3. \A q, r \in Passes : Marks(pass'[q]) /\ Marks(pass'[r]) /\ pass'[q].id = pass'[r].id => q = r
    BY <2>1 DEF ExecutionsTell
  <2>4. ASSUME NEW q \in Passes, Marks(pass'[q]), NEW x \in DOMAIN events', x.kind = "executed"
        PROVE  x.order # pass'[q].id
    BY <1>5, <1>6, <2>1, <2>2, <2>4 DEF ExecutionsTell
  <2>5. QED
    BY <2>3, <2>4 DEF ExecutionsTell, Marks
<1>16. QED
  BY <1>14, <1>15

\* No order is placed, and no execution told of.
LEMMA ExecutionsKept ==
  ASSUME ExecutionsTell, \A e \in DOMAIN events' : e \in DOMAIN events \/ e.kind # "executed",
         \A q \in Passes : \/ pass'[q] = pass[q] \/ ~Marks(pass'[q])
                           \/ Marks(pass[q]) /\ pass'[q].id = pass[q].id
  PROVE  ExecutionsTell'
<1>1. \A q \in Passes : Marks(pass'[q]) => Marks(pass[q]) /\ pass'[q].id = pass[q].id
  OBVIOUS
<1>2. \A q, r \in Passes : Marks(pass'[q]) /\ Marks(pass'[r]) /\ pass'[q].id = pass'[r].id => q = r
  BY <1>1 DEF ExecutionsTell
<1>3. ASSUME NEW q \in Passes, Marks(pass'[q]), NEW x \in DOMAIN events', x.kind = "executed"
      PROVE  x.order # pass'[q].id
  BY <1>1, <1>3 DEF ExecutionsTell
<1>4. QED
  BY <1>2, <1>3 DEF ExecutionsTell, Marks

\* A pass that stays as it is, or goes on to where it neither adds an event nor
\* places or marks a step.
QuietPoints == {"rest", "orders", "look", "snapshot", "save", "due", "execute"}

Settles(q) ==
  \/ pass'[q] = pass[q]
  \/ pass'[q].at \in QuietPoints /\ pass[q].at # "mark" /\ pass'[q].todo \in {<<>>, pass[q].todo}

QuietStep(p) ==
  \/ BeginPass(p) \/ ReadOrders(p) \/ (LookAt(p) /\ HasOrderEvent(Head(pass[p].list)))
  \/ ReadShares(p) \/ Snapshot(p) \/ Save(p)
  \/ NotDue(p) \/ Propose(p) \/ ProposeFails(p) \/ LeaveIt(p) \/ PlaceFails(p)

LEMMA QuietSettles ==
  ASSUME CampaignsTypeOK, NEW p \in Passes, QuietStep(p) \/ NoteExecuted(p)
  PROVE  \A q \in Passes : Settles(q)
<1>1. pass[p] \in PassRow
  BY DEF CampaignsTypeOK
<1>2. NoPass.at = "rest" /\ NoPass.todo = <<>>
  BY DEF NoPass
<1>3. ASSUME NEW row, Goes(p, row), row.at \in QuietPoints, row.todo \in {<<>>, pass[p].todo},
             pass[p].at # "mark"
      PROVE  \A q \in Passes : Settles(q)
  <2>1. pass'[p] = row /\ \A q \in Passes : q # p => pass'[q] = pass[q]
    BY <1>3 DEF Goes, CampaignsTypeOK
  <2>2. QED
    BY <1>3, <2>1 DEF Settles
<1>4. CASE NotDue(p) \/ ProposeFails(p) \/ LeaveIt(p) \/ PlaceFails(p) \/ NoteExecuted(p)
  <2>1. Goes(p, NoPass) /\ pass[p].at # "mark"
    BY <1>4 DEF NotDue, ProposeFails, LeaveIt, PlaceFails, NoteExecuted, EndPass, Goes, PassAt
  <2>2. QED
    BY <1>2, <1>3, <2>1 DEF QuietPoints
<1>5. CASE BeginPass(p)
  <2>1. PICK row : row = [NoPass EXCEPT !.at = "orders", !.newest = campaign.cursor,
                                        !.cursor = campaign.cursor, !.shares = campaign.shares]
    OBVIOUS
  <2>2. Goes(p, row) /\ pass[p].at = "rest"
    BY <1>5, <2>1 DEF BeginPass, Goes, PassAt
  <2>3. row.at = "orders" /\ row.todo = <<>>
    BY <2>1 DEF NoPass
  <2>4. QED
    BY <1>3, <2>2, <2>3 DEF QuietPoints
<1>6. CASE ReadOrders(p)
  <2>1. PICK list \in Seq(Nat \ {0}) : pass' = [pass EXCEPT ![p] = [pass[p] EXCEPT !.at = "look", !.list = list]]
    BY <1>6, Listed
  <2>2. PICK row : row = [pass[p] EXCEPT !.at = "look", !.list = list]
    OBVIOUS
  <2>3. Goes(p, row) /\ pass[p].at = "orders"
    BY <1>6, <2>1, <2>2 DEF ReadOrders, Goes, PassAt
  <2>4. row.at = "look" /\ row.todo = pass[p].todo
    BY <1>1, <2>2 DEF PassRow
  <2>5. QED
    BY <1>3, <2>3, <2>4 DEF QuietPoints
<1>7. CASE LookAt(p) /\ HasOrderEvent(Head(pass[p].list))
  <2>1. PICK row : row = [pass[p] EXCEPT !.list = Tail(@)]
    OBVIOUS
  <2>2. Goes(p, row) /\ pass[p].at = "look"
    BY <1>7, <2>1 DEF LookAt, Goes, PassAt
  <2>3. row.at = "look" /\ row.todo = pass[p].todo
    BY <1>1, <2>1, <2>2 DEF PassRow
  <2>4. QED
    BY <1>3, <2>2, <2>3 DEF QuietPoints
<1>8. CASE ReadShares(p)
  <2>1. PICK row : row = [pass[p] EXCEPT !.at = "snapshot",
          !.recorded = IF book.lots # pass[p].shares /\ pass[p].settled = "no" THEN "yes" ELSE @]
    OBVIOUS
  <2>2. Goes(p, row) /\ pass[p].at = "look"
    BY <1>8, <2>1 DEF ReadShares, Goes, PassAt
  <2>3. row.at = "snapshot" /\ row.todo = pass[p].todo
    BY <1>1, <2>1 DEF PassRow
  <2>4. QED
    BY <1>3, <2>2, <2>3 DEF QuietPoints
<1>9. CASE Snapshot(p)
  <2>1. PICK row : row = [pass[p] EXCEPT !.at = "save", !.shares = book.lots,
                                         !.premiums = Collected, !.phase = PhaseOf(book)]
    OBVIOUS
  <2>2. Goes(p, row) /\ pass[p].at = "snapshot"
    BY <1>9, <2>1 DEF Snapshot, Goes, PassAt
  <2>3. row.at = "save" /\ row.todo = pass[p].todo
    BY <1>1, <2>1 DEF PassRow
  <2>4. QED
    BY <1>3, <2>2, <2>3 DEF QuietPoints
<1>10. CASE Save(p)
  <2>1. PICK row : row = [NoPass EXCEPT !.at = "due", !.recorded = pass[p].recorded]
    OBVIOUS
  <2>2. Goes(p, row) /\ pass[p].at = "save"
    BY <1>10, <2>1 DEF Save, Goes, PassAt
  <2>3. row.at = "due" /\ row.todo = <<>>
    BY <2>1 DEF NoPass
  <2>4. QED
    BY <1>3, <2>2, <2>3 DEF QuietPoints
<1>11. CASE Propose(p)
  <2>1. PICK step \in NextSteps(book) : pass' = [pass EXCEPT ![p] = [pass[p] EXCEPT !.at = "execute", !.step = step]]
    BY <1>11 DEF Propose
  <2>2. PICK row : row = [pass[p] EXCEPT !.at = "execute", !.step = step]
    OBVIOUS
  <2>3. Goes(p, row) /\ pass[p].at = "due"
    BY <1>11, <2>1, <2>2 DEF Propose, Goes, PassAt
  <2>4. row.at = "execute" /\ row.todo = pass[p].todo
    BY <1>1, <2>2 DEF PassRow
  <2>5. QED
    BY <1>3, <2>3, <2>4 DEF QuietPoints
<1>12. QED
  BY <1>4, <1>5, <1>6, <1>7, <1>8, <1>9, <1>10, <1>11 DEF QuietStep

\* No order is ever taken off the list.
LEMMA OrdersStay ==
  ASSUME CampaignsTypeOK, CampaignsNext
  PROVE  Len(orders) \in Nat /\ Len(orders') \in Nat /\ Len(orders) <= Len(orders')
<1>1. orders \in Seq(OrderRow)
  BY DEF CampaignsTypeOK
<1>2. Len(orders) \in Nat /\ \A x : Len(Append(orders, x)) = Len(orders) + 1
  BY <1>1
<1>3. ASSUME NEW strategy \in HandTrades, NEW now \in Moments, TradeByHand(strategy, now)
      PROVE  Len(orders') = Len(orders) + 1
  BY <1>2, <1>3 DEF TradeByHand
<1>4. ASSUME NEW o \in DOMAIN orders, NEW now \in Moments, FillResting(o, now)
      PROVE  Len(orders') = Len(orders)
  <2>1. PICK row : orders' = [orders EXCEPT ![o] = row]
    BY <1>4 DEF FillResting
  <2>2. QED
    BY <1>1, <2>1
<1>5. ASSUME NEW p \in Passes, Place(p)
      PROVE  Len(orders') = Len(orders) + 1
  BY <1>2, <1>5 DEF Place
<1>6. ASSUME NEW p \in Passes, Reconcile(p) \/ Advance(p), ~Place(p)
      PROVE  UNCHANGED orders
  BY <1>6 DEF Reconcile, BeginPass, ReadOrders, LookAt, Record, ReadShares, Snapshot, Save,
       Advance, NotDue, Propose, ProposeFails, LeaveIt, ExecuteIt, PlaceFails, MarkExecuted,
       NoteExecuted, accountAlone
<1>7. CASE MoveShares \/ SwitchOn \/ RestartPasses \/ \E status \in StatusesTried : SetCampaignStatus(status)
  BY <1>2, <1>7 DEF MoveShares, SwitchOn, RestartPasses, SetCampaignStatus
<1>8. QED
  BY <1>2, <1>3, <1>4, <1>5, <1>6, <1>7 DEF CampaignsNext

\* A pass goes on from executing to placing to marking to noting.
LEMMA ExecuteRow ==
  ASSUME CampaignsTypeOK, NEW p \in Passes, ExecuteIt(p)
  PROVE  /\ pass'[p].at = "place" /\ pass[p].at = "execute" /\ pass'[p].todo = pass[p].todo
         /\ pass'[p].step = pass[p].step
         /\ \A q \in Passes : q # p => pass'[q] = pass[q]
<1>1. pass[p] \in PassRow /\ pass \in [Passes -> PassRow]
  BY DEF CampaignsTypeOK
<1>2. PICK row : row = [pass[p] EXCEPT !.at = "place"]
  OBVIOUS
<1>3. row.at = "place" /\ row.todo = pass[p].todo /\ row.step = pass[p].step
  BY <1>1, <1>2 DEF PassRow
<1>4. pass' = [pass EXCEPT ![p] = row] /\ pass[p].at = "execute"
  BY <1>2 DEF ExecuteIt, PassAt
<1>5. QED
  BY <1>1, <1>3, <1>4

LEMMA PlaceRow ==
  ASSUME CampaignsTypeOK, NEW p \in Passes, Place(p)
  PROVE  /\ pass'[p].at = "mark" /\ pass[p].at = "place" /\ pass'[p].todo = pass[p].todo
         /\ pass'[p].step = pass[p].step /\ pass'[p].id = Len(orders) + 1
         /\ \A q \in Passes : q # p => pass'[q] = pass[q]
<1>1. pass[p] \in PassRow /\ pass \in [Passes -> PassRow]
  BY DEF CampaignsTypeOK
<1>2. PICK row : row = [pass[p] EXCEPT !.at = "mark", !.id = Len(orders) + 1]
  OBVIOUS
<1>3. row.at = "mark" /\ row.todo = pass[p].todo /\ row.step = pass[p].step /\ row.id = Len(orders) + 1
  BY <1>1, <1>2 DEF PassRow
<1>4. pass' = [pass EXCEPT ![p] = row] /\ pass[p].at = "place"
  BY <1>2 DEF Place, PassAt
<1>5. QED
  BY <1>1, <1>3, <1>4

LEMMA MarkRow ==
  ASSUME CampaignsTypeOK, NEW p \in Passes, MarkExecuted(p)
  PROVE  /\ pass'[p].at = "executed" /\ pass[p].at = "mark" /\ pass'[p].todo = pass[p].todo
         /\ pass'[p].id = pass[p].id
         /\ \A q \in Passes : q # p => pass'[q] = pass[q]
<1>1. pass[p] \in PassRow /\ pass \in [Passes -> PassRow]
  BY DEF CampaignsTypeOK
<1>2. PICK row : row = [pass[p] EXCEPT !.at = "executed"]
  OBVIOUS
<1>3. row.at = "executed" /\ row.todo = pass[p].todo /\ row.id = pass[p].id
  BY <1>1, <1>2 DEF PassRow
<1>4. pass' = [pass EXCEPT ![p] = row] /\ pass[p].at = "mark"
  BY <1>2 DEF MarkExecuted, PassAt
<1>5. QED
  BY <1>1, <1>3, <1>4

LEMMA StepCounts ==
  ASSUME CampaignsTypeOK, InHand, CountsTell, ExecutionsTell, CampaignsNext
  PROVE  CountsTell' /\ ExecutionsTell'
<1>1. Len(orders) \in Nat /\ Len(orders') \in Nat /\ Len(orders) <= Len(orders')
  BY OrdersStay
<1>2. ASSUME UNCHANGED events, \A q \in Passes : Settles(q)
      PROVE  CountsTell' /\ ExecutionsTell'
  <2>1. \A q \in Passes : \/ pass'[q] = pass[q]
                          \/ /\ pass'[q].at # "record" /\ pass'[q].todo \in {<<>>, pass[q].todo}
                             /\ ~Marks(pass'[q])
    BY <1>2 DEF Settles, QuietPoints, Marks
  <2>2. CountsTell'
    BY <1>1, <1>2, <2>1, CountsKept
  <2>3. ExecutionsTell'
    BY <1>2, <2>1, ExecutionsKept
  <2>4. QED
    BY <2>2, <2>3
<1>3. CASE \/ \E strategy \in HandTrades, now \in Moments : TradeByHand(strategy, now)
           \/ \E o \in DOMAIN orders, now \in Moments : FillResting(o, now)
           \/ MoveShares \/ SwitchOn
           \/ \E status \in StatusesTried : SetCampaignStatus(status)
  <2>1. UNCHANGED <<events, pass>>
    BY <1>3 DEF TradeByHand, FillResting, MoveShares, SwitchOn, SetCampaignStatus, restAlone
  <2>2. QED
    BY <1>2, <2>1 DEF Settles
<1>4. CASE RestartPasses
  <2>1. UNCHANGED events /\ \A q \in Passes : pass'[q] = NoPass
    BY <1>4 DEF RestartPasses
  <2>2. \A q \in Passes : pass'[q].at # "record" /\ pass'[q].todo \in {<<>>, pass[q].todo} /\ ~Marks(pass'[q])
    BY <2>1 DEF NoPass, Marks
  <2>3. CountsTell'
    BY <1>1, <2>1, <2>2, CountsKept
  <2>4. ExecutionsTell'
    BY <2>1, <2>2, ExecutionsKept
  <2>5. QED
    BY <2>3, <2>4
<1>5. ASSUME NEW p \in Passes, QuietStep(p)
      PROVE  CountsTell' /\ ExecutionsTell'
  <2>1. UNCHANGED events
    BY <1>5 DEF QuietStep, BeginPass, ReadOrders, LookAt, ReadShares, Snapshot, Save, NotDue, Propose,
         ProposeFails, LeaveIt, PlaceFails
  <2>2. QED
    BY <1>2, <1>5, <2>1, QuietSettles
<1>6. ASSUME NEW p \in Passes, LookAt(p), ~HasOrderEvent(Head(pass[p].list))
      PROVE  CountsTell' /\ ExecutionsTell'
  <2>1. CountsTell'
    BY <1>6, TakenUpCounts
  <2>2. PICK row : row = [pass[p] EXCEPT !.at = "record", !.todo = EventsOf(orders[Head(pass[p].list)].strategy)]
    OBVIOUS
  <2>3. pass' = [pass EXCEPT ![p] = row] /\ UNCHANGED events
    BY <1>6, <2>2 DEF LookAt
  <2>4. row.at = "record" /\ pass \in [Passes -> PassRow]
    <3>1. pass[p] \in PassRow /\ pass \in [Passes -> PassRow]
      BY DEF CampaignsTypeOK
    <3>2. QED
      BY <2>2, <3>1 DEF PassRow
  <2>5. \A q \in Passes : pass'[q] = pass[q] \/ ~Marks(pass'[q])
    BY <2>3, <2>4 DEF Marks
  <2>6. QED
    BY <2>1, <2>3, <2>5, ExecutionsKept
<1>7. ASSUME NEW p \in Passes, Record(p)
      PROVE  CountsTell' /\ ExecutionsTell'
  <2>1. CountsTell'
    BY <1>7, RecordCounts
  <2>2. PICK o \in 1..Len(orders) : \E row : RecordsTo(p, o, row)
    BY <1>7, RecordTells DEF RecordsOne
  <2>3. PICK row : RecordsTo(p, o, row)
    BY <2>2
  <2>4. PICK a : a = Head(pass[p].todo)
    OBVIOUS
  <2>5. a \in Addition /\ events' = Added(a.kind, o, a.cash)
    BY <2>3, <2>4 DEF RecordsTo
  <2>6. PICK e : e = [kind |-> a.kind, order |-> o, cash |-> a.cash]
    OBVIOUS
  <2>7. a.kind \in EventKinds /\ a.kind # "executed" /\ a.cash \in Int /\ o \in Nat \ {0} /\ e.kind = a.kind
    BY <1>1, <2>5, <2>6 DEF Addition
  <2>8. DOMAIN events' = DOMAIN events \cup {e}
    <3>1. e \in CampaignEvent /\ events' = Added(e.kind, e.order, e.cash)
      BY <2>5, <2>6, <2>7 DEF CampaignEvent
    <3>2. QED
      BY <3>1, AddedCounts
  <2>9. \A q \in Passes : pass'[q] = pass[q] \/ ~Marks(pass'[q])
    BY <2>3 DEF RecordsTo, Goes, Marks, CampaignsTypeOK
  <2>10. ExecutionsTell'
    BY <2>7, <2>8, <2>9, ExecutionsKept
  <2>11. QED
    BY <2>1, <2>10
<1>8. ASSUME NEW p \in Passes, ExecuteIt(p) \/ MarkExecuted(p)
      PROVE  CountsTell' /\ ExecutionsTell'
  <2>1. UNCHANGED events
    BY <1>8 DEF ExecuteIt, MarkExecuted
  <2>2. \A q \in Passes : \/ pass'[q] = pass[q]
                          \/ pass'[q].at # "record" /\ pass'[q].todo \in {<<>>, pass[q].todo}
    BY <1>8, ExecuteRow, MarkRow
  <2>3. \A q \in Passes : \/ pass'[q] = pass[q] \/ ~Marks(pass'[q])
                          \/ Marks(pass[q]) /\ pass'[q].id = pass[q].id
    BY <1>8, ExecuteRow, MarkRow DEF Marks
  <2>4. CountsTell'
    BY <1>1, <2>1, <2>2, CountsKept
  <2>5. ExecutionsTell'
    BY <2>1, <2>3, ExecutionsKept
  <2>6. QED
    BY <2>4, <2>5
<1>9. ASSUME NEW p \in Passes, Place(p)
      PROVE  CountsTell' /\ ExecutionsTell'
  <2>1. UNCHANGED events
    BY <1>9 DEF Place
  <2>2. /\ pass'[p].at = "mark" /\ pass'[p].todo = pass[p].todo /\ pass'[p].id = Len(orders) + 1
        /\ \A q \in Passes : q # p => pass'[q] = pass[q]
    BY <1>9, PlaceRow
  <2>3. CountsTell'
    BY <1>1, <2>1, <2>2, CountsKept
  <2>4. \A q \in Passes : Marks(pass[q]) => pass[q].id \in 1..Len(orders)
    BY DEF InHand, RowInHand, Marks
  <2>5. \A e \in DOMAIN events : e.order \in 1..Len(orders)
    BY DEF CountsTell
  <2>6. Len(orders) + 1 \notin 1..Len(orders)
    BY <1>1
  <2>7. \A q, r \in Passes : Marks(pass'[q]) /\ Marks(pass'[r]) /\ pass'[q].id = pass'[r].id => q = r
    BY <2>2, <2>4, <2>6 DEF ExecutionsTell
  <2>8. ASSUME NEW q \in Passes, Marks(pass'[q]), NEW e \in DOMAIN events', e.kind = "executed"
        PROVE  e.order # pass'[q].id
    BY <2>1, <2>2, <2>5, <2>6, <2>8 DEF ExecutionsTell
  <2>9. ExecutionsTell'
    BY <2>7, <2>8 DEF ExecutionsTell, Marks
  <2>10. QED
    BY <2>3, <2>9
<1>10. ASSUME NEW p \in Passes, NoteExecuted(p)
       PROVE  CountsTell' /\ ExecutionsTell'
  BY <1>10, NoteCounts
<1>11. QED
  BY <1>3, <1>4, <1>5, <1>6, <1>7, <1>8, <1>9, <1>10 DEF CampaignsNext, Reconcile, Advance, QuietStep

\* What the counts come to.
LEMMA CountsGive ==
  ASSUME CampaignsTypeOK, CountsTell
  PROVE  OncePerPass
<1>1. PICK n : n = Cardinality(Passes) /\ n \in Nat
  BY PassesAreFew
<1>2. ASSUME NEW e \in DOMAIN events
      PROVE  events[e] <= n
  <2>1. e \in CampaignEvent /\ events[e] \in Nat /\ Counted(e) = events[e]
    BY DEF CampaignsTypeOK, IsABag, Counted
  <2>2. Adders(e) \in SUBSET Passes
    BY DEF Adders
  <2>3. Cardinality(Adders(e)) \in Nat
    BY <2>2, PassesAreFew
  <2>4. events[e] + Cardinality(Adders(e)) <= n
    BY <1>1, <2>1 DEF CountsTell
  <2>5. QED
    BY <1>1, <2>1, <2>3, <2>4
<1>3. QED
  BY <1>1, <1>2 DEF OncePerPass

-----------------------------------------------------------------------------
(* What always holds.                                                       *)

LEMMA CursorsInit == CampaignsInit => CursorsTell
<1>1. ASSUME CampaignsInit
      PROVE  CursorsTell
  <2>1. Done = {}
    BY <1>1 DEF CampaignsInit, Done
  <2>2. Seen(0) /\ Seen(1)
    BY <2>1 DEF Seen, Reached, Covered
  <2>3. campaign.cursor = 1
    BY <1>1 DEF CampaignsInit
  <2>4. NoPass.cursor = 0 /\ NoPass.newest = 0 /\ NoPass.list = <<>>
    BY DEF NoPass
  <2>5. \A p \in Passes : pass[p] = NoPass
    BY <1>1 DEF CampaignsInit
  <2>6. RowTells(NoPass)
    BY <2>2, <2>4 DEF RowTells, Seen
  <2>7. QED
    BY <2>2, <2>3, <2>5, <2>6 DEF CursorsTell
<1>2. QED
  BY <1>1

LEMMA CountsInit == CampaignsInit => CountsTell /\ ExecutionsTell
<1>1. ASSUME CampaignsInit
      PROVE  CountsTell /\ ExecutionsTell
  <2>1. DOMAIN events = {}
    <3>1. EmptyBag = [e \in {} |-> 1]
      BY DEF EmptyBag, SetToBag
    <3>2. QED
      BY <1>1, <3>1 DEF CampaignsInit
  <2>2. \A p \in Passes : pass[p].at = "rest" /\ pass[p].todo = <<>>
    BY <1>1 DEF CampaignsInit, NoPass
  <2>3. \A e : Adders(e) = {}
    BY <2>2 DEF Adders, Adds
  <2>4. Cardinality({}) = 0 /\ Cardinality(Passes) \in Nat
    BY FS_EmptySet, PassesAreFew
  <2>5. ASSUME NEW e \in CampaignEvent
        PROVE  Counted(e) + Cardinality(Adders(e)) <= Cardinality(Passes)
    <3>1. Counted(e) = 0
      BY <2>1 DEF Counted
    <3>2. Cardinality(Adders(e)) = 0
      BY <2>3, <2>4
    <3>3. QED
      BY <2>4, <3>1, <3>2
  <2>6. \A p \in Passes : OnceEach(pass[p].todo)
    BY <2>2 DEF OnceEach
  <2>7. CountsTell
    BY <2>1, <2>5, <2>6 DEF CountsTell
  <2>8. ExecutionsTell
    BY <2>2 DEF ExecutionsTell, Marks
  <2>9. QED
    BY <2>7, <2>8
<1>2. QED
  BY <1>1

\* What all the steps of a campaign keep.
CampaignsInv ==
  /\ CampaignsTypeOK /\ InHand /\ CursorsTell
  /\ CountsTell /\ ExecutionsTell

LEMMA CampaignsInvHolds == CampaignsSpec => []CampaignsInv
<1>1. CampaignsInit => CampaignsInv
  BY InitTypes, CursorsInit, CountsInit DEF CampaignsInv
<1>2. CampaignsInv /\ [CampaignsNext]_campaignVars => CampaignsInv'
  <2>1. ASSUME CampaignsInv, CampaignsNext
        PROVE  CampaignsInv'
    <3>1. CampaignsTypeOK' /\ InHand'
      BY <2>1, StepTypes DEF CampaignsInv
    <3>2. Grows
      BY <2>1, StepGrows DEF CampaignsInv
    <3>3. CursorsTell'
      BY <2>1, <3>1, <3>2, StepCursors DEF CampaignsInv
    <3>4. CountsTell' /\ ExecutionsTell'
      BY <2>1, StepCounts DEF CampaignsInv
    <3>5. QED
      BY <3>1, <3>3, <3>4 DEF CampaignsInv
  <2>2. ASSUME CampaignsInv, UNCHANGED campaignVars
        PROVE  CampaignsInv'
    <3>1. CampaignsTypeOK' /\ InHand'
      BY <2>2 DEF CampaignsInv, campaignVars, CampaignsTypeOK, InHand
    <3>2. CursorsTell'
      BY <2>2 DEF CampaignsInv, campaignVars, CursorsTell, RowTells, Seen, Reached, Covered, Done,
           HasOrderEvent
    <3>3. CountsTell' /\ ExecutionsTell'
      BY <2>2 DEF CampaignsInv, campaignVars, CountsTell, Counted, Adders, Adds, OnceEach, ExecutionsTell, Marks
    <3>4. QED
      BY <3>1, <3>2, <3>3 DEF CampaignsInv
  <2>3. QED
    BY <2>1, <2>2
<1>3. QED
  BY <1>1, <1>2, PTL DEF CampaignsSpec

\* In every state of every run the rows, the orders, the book, the events and
\* what the passes hold are what they should be: an event is one of the known
\* kinds under the id of an order, what the book holds is never negative, and a
\* step is one the playbook knows (runner.run_one, store, snapshot).
THEOREM CampaignTypesHold == CampaignsSpec => []CampaignsTypeOK
BY CampaignsInvHolds, PTL DEF CampaignsInv

\* Whatever passes run side by side and wherever a restart ends them, the cursor
\* of the campaign passes over an order that is done and left no event only when
\* that order was late: committed with a stamp that an order before it, or the
\* campaign's start, had reached already (runner.reconcile).
THEOREM CursorAlwaysPassesOnlyTheLate == CampaignsSpec => []CursorPassesOnlyTheLate
<1>1. CampaignsInv => CursorPassesOnlyTheLate
  <2>1. ASSUME CampaignsInv, NEW o \in Done, orders[o].stamp <= campaign.cursor, orders[o].late # "yes"
        PROVE  HasOrderEvent(o)
    <3>1. orders[o].late = "no"
      BY <2>1, OrdersAre DEF CampaignsInv
    <3>2. QED
      BY <2>1, <3>1 DEF CampaignsInv, CursorsTell, Seen, Covered
  <2>2. QED
    BY <2>1 DEF CursorPassesOnlyTheLate
<1>2. QED
  BY <1>1, CampaignsInvHolds, PTL

\* Whatever passes run side by side and wherever a restart ends them, each of them
\* counts an order at most once: no event about an order is added more often than
\* there are passes (has_order_event, add_event).
THEOREM CountedOncePerPass == CampaignsSpec => []OncePerPass
<1>1. CampaignsInv => OncePerPass
  BY CountsGive DEF CampaignsInv
<1>2. QED
  BY <1>1, CampaignsInvHolds, PTL
=============================================================================

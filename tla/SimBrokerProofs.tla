---------------------------- MODULE SimBrokerProofs ----------------------------
(***************************************************************************)
(* Proofs about the order table of Simulation Mode, for every set of       *)
(* tickets, prices and submissions; that the broker with its account       *)
(* implements the order table, so what holds of the table holds of the     *)
(* broker as well; and that the account is what the filled orders of the   *)
(* table make of it.  Last, the same handlers split at their awaits: what  *)
(* it takes for a fill to be applied once, and for the position to be what *)
(* filled, when tasks interleave and the process restarts.                 *)
(***************************************************************************)
EXTENDS SimBrokerTasks, SumLemmas, TLAPS


-----------------------------------------------------------------------------
(* Orders, exits and OCO groups.                                           *)

\* An order is a ticket and a leg, and its entry is an order too.
LEMMA OrderShape ==
  ASSUME NEW o \in Orders
  PROVE  /\ o = <<o[1], o[2]>>
         /\ o[1] \in Tickets
         /\ o[2] \in Legs
         /\ Entry(o[1]) \in Orders
         /\ IsEntry(o) <=> o = Entry(o[1])
BY DEF Orders, Legs, Entry, IsEntry

\* The entry of a ticket is an order, and an entry.
LEMMA EntryShape ==
  ASSUME NEW t \in Tickets
  PROVE  Entry(t) \in Orders /\ IsEntry(Entry(t)) /\ Entry(t)[1] = t
BY DEF Orders, Legs, Entry, IsEntry

\* The children of a ticket's entry are its two exits.
LEMMA ChildrenOfEntry ==
  ASSUME NEW t \in Tickets, NEW o
  PROVE  o \in Children(Entry(t)) <=> o \in Orders /\ o[1] = t /\ ~IsEntry(o)
<1>1. Children(Entry(t)) = {<<t, "take_profit">>, <<t, "stop_loss">>}
  BY DEF Children, Entry, IsEntry
<1>2. QED
  BY <1>1 DEF Orders, Legs, IsEntry

\* An OCO group is a pair of exits of one ticket, both of which it carries.
LEMMA SiblingIsOtherExit ==
  ASSUME NEW r, NEW o \in Orders, NEW s \in SiblingsIn(r, o)
  PROVE  /\ s \in Orders /\ s[1] = o[1] /\ s # o
         /\ ~IsEntry(o) /\ ~IsEntry(s)
         /\ o \in SiblingsIn(r, s)
         /\ SiblingsIn(r, o) = {s}
         /\ o[2] \in LegsOf(r) /\ s[2] \in LegsOf(r)
<1>1. o[2] \in {"take_profit", "stop_loss"} /\ ~IsEntry(o)
  BY OrderShape DEF SiblingsIn, Legs, IsEntry
<1>2. /\ r.takeProfit # None /\ r.stopLoss # None
      /\ SiblingsIn(r, o) = {<<o[1], l>> : l \in {"take_profit", "stop_loss"} \ {o[2]}}
  BY DEF SiblingsIn
<1>3. {"take_profit", "stop_loss"} \subseteq LegsOf(r)
  BY <1>2 DEF LegsOf
<1>4. CASE o[2] = "take_profit"
  <2>1. SiblingsIn(r, o) = {<<o[1], "stop_loss">>} /\ s = <<o[1], "stop_loss">>
    BY <1>2, <1>4
  <2>2. SiblingsIn(r, s) = {<<o[1], "take_profit">>}
    BY <1>2, <2>1 DEF SiblingsIn, IsEntry
  <2>3. QED
    BY <1>1, <1>3, <1>4, <2>1, <2>2, OrderShape DEF Orders, Legs, IsEntry
<1>5. CASE o[2] = "stop_loss"
  <2>1. SiblingsIn(r, o) = {<<o[1], "take_profit">>} /\ s = <<o[1], "take_profit">>
    BY <1>2, <1>5
  <2>2. SiblingsIn(r, s) = {<<o[1], "stop_loss">>}
    BY <1>2, <2>1 DEF SiblingsIn, IsEntry
  <2>3. QED
    BY <1>1, <1>3, <1>5, <2>1, <2>2, OrderShape DEF Orders, Legs, IsEntry
<1>6. QED
  BY <1>1, <1>4, <1>5

-----------------------------------------------------------------------------
(* The invariants, as predicates of the statuses and the tickets.          *)

Follows(st) ==
  \A o \in Orders :
    ~IsEntry(o) =>
      /\ st[Entry(o[1])] = "none" => st[o] = "none"
      /\ st[Entry(o[1])] = "new" => st[o] \in {"none", "held", "canceled"}
      /\ st[Entry(o[1])] = "filled" => st[o] \in {"none", "new", "filled", "canceled"}
      /\ st[Entry(o[1])] = "canceled" => st[o] \in {"none", "canceled"}

Pairs(tk, st) ==
  \A o \in Orders : \A s \in SiblingsIn(tk[o[1]], o) :
    /\ st[o] \in Working <=> st[s] \in Working
    /\ ~(st[o] = "filled" /\ st[s] = "filled")

\* A row's entry is never held and never waits for another order.
EntriesNotHeld(st) == \A t \in Tickets : st[Entry(t)] # "held"

LEMMA FollowsIsExitsFollowEntry == ExitsFollowEntry <=> Follows(status)
BY ChildrenOfEntry, OrderShape DEF ExitsFollowEntry, Follows

LEMMA FollowsIsExitsFollowEntryNext == ExitsFollowEntry' <=> Follows(status')
BY ChildrenOfEntry, OrderShape DEF ExitsFollowEntry, Follows

LEMMA PairsIsOco ==
  /\ OcoPairStandsTogether <=> Pairs(ticket, status)
  /\ OcoPairStandsTogether' <=> Pairs(ticket', status')
BY DEF OcoPairStandsTogether, Pairs, OcoSiblings

BookInv ==
  /\ BookTypeOK
  /\ EntriesNotHeld(status)
  /\ ExitsFollowEntry
  /\ OcoPairStandsTogether

-----------------------------------------------------------------------------
(* What the status operators do, order by order.                           *)

LEMMA CancelInStatuses ==
  ASSUME NEW st \in [Orders -> Statuses], NEW S
  PROVE  CancelIn(st, S) \in [Orders -> Statuses]
BY DEF CancelIn, Statuses

LEMMA InsertInStatuses ==
  ASSUME NEW st \in [Orders -> Statuses], NEW t, NEW r
  PROVE  InsertIn(st, t, r) \in [Orders -> Statuses]
BY DEF InsertIn, Statuses

LEMMA FillInStatuses ==
  ASSUME NEW st \in [Orders -> Statuses], NEW F
  PROVE  FillIn(st, F) \in [Orders -> Statuses]
BY CancelInStatuses DEF FillIn, Statuses

-----------------------------------------------------------------------------
(* Types.                                                                  *)

LEMMA MarketOrderIsResolved ==
  ASSUME NEW side \in Sides, NEW q \in Shares
  PROVE  MarketOrder(side, q) \in ResolvedOrder
BY DEF MarketOrder, NoTicket, ResolvedOrder, Sides, OrderTypes, Shares, None

LEMMA InsertTypes ==
  ASSUME BookTypeOK, NEW t \in Tickets, NEW r \in ResolvedOrder, Insert(t, r)
  PROVE  /\ ticket' \in [Tickets -> ResolvedOrder \cup {NoTicket}]
         /\ limit' \in [Orders -> Prices \cup {None}]
         /\ stop' \in [Orders -> Prices \cup {None}]
<1>1. ASSUME NEW o \in Orders
      PROVE  LegLimit(r, o[2]) \in Prices \cup {None} /\ LegStop(r, o[2]) \in Prices \cup {None}
  BY OrderShape DEF LegLimit, LegStop, ResolvedOrder, Legs
<1>2. QED
  BY <1>1 DEF Insert, BookTypeOK

LEMMA TriggerPriceType ==
  ASSUME BookTypeOK, NEW o \in Orders
  PROVE  TriggerPrice(o) \in Prices \cup {None}
BY DEF TriggerPrice, BookTypeOK

LEMMA BookTypeStep ==
  ASSUME BookTypeOK, [BookNext]_bookVars
  PROVE  BookTypeOK'
<1> USE DEF BookTypeOK
<1>1. ASSUME NEW t \in Tickets, NEW r \in Submissions, NEW p \in Prices \cup {None},
             SubmitResting(t, r, p)
      PROVE  BookTypeOK'
  BY <1>1, InsertTypes, InsertInStatuses, SubmissionsAssumption DEF SubmitResting
<1>2. ASSUME NEW t \in Tickets, NEW r \in Submissions, NEW p \in Prices \cup {None},
             SubmitFilled(t, r, p)
      PROVE  BookTypeOK'
  BY <1>2, InsertTypes, InsertInStatuses, FillInStatuses, SubmissionsAssumption DEF SubmitFilled
<1>3. ASSUME NEW p \in Prices, NEW F \in FillSets(p), CheckFills(p, F)
      PROVE  BookTypeOK'
  BY <1>3, FillInStatuses, TriggerPriceType DEF CheckFills
<1>4. ASSUME NEW o \in Orders, Cancel(o)
      PROVE  BookTypeOK'
  BY <1>4, CancelInStatuses DEF Cancel
<1>5. ASSUME NEW o \in Orders, NEW x \in Prices, NEW p \in Prices \cup {None},
             ReplaceStop(o, x, p) \/ ReplaceTarget(o, x, p) \/ ReplaceLimit(o, x)
      PROVE  BookTypeOK'
  BY <1>5 DEF ReplaceStop, ReplaceTarget, ReplaceLimit
<1>6. ASSUME NEW t \in Tickets, NEW s \in Sides, NEW q \in Shares, NEW p \in Prices,
             ClosePosition(t, s, q, p)
      PROVE  BookTypeOK'
  <2>1. MarketOrder(s, q) \in ResolvedOrder
    BY MarketOrderIsResolved
  <2>2. status' \in [Orders -> Statuses]
    BY <1>6, CancelInStatuses, InsertInStatuses, FillInStatuses DEF ClosePosition
  <2>3. QED
    BY <1>6, <2>1, <2>2, InsertTypes DEF ClosePosition
<1>7. ASSUME Reset
      PROVE  BookTypeOK'
  BY <1>7 DEF Reset, Statuses
<1>8. ASSUME UNCHANGED bookVars
      PROVE  BookTypeOK'
  BY <1>8 DEF bookVars
<1>9. QED
  BY <1>1, <1>2, <1>3, <1>4, <1>5, <1>6, <1>7, <1>8 DEF BookNext

\* Every row of the order table has its columns, whatever is submitted,
\* filled, canceled, replaced, closed or reset.
THEOREM BookTypeCorrect == BookSpec => []BookTypeOK
<1>1. BookInit => BookTypeOK
  BY DEF BookInit, BookTypeOK, Statuses
<1>2. QED
  BY <1>1, BookTypeStep, PTL DEF BookSpec

-----------------------------------------------------------------------------
(* Fills, inserts and cancels keep the exits behind their entry and the    *)
(* OCO pairs together.                                                     *)

StatusOK(tk, st) == EntriesNotHeld(st) /\ Follows(st) /\ Pairs(tk, st)

\* What the invariant says of one exit and its entry.
LEMMA ExitAndEntry ==
  ASSUME NEW tk, NEW st \in [Orders -> Statuses], StatusOK(tk, st),
         NEW o \in Orders, ~IsEntry(o)
  PROVE  /\ st[o] \in Statuses /\ st[Entry(o[1])] \in Statuses \ {"held"}
         /\ st[Entry(o[1])] = "none" => st[o] = "none"
         /\ st[Entry(o[1])] = "new" => st[o] \in {"none", "held", "canceled"}
         /\ st[Entry(o[1])] = "filled" => st[o] \in {"none", "new", "filled", "canceled"}
         /\ st[Entry(o[1])] = "canceled" => st[o] \in {"none", "canceled"}
<1>1. o[1] \in Tickets /\ Entry(o[1]) \in Orders
  BY OrderShape
<1>2. QED
  BY <1>1 DEF StatusOK, Follows, EntriesNotHeld

\* A set canceled together must hold the children of its entries and the
\* sibling of its exits.
LEMMA CancelKeeps ==
  ASSUME NEW st \in [Orders -> Statuses], StatusOK(ticket, st), NEW S \in SUBSET Orders,
         \A o \in S : Children(o) \subseteq S /\ OcoSiblings(o) \subseteq S
  PROVE  StatusOK(ticket, CancelIn(st, S))
<1> DEFINE new == CancelIn(st, S)
<1>1. EntriesNotHeld(new)
  BY EntryShape DEF EntriesNotHeld, CancelIn, StatusOK, Working
<1>2. Follows(new)
  <2> SUFFICES ASSUME NEW o \in Orders, ~IsEntry(o)
               PROVE  /\ new[Entry(o[1])] = "none" => new[o] = "none"
                      /\ new[Entry(o[1])] = "new" => new[o] \in {"none", "held", "canceled"}
                      /\ new[Entry(o[1])] = "filled" => new[o] \in {"none", "new", "filled", "canceled"}
                      /\ new[Entry(o[1])] = "canceled" => new[o] \in {"none", "canceled"}
    BY DEF Follows
  <2>1. Entry(o[1]) \in Orders /\ (Entry(o[1]) \in S => o \in S)
    BY OrderShape, ChildrenOfEntry
  <2>2. /\ new[o] = IF o \in S /\ st[o] \in Working THEN "canceled" ELSE st[o]
        /\ new[Entry(o[1])] = IF Entry(o[1]) \in S /\ st[Entry(o[1])] \in Working
                              THEN "canceled" ELSE st[Entry(o[1])]
    BY <2>1 DEF CancelIn
  <2>3. QED
    BY <2>1, <2>2, ExitAndEntry DEF Working
<1>3. Pairs(ticket, new)
  <2> SUFFICES ASSUME NEW o \in Orders, NEW s \in SiblingsIn(ticket[o[1]], o)
               PROVE  /\ new[o] \in Working <=> new[s] \in Working
                      /\ ~(new[o] = "filled" /\ new[s] = "filled")
    BY DEF Pairs
  <2>1. s \in Orders /\ (o \in S <=> s \in S)
    BY SiblingIsOtherExit DEF OcoSiblings
  <2>2. QED
    BY <2>1 DEF CancelIn, StatusOK, Pairs, Working
<1>4. QED
  BY <1>1, <1>2, <1>3 DEF StatusOK

\* Fills of live orders, no two of one OCO group.
LEMMA FillKeeps ==
  ASSUME NEW st \in [Orders -> Statuses], StatusOK(ticket, st),
         NEW F \in SUBSET {o \in Orders : st[o] = "new"},
         \A o \in F : OcoSiblings(o) \cap F = {}
  PROVE  StatusOK(ticket, FillIn(st, F))
<1> DEFINE new == FillIn(st, F)
           siblings == UNION {OcoSiblings(f) : f \in F}
<1>0. ASSUME NEW o \in Orders
      PROVE  /\ o \in F => new[o] = "filled"
             /\ o \notin F /\ st[o] = "held" /\ Entry(o[1]) \in F => new[o] = "new"
             /\ o \notin F /\ ~(st[o] = "held" /\ Entry(o[1]) \in F) =>
                  new[o] = IF o \in siblings /\ st[o] \in Working THEN "canceled" ELSE st[o]
  BY <1>0 DEF FillIn, CancelIn
<1>1. EntriesNotHeld(new)
  BY <1>0, EntryShape DEF EntriesNotHeld, StatusOK, Working
<1>2. Follows(new)
  <2> SUFFICES ASSUME NEW o \in Orders, ~IsEntry(o)
               PROVE  /\ new[Entry(o[1])] = "none" => new[o] = "none"
                      /\ new[Entry(o[1])] = "new" => new[o] \in {"none", "held", "canceled"}
                      /\ new[Entry(o[1])] = "filled" => new[o] \in {"none", "new", "filled", "canceled"}
                      /\ new[Entry(o[1])] = "canceled" => new[o] \in {"none", "canceled"}
    BY DEF Follows
  <2>1. Entry(o[1]) \in Orders /\ Entry(o[1]) \notin siblings
    BY OrderShape, EntryShape, SiblingIsOtherExit DEF OcoSiblings
  <2>2. /\ st[o] \in Statuses /\ st[Entry(o[1])] \in Statuses \ {"held"}
        /\ st[Entry(o[1])] = "none" => st[o] = "none"
        /\ st[Entry(o[1])] = "new" => st[o] \in {"none", "held", "canceled"}
        /\ st[Entry(o[1])] = "filled" => st[o] \in {"none", "new", "filled", "canceled"}
        /\ st[Entry(o[1])] = "canceled" => st[o] \in {"none", "canceled"}
    BY ExitAndEntry
  <2>3. o \in F => st[o] = "new" /\ st[Entry(o[1])] = "filled"
    BY <2>2 DEF Statuses
  <2>4. Entry(o[1]) \in F => st[Entry(o[1])] = "new"
    OBVIOUS
  <2>5. new[Entry(o[1])] = IF Entry(o[1]) \in F THEN "filled" ELSE st[Entry(o[1])]
    BY <1>0, <2>1, <2>2
  <2>6. CASE o \in F
    BY <1>0, <2>2, <2>3, <2>5, <2>6
  <2>7. CASE o \notin F /\ Entry(o[1]) \in F
    BY <1>0, <2>1, <2>2, <2>4, <2>5, <2>7 DEF Working
  <2>8. CASE o \notin F /\ Entry(o[1]) \notin F
    BY <1>0, <2>1, <2>2, <2>5, <2>8 DEF Working
  <2>9. QED
    BY <2>6, <2>7, <2>8
<1>3. Pairs(ticket, new)
  <2> SUFFICES ASSUME NEW o \in Orders, NEW s \in SiblingsIn(ticket[o[1]], o)
               PROVE  /\ new[o] \in Working <=> new[s] \in Working
                      /\ ~(new[o] = "filled" /\ new[s] = "filled")
    BY DEF Pairs
  <2>1. /\ s \in Orders /\ s[1] = o[1] /\ ~IsEntry(o) /\ ~IsEntry(s)
        /\ OcoSiblings(o) = {s} /\ OcoSiblings(s) = {o}
    BY SiblingIsOtherExit DEF OcoSiblings
  <2>2. (o \in siblings <=> s \in F) /\ (s \in siblings <=> o \in F)
    <3>1. ASSUME NEW f \in F, NEW g \in OcoSiblings(f)
          PROVE  f \in OcoSiblings(g)
      BY SiblingIsOtherExit DEF OcoSiblings
    <3>2. QED
      BY <2>1, <3>1
  <2>3. ~(o \in F /\ s \in F)
    BY <2>1
  <2>4. /\ st[o] \in Working <=> st[s] \in Working
        /\ ~(st[o] = "filled" /\ st[s] = "filled")
    BY DEF StatusOK, Pairs
  <2>5. Entry(o[1]) \in F => st[o] # "new" /\ st[s] # "new"
    BY <2>1 DEF StatusOK, Follows
  <2>6. QED
    BY <1>0, <2>1, <2>2, <2>3, <2>4, <2>5 DEF Working
<1>4. QED
  BY <1>1, <1>2, <1>3 DEF StatusOK

\* A fresh ticket: its rows did not exist, and its exits are held together.
LEMMA InsertKeeps ==
  ASSUME NEW tk \in [Tickets -> ResolvedOrder \cup {NoTicket}],
         NEW st \in [Orders -> Statuses], StatusOK(tk, st),
         NEW t \in Tickets, NEW r, st[Entry(t)] = "none"
  PROVE  /\ StatusOK([tk EXCEPT ![t] = r], InsertIn(st, t, r))
         /\ InsertIn(st, t, r)[Entry(t)] = "new"
<1> DEFINE new == InsertIn(st, t, r)
<1>1. /\ new \in [Orders -> Statuses]
      /\ new[Entry(t)] = "new"
  <2>1. Entry(t) \in Orders /\ Entry(t)[1] = t /\ Entry(t)[2] = "entry"
    BY EntryShape DEF Entry
  <2>2. "entry" \in LegsOf(r)
    BY DEF LegsOf
  <2>3. QED
    BY <2>1, <2>2, InsertInStatuses DEF InsertIn, IsEntry
<1>2. ASSUME NEW o \in Orders, o[1] # t
      PROVE  new[o] = st[o] /\ new[Entry(o[1])] = st[Entry(o[1])]
  BY <1>2, OrderShape, EntryShape DEF InsertIn
<1>3. ASSUME NEW o \in Orders, o[1] = t, ~IsEntry(o)
      PROVE  st[o] = "none" /\ new[o] = IF o[2] \in LegsOf(r) THEN "held" ELSE "none"
  <2>1. st[o] = "none"
    BY <1>3, ExitAndEntry
  <2>2. QED
    BY <1>3, <2>1 DEF InsertIn
<1>4. EntriesNotHeld(new)
  BY <1>1, <1>2, EntryShape DEF StatusOK, EntriesNotHeld
<1>5. Follows(new)
  BY <1>1, <1>2, <1>3 DEF StatusOK, Follows
<1>6. Pairs([tk EXCEPT ![t] = r], new)
  <2> SUFFICES ASSUME NEW o \in Orders, NEW s \in SiblingsIn([tk EXCEPT ![t] = r][o[1]], o)
               PROVE  /\ new[o] \in Working <=> new[s] \in Working
                      /\ ~(new[o] = "filled" /\ new[s] = "filled")
    BY DEF Pairs
  <2>1. /\ s \in Orders /\ s[1] = o[1] /\ ~IsEntry(o) /\ ~IsEntry(s)
        /\ o[1] = t => o[2] \in LegsOf(r) /\ s[2] \in LegsOf(r)
        /\ o[1] # t => s \in SiblingsIn(tk[o[1]], o)
    BY SiblingIsOtherExit, OrderShape
  <2>2. CASE o[1] = t
    BY <1>3, <2>1, <2>2 DEF Working
  <2>3. CASE o[1] # t
    BY <1>2, <2>1, <2>3 DEF StatusOK, Pairs
  <2>4. QED
    BY <2>2, <2>3
<1>7. QED
  BY <1>1, <1>4, <1>5, <1>6 DEF StatusOK

\* An entry that fills as it is submitted.
LEMMA EntryFillKeeps ==
  ASSUME NEW tk, NEW st \in [Orders -> Statuses], StatusOK(tk, st),
         NEW t \in Tickets, st[Entry(t)] = "new"
  PROVE  StatusOK(tk, FillIn(st, {Entry(t)}))
<1> DEFINE new == FillIn(st, {Entry(t)})
<1>1. OcoSiblings(Entry(t)) = {}
  BY EntryShape DEF OcoSiblings, SiblingsIn
<1>2. ASSUME NEW o \in Orders
      PROVE  new[o] = IF o = Entry(t) THEN "filled"
                      ELSE IF o[1] = t /\ st[o] = "held" THEN "new" ELSE st[o]
  <2>1. Entry(o[1]) = Entry(t) <=> o[1] = t
    BY DEF Entry
  <2>2. o \notin UNION {OcoSiblings(f) : f \in {Entry(t)}}
    BY <1>1
  <2>3. QED
    BY <2>1, <2>2 DEF FillIn, CancelIn
<1>3. EntriesNotHeld(new)
  BY <1>2, EntryShape DEF StatusOK, EntriesNotHeld
<1>4. Follows(new)
  <2> SUFFICES ASSUME NEW o \in Orders, ~IsEntry(o)
               PROVE  /\ new[Entry(o[1])] = "none" => new[o] = "none"
                      /\ new[Entry(o[1])] = "new" => new[o] \in {"none", "held", "canceled"}
                      /\ new[Entry(o[1])] = "filled" => new[o] \in {"none", "new", "filled", "canceled"}
                      /\ new[Entry(o[1])] = "canceled" => new[o] \in {"none", "canceled"}
    BY DEF Follows
  <2>1. /\ o # Entry(t) /\ Entry(o[1]) \in Orders /\ ~(st[Entry(o[1])] = "held")
        /\ o[1] # t => Entry(o[1]) # Entry(t)
        /\ o[1] = t => Entry(o[1]) = Entry(t)
    BY ExitAndEntry, OrderShape, EntryShape DEF Entry
  <2>2. CASE o[1] = t
    BY <1>2, <2>1, <2>2, ExitAndEntry
  <2>3. CASE o[1] # t
    BY <1>2, <2>1, <2>3, ExitAndEntry
  <2>4. QED
    BY <2>2, <2>3
<1>5. Pairs(tk, new)
  <2> SUFFICES ASSUME NEW o \in Orders, NEW s \in SiblingsIn(tk[o[1]], o)
               PROVE  /\ new[o] \in Working <=> new[s] \in Working
                      /\ ~(new[o] = "filled" /\ new[s] = "filled")
    BY DEF Pairs
  <2>1. /\ s \in Orders /\ s[1] = o[1] /\ o # Entry(t) /\ s # Entry(t)
    BY SiblingIsOtherExit, EntryShape
  <2>2. /\ st[o] \in Working <=> st[s] \in Working
        /\ ~(st[o] = "filled" /\ st[s] = "filled")
    BY DEF StatusOK, Pairs
  <2>3. /\ new[o] = IF o[1] = t /\ st[o] = "held" THEN "new" ELSE st[o]
        /\ new[s] = IF s[1] = t /\ st[s] = "held" THEN "new" ELSE st[s]
    BY <1>2, <2>1
  <2>4. QED
    BY <2>1, <2>2, <2>3 DEF Working
<1>6. QED
  BY <1>3, <1>4, <1>5 DEF StatusOK

-----------------------------------------------------------------------------
(* The inductive invariant.                                                *)

LEMMA BookInvStep ==
  ASSUME BookInv, [BookNext]_bookVars
  PROVE  BookInv'
<1> DEFINE OK == StatusOK(ticket, status)
<1>0. OK /\ BookTypeOK /\ BookTypeOK'
  BY BookTypeStep, FollowsIsExitsFollowEntry, PairsIsOco DEF BookInv, StatusOK
<1> SUFFICES StatusOK(ticket', status')
  BY <1>0, FollowsIsExitsFollowEntryNext, PairsIsOco DEF BookInv, StatusOK, EntriesNotHeld
<1> USE <1>0 DEF BookTypeOK
<1>1. ASSUME NEW t \in Tickets, NEW r \in Submissions, NEW p \in Prices \cup {None},
             SubmitResting(t, r, p)
      PROVE  StatusOK(ticket', status')
  BY <1>1, InsertKeeps DEF SubmitResting, Insert
<1>2. ASSUME NEW t \in Tickets, NEW r \in Submissions, NEW p \in Prices \cup {None},
             SubmitFilled(t, r, p)
      PROVE  StatusOK(ticket', status')
  BY <1>2, InsertKeeps, InsertInStatuses, EntryFillKeeps DEF SubmitFilled, Insert
<1>3. ASSUME NEW p \in Prices, NEW F \in FillSets(p), CheckFills(p, F)
      PROVE  StatusOK(ticket', status')
  <2>1. /\ F \in SUBSET {o \in Orders : status[o] = "new"}
        /\ \A o \in F : OcoSiblings(o) \cap F = {}
    BY DEF FillSets
  <2>2. QED
    BY <1>3, <2>1, FillKeeps DEF CheckFills
<1>4. ASSUME NEW o \in Orders, Cancel(o)
      PROVE  StatusOK(ticket', status')
  <2> DEFINE S == {o} \cup OcoSiblings(o) \cup Children(o)
  <2>1. S \subseteq Orders /\ \A x \in S : Children(x) \subseteq S /\ OcoSiblings(x) \subseteq S
    <3>1. CASE IsEntry(o)
      <4>1. o = Entry(o[1]) /\ OcoSiblings(o) = {} /\ o[1] \in Tickets
        BY <3>1, OrderShape DEF OcoSiblings, SiblingsIn
      <4>2. \A x \in Children(o) : x \in Orders /\ x[1] = o[1] /\ ~IsEntry(x)
        BY <4>1, ChildrenOfEntry
      <4>3. \A x \in Orders : \A y \in OcoSiblings(x) : y \in Orders /\ y[1] = x[1] /\ ~IsEntry(y)
        BY SiblingIsOtherExit DEF OcoSiblings
      <4>4. \A x \in Orders : x[1] = o[1] /\ ~IsEntry(x) => x \in Children(o)
        BY <4>1, ChildrenOfEntry
      <4>5. \A x : ~IsEntry(x) => Children(x) = {}
        BY DEF Children
      <4>6. QED
        BY <4>1, <4>2, <4>3, <4>4, <4>5
    <3>2. CASE ~IsEntry(o)
      <4>1. Children(o) = {}
        BY <3>2 DEF Children
      <4>2. \A y \in OcoSiblings(o) : /\ y \in Orders /\ ~IsEntry(y) /\ Children(y) = {}
                                      /\ OcoSiblings(y) = {o}
        BY SiblingIsOtherExit DEF OcoSiblings, Children
      <4>3. QED
        BY <4>1, <4>2
    <3>3. QED
      BY <3>1, <3>2
  <2>2. QED
    BY <1>4, <2>1, CancelKeeps DEF Cancel
<1>5. ASSUME NEW o \in Orders, NEW x \in Prices, NEW p \in Prices \cup {None},
             ReplaceStop(o, x, p) \/ ReplaceTarget(o, x, p) \/ ReplaceLimit(o, x)
      PROVE  StatusOK(ticket', status')
  BY <1>5 DEF ReplaceStop, ReplaceTarget, ReplaceLimit
<1>6. ASSUME NEW t \in Tickets, NEW s \in Sides, NEW q \in Shares, NEW p \in Prices,
             ClosePosition(t, s, q, p)
      PROVE  StatusOK(ticket', status')
  <2> DEFINE st == CancelIn(status, WorkingOrders)
  <2>1. st = CancelIn(status, Orders)
    BY DEF CancelIn, WorkingOrders
  <2>2. \A o \in Orders : Children(o) \subseteq Orders /\ OcoSiblings(o) \subseteq Orders
    BY OrderShape, ChildrenOfEntry, SiblingIsOtherExit DEF OcoSiblings, Children
  <2>3. StatusOK(ticket, st) /\ st \in [Orders -> Statuses]
    BY <2>1, <2>2, CancelKeeps, CancelInStatuses
  <2>4. st[Entry(t)] = "none"
    BY <1>6, EntryShape DEF ClosePosition, Insert, CancelIn, Working
  <2> DEFINE r == MarketOrder(s, q)
             inserted == InsertIn(st, t, r)
  <2>5. StatusOK([ticket EXCEPT ![t] = r], inserted) /\ inserted[Entry(t)] = "new"
    BY <2>3, <2>4, InsertKeeps
  <2>6. inserted \in [Orders -> Statuses]
    BY <2>3, InsertInStatuses
  <2>7. StatusOK([ticket EXCEPT ![t] = r], FillIn(inserted, {Entry(t)}))
    BY <2>5, <2>6, EntryFillKeeps
  <2>8. QED
    BY <1>6, <2>7 DEF ClosePosition, Insert
<1>7. ASSUME Reset
      PROVE  StatusOK(ticket', status')
  <2>1. \A o \in Orders : status'[o] = "none"
    BY <1>7 DEF Reset
  <2>2. \A tk, o : \A s \in SiblingsIn(tk, o) : o \in Orders => s \in Orders
    BY SiblingIsOtherExit
  <2>3. QED
    BY <2>1, <2>2, EntryShape, OrderShape DEF StatusOK, EntriesNotHeld, Follows, Pairs, Working
<1>8. ASSUME UNCHANGED bookVars
      PROVE  StatusOK(ticket', status')
  BY <1>8 DEF bookVars
<1>9. QED
  BY <1>1, <1>2, <1>3, <1>4, <1>5, <1>6, <1>7, <1>8 DEF BookNext

LEMMA BookInvInit == BookInit => BookInv
<1> SUFFICES ASSUME BookInit PROVE BookInv
  OBVIOUS
<1>1. BookTypeOK
  BY DEF BookInit, BookTypeOK, Statuses
<1>2. \A o \in Orders : status[o] = "none"
  BY DEF BookInit
<1>3. EntriesNotHeld(status)
  BY <1>2, EntryShape DEF EntriesNotHeld
<1>4. ExitsFollowEntry
  BY <1>2, EntryShape, ChildrenOfEntry DEF ExitsFollowEntry
<1>5. OcoPairStandsTogether
  BY <1>2, SiblingIsOtherExit DEF OcoPairStandsTogether, OcoSiblings, Working
<1>6. QED
  BY <1>1, <1>3, <1>4, <1>5 DEF BookInv

LEMMA BookInvariant == BookSpec => []BookInv
BY BookInvInit, BookInvStep, PTL DEF BookSpec

-----------------------------------------------------------------------------
(* What a step may do to a filled or canceled row.                         *)

\* No status operator fills an order it was not asked to fill, or revives one.
LEMMA FinalStatuses ==
  ASSUME NEW st \in [Orders -> Statuses], NEW o \in Orders
  PROVE  /\ \A S : /\ CancelIn(st, S)[o] = "filled" => st[o] = "filled"
                   /\ st[o] \in {"filled", "canceled"} => CancelIn(st, S)[o] = st[o]
         /\ \A F : /\ FillIn(st, F)[o] = "filled" => o \in F \/ st[o] = "filled"
                   /\ o \notin F /\ st[o] \in {"filled", "canceled"} => FillIn(st, F)[o] = st[o]
         /\ \A t, r : o[1] # t => InsertIn(st, t, r)[o] = st[o]
<1>1. \A S : CancelIn(st, S)[o] = IF o \in S /\ st[o] \in Working THEN "canceled" ELSE st[o]
  BY DEF CancelIn
<1>2. \A F : FillIn(st, F)[o] = IF o \in F THEN "filled"
                                ELSE IF st[o] = "held" /\ Entry(o[1]) \in F THEN "new"
                                ELSE CancelIn(st, UNION {OcoSiblings(f) : f \in F})[o]
  BY DEF FillIn
<1>3. \A t, r : o[1] # t => InsertIn(st, t, r)[o] = st[o]
  BY DEF InsertIn
<1>4. QED
  BY <1>1, <1>2, <1>3 DEF Working

\* A ticket that is not taken has no rows.
LEMMA FreshTicketHasNoRows ==
  ASSUME BookInv, NEW o \in Orders, status[Entry(o[1])] = "none"
  PROVE  status[o] = "none"
BY FollowsIsExitsFollowEntry, OrderShape DEF BookInv, Follows

FinalRowsKept ==
  \A o \in Orders : status[o] \in {"filled", "canceled"} =>
    /\ status'[o] = status[o] /\ fillPrice'[o] = fillPrice[o]
    /\ limit'[o] = limit[o] /\ stop'[o] = stop[o] /\ ticket'[o[1]] = ticket[o[1]]

LEMMA InsertKeepsFinalRows ==
  ASSUME BookInv, NEW t \in Tickets, NEW r, Insert(t, r),
         NEW o \in Orders, status[o] \in {"filled", "canceled"}
  PROVE  /\ o[1] # t
         /\ limit'[o] = limit[o] /\ stop'[o] = stop[o] /\ ticket'[o[1]] = ticket[o[1]]
<1>1. o[1] # t
  BY FreshTicketHasNoRows DEF Insert
<1>2. QED
  BY <1>1, OrderShape DEF Insert, BookInv, BookTypeOK

LEMMA FinalRowsStep ==
  ASSUME BookInv, BookNext, ~Reset
  PROVE  FinalRowsKept
<1> SUFFICES ASSUME NEW o \in Orders, status[o] \in {"filled", "canceled"}
             PROVE  /\ status'[o] = status[o] /\ fillPrice'[o] = fillPrice[o]
                    /\ limit'[o] = limit[o] /\ stop'[o] = stop[o] /\ ticket'[o[1]] = ticket[o[1]]
  BY DEF FinalRowsKept
<1> DEFINE Kept == /\ status'[o] = status[o] /\ fillPrice'[o] = fillPrice[o]
                   /\ limit'[o] = limit[o] /\ stop'[o] = stop[o]
                   /\ ticket'[o[1]] = ticket[o[1]]
<1>0. status \in [Orders -> Statuses] /\ fillPrice \in [Orders -> Prices \cup {None}]
      /\ limit \in [Orders -> Prices \cup {None}] /\ stop \in [Orders -> Prices \cup {None}]
  BY DEF BookInv, BookTypeOK
<1>1. ASSUME NEW t \in Tickets, NEW r \in Submissions, NEW p \in Prices \cup {None},
             SubmitResting(t, r, p)
      PROVE  Kept
  BY <1>0, <1>1, InsertKeepsFinalRows, FinalStatuses DEF SubmitResting
<1>2. ASSUME NEW t \in Tickets, NEW r \in Submissions, NEW p \in Prices \cup {None},
             SubmitFilled(t, r, p)
      PROVE  Kept
  <2>1. o[1] # t /\ o # Entry(t)
    BY <1>2, InsertKeepsFinalRows DEF SubmitFilled, Entry
  <2>2. InsertIn(status, t, r) \in [Orders -> Statuses] /\ InsertIn(status, t, r)[o] = status[o]
    BY <1>0, <2>1, InsertInStatuses, FinalStatuses
  <2>3. FillIn(InsertIn(status, t, r), {Entry(t)})[o] = status[o]
    BY <2>1, <2>2, FinalStatuses
  <2>4. QED
    BY <1>0, <1>2, <2>1, <2>3, InsertKeepsFinalRows DEF SubmitFilled
<1>3. ASSUME NEW p \in Prices, NEW F \in FillSets(p), CheckFills(p, F)
      PROVE  Kept
  <2>1. o \notin F
    BY DEF FillSets
  <2>2. QED
    BY <1>0, <1>3, <2>1, FinalStatuses DEF CheckFills
<1>4. ASSUME NEW x \in Orders, Cancel(x)
      PROVE  Kept
  BY <1>0, <1>4, FinalStatuses DEF Cancel
<1>5. ASSUME NEW x \in Orders, NEW y \in Prices, NEW p \in Prices \cup {None},
             ReplaceStop(x, y, p) \/ ReplaceTarget(x, y, p) \/ ReplaceLimit(x, y)
      PROVE  Kept
  <2>1. x # o
    BY <1>5 DEF ReplaceStop, ReplaceTarget, ReplaceLimit, Working
  <2>2. QED
    BY <1>0, <1>5, <2>1 DEF ReplaceStop, ReplaceTarget, ReplaceLimit
<1>6. ASSUME NEW t \in Tickets, NEW s \in Sides, NEW q \in Shares, NEW p \in Prices,
             ClosePosition(t, s, q, p)
      PROVE  Kept
  <2> DEFINE st == CancelIn(status, WorkingOrders)
             inserted == InsertIn(st, t, MarketOrder(s, q))
  <2>1. o[1] # t /\ o # Entry(t)
    BY <1>6, InsertKeepsFinalRows DEF ClosePosition, Entry
  <2>2. st \in [Orders -> Statuses] /\ st[o] = status[o]
    BY <1>0, CancelInStatuses, FinalStatuses
  <2>3. inserted \in [Orders -> Statuses] /\ inserted[o] = status[o]
    BY <2>1, <2>2, InsertInStatuses, FinalStatuses
  <2>4. FillIn(inserted, {Entry(t)})[o] = status[o]
    BY <2>1, <2>3, FinalStatuses
  <2>5. QED
    BY <1>0, <1>6, <2>1, <2>4, InsertKeepsFinalRows DEF ClosePosition
<1>7. QED
  BY <1>1, <1>2, <1>3, <1>4, <1>5, <1>6 DEF BookNext

-----------------------------------------------------------------------------
(* Fill prices.                                                            *)

WithinLimit(o) ==
  Type(o) \in {"limit", "stop_limit"} =>
    IF Side(o) = "buy" THEN fillPrice[o] <= limit[o] ELSE fillPrice[o] >= limit[o]

LEMMA PricesAreNumbers == \A p \in Prices \cup {None} : p \in Nat
<1>1. None \in Nat
  BY DEF None
<1>2. \A p \in Prices : p \in Nat
  BY PricesAssumption
<1>3. QED
  BY <1>1, <1>2

LEMMA NeverWorseStep ==
  ASSUME BookInv, NeverWorseThanLimit, [BookNext]_bookVars
  PROVE  NeverWorseThanLimit'
<1> SUFFICES ASSUME NEW o \in Orders, status'[o] = "filled"
             PROVE  WithinLimit(o)'
  BY DEF NeverWorseThanLimit, WithinLimit
<1>0. /\ status \in [Orders -> Statuses] /\ fillPrice \in [Orders -> Prices \cup {None}]
      /\ limit \in [Orders -> Prices \cup {None}]
  BY DEF BookInv, BookTypeOK
\* A row that was filled before the step is as it was.
<1>1. ASSUME status[o] = "filled", ~Reset
      PROVE  WithinLimit(o)'
  <2>1. WithinLimit(o)
    BY <1>1 DEF NeverWorseThanLimit, WithinLimit
  <2>2. limit'[o] = limit[o] /\ fillPrice'[o] = fillPrice[o] /\ ticket'[o[1]] = ticket[o[1]]
    BY <1>1, FinalRowsStep DEF FinalRowsKept, bookVars
  <2>3. QED
    BY <2>1, <2>2 DEF WithinLimit, Type, Side
<1>2. ASSUME NEW t \in Tickets, NEW r \in Submissions, NEW p \in Prices \cup {None},
             SubmitResting(t, r, p), status[o] # "filled"
      PROVE  WithinLimit(o)'
  BY <1>0, <1>2 DEF SubmitResting, InsertIn
<1>3. ASSUME NEW t \in Tickets, NEW r \in Submissions, NEW p \in Prices \cup {None},
             SubmitFilled(t, r, p), status[o] # "filled"
      PROVE  WithinLimit(o)'
  <2>1. InsertIn(status, t, r)[o] # "filled" /\ InsertIn(status, t, r) \in [Orders -> Statuses]
    BY <1>0, <1>3, InsertInStatuses DEF InsertIn
  <2>2. o = Entry(t)
    BY <1>3, <2>1, FinalStatuses DEF SubmitFilled
  <2>3. /\ ticket'[t] = r /\ limit'[o] = r.limit /\ fillPrice'[o] = p
        /\ Type(o)' = r.type /\ Side(o)' = r.side
    BY <1>0, <1>3, <2>2, EntryShape
       DEF SubmitFilled, Insert, LegLimit, Entry, Type, Side, IsEntry, BookInv, BookTypeOK
  <2>4. CASE r.type = "market"
    BY <2>3, <2>4 DEF WithinLimit
  <2>5. CASE r.type # "market"
    <3>1. p \in Nat /\ r.limit \in Nat
      <4>1. r \in ResolvedOrder
        BY SubmissionsAssumption
      <4>2. r.limit \in Prices \cup {None}
        BY <4>1 DEF ResolvedOrder
      <4>3. QED
        BY <4>2, PricesAreNumbers
    <3>2. IF r.side = "buy" THEN r.limit >= p ELSE r.limit <= p
      BY <1>3, <2>5 DEF SubmitFilled, FillsNow, Marketable
    <3>3. QED
      BY <2>3, <3>1, <3>2 DEF WithinLimit
  <2>6. QED
    BY <2>4, <2>5
<1>4. ASSUME NEW p \in Prices, NEW F \in FillSets(p), CheckFills(p, F), status[o] # "filled"
      PROVE  WithinLimit(o)'
  <2>1. o \in F
    BY <1>0, <1>4, FinalStatuses DEF CheckFills
  <2>2. fillPrice'[o] = TriggerPrice(o) /\ limit' = limit /\ ticket' = ticket
    BY <1>4, <2>1 DEF CheckFills
  <2>3. Type(o)' = Type(o) /\ Side(o)' = Side(o)
    BY <2>2 DEF Type, Side
  <2>4. limit[o] \in Nat
    BY <1>0, PricesAreNumbers
  <2>5. Type(o) \in {"limit", "stop_limit"} => fillPrice'[o] = limit'[o] /\ limit'[o] \in Nat
    BY <2>2, <2>4 DEF TriggerPrice
  <2>6. QED
    BY <2>3, <2>5 DEF WithinLimit
<1>5. ASSUME NEW x \in Orders, Cancel(x), status[o] # "filled"
      PROVE  WithinLimit(o)'
  BY <1>0, <1>5, FinalStatuses DEF Cancel
<1>6. ASSUME NEW x \in Orders, NEW y \in Prices, NEW p \in Prices \cup {None},
             ReplaceStop(x, y, p) \/ ReplaceTarget(x, y, p) \/ ReplaceLimit(x, y),
             status[o] # "filled"
      PROVE  WithinLimit(o)'
  BY <1>6 DEF ReplaceStop, ReplaceTarget, ReplaceLimit
<1>7. ASSUME NEW t \in Tickets, NEW s \in Sides, NEW q \in Shares, NEW p \in Prices,
             ClosePosition(t, s, q, p), status[o] # "filled"
      PROVE  WithinLimit(o)'
  <2> DEFINE st == CancelIn(status, WorkingOrders)
             r == MarketOrder(s, q)
  <2>1. st \in [Orders -> Statuses] /\ st[o] # "filled"
    BY <1>0, <1>7, CancelInStatuses, FinalStatuses
  <2>2. InsertIn(st, t, r) \in [Orders -> Statuses] /\ InsertIn(st, t, r)[o] # "filled"
    BY <2>1, InsertInStatuses DEF InsertIn
  <2>3. o = Entry(t)
    BY <1>7, <2>2, FinalStatuses DEF ClosePosition
  <2>4. r.type = "market"
    BY DEF MarketOrder, NoTicket
  <2>5. Type(o)' = r.type
    BY <1>7, <2>3, EntryShape DEF ClosePosition, Insert, Entry, Type, IsEntry, BookInv, BookTypeOK
  <2>6. QED
    BY <2>4, <2>5 DEF WithinLimit
<1>8. ~Reset
  BY DEF Reset
<1>9. CASE UNCHANGED bookVars
  BY <1>1, <1>8, <1>9 DEF bookVars
<1>10. CASE BookNext
  BY <1>1, <1>2, <1>3, <1>4, <1>5, <1>6, <1>7, <1>8, <1>10 DEF BookNext
<1>11. QED
  BY <1>9, <1>10

-----------------------------------------------------------------------------
(* The theorems.                                                           *)

\* The exits of a ticket are held while its entry works, live once it has
\* filled and gone once it is canceled.
THEOREM ExitsAlwaysFollowEntry == BookSpec => []ExitsFollowEntry
BY BookInvariant, PTL DEF BookInv

\* Of the two exits of an OCO group never more than one fills, and both stop
\* working together.
THEOREM OcoPairsAlwaysStandTogether == BookSpec => []OcoPairStandsTogether
BY BookInvariant, PTL DEF BookInv

\* Short of a reset, a filled or canceled order's row is never written again.
THEOREM FinalOrdersAlwaysStay == BookSpec => FinalOrdersStay
<1>1. ASSUME BookInv, [BookNext]_bookVars
      PROVE  [ (\E o \in Orders : status'[o] # "none") =>
                 \A o \in Orders : status[o] \in {"filled", "canceled"} =>
                   /\ status'[o] = status[o] /\ fillPrice'[o] = fillPrice[o]
                   /\ limit'[o] = limit[o] /\ stop'[o] = stop[o] ]_bookVars
  <2>1. CASE Reset
    BY <2>1 DEF Reset
  <2>2. CASE BookNext /\ ~Reset
    BY <1>1, <2>2, FinalRowsStep DEF FinalRowsKept
  <2>3. CASE UNCHANGED bookVars
    BY <2>3
  <2>4. QED
    BY <1>1, <2>1, <2>2, <2>3
<1>2. QED
  BY <1>1, BookInvariant, PTL DEF BookSpec, FinalOrdersStay

\* No order fills at a price worse than its limit.
THEOREM NeverFilledWorseThanLimit == BookSpec => []NeverWorseThanLimit
<1>1. BookInit => NeverWorseThanLimit
  BY DEF BookInit, NeverWorseThanLimit
<1>2. QED
  BY <1>1, NeverWorseStep, BookInvariant, PTL DEF BookSpec

-----------------------------------------------------------------------------
(* The broker with its account.                                            *)


\* Buying power and the position decide which orders the broker takes; what it
\* takes, it writes as the order table does.
LEMMA BrokerStepIsBookStep ==
  ASSUME MaxSharesAssumption, [Next]_vars, account.shares \in -MaxShares..MaxShares
  PROVE  [BookNext]_bookVars
<1>1. ASSUME NEW t \in Tickets, NEW r \in Submissions, NEW p \in Prices \cup {None},
             Submit(t, r, p)
      PROVE  BookNext
  BY <1>1 DEF Submit, BookNext
<1>2. ASSUME NEW p \in Prices, NEW F \in FillSets(p), Poll(p, F)
      PROVE  BookNext
  BY <1>2 DEF Poll, BookNext
<1>3. ASSUME NEW o \in Orders, CancelOrder(o)
      PROVE  BookNext
  BY <1>3 DEF CancelOrder, BookNext
<1>4. ASSUME NEW o \in Orders, NEW x \in Prices, NEW p \in Prices \cup {None},
             ReplacePrice(o, x, p)
      PROVE  BookNext
  BY <1>4 DEF ReplacePrice, BookNext
<1>5. ASSUME NEW t \in Tickets, NEW q \in Shares, NEW p \in Prices, Close(t, q, p)
      PROVE  BookNext
  <2> DEFINE held == Magnitude(account.shares)
             side == IF account.shares > 0 THEN "sell" ELSE "buy"
             closing == IF q >= held THEN held ELSE q
  <2>1. ClosePosition(t, side, closing, p) /\ account.shares # 0
    BY <1>5 DEF Close
  <2>2. side \in Sides
    BY DEF Sides
  <2>3. held \in Shares
    BY <2>1 DEF Magnitude, Shares
  <2>4. closing \in Shares
    BY <2>3 DEF Shares
  <2>5. QED
    BY <2>1, <2>2, <2>4 DEF BookNext
<1>6. ASSUME ResetAccount
      PROVE  BookNext
  BY <1>6 DEF ResetAccount, BookNext
<1>7. ASSUME UNCHANGED vars
      PROVE  UNCHANGED bookVars
  BY <1>7 DEF vars
<1>8. QED
  BY <1>1, <1>2, <1>3, <1>4, <1>5, <1>6, <1>7 DEF Next

SharesBounded == account.shares \in -MaxShares..MaxShares

\* A close only shrinks the position; every other fill is held to the bound.
LEMMA SharesStep ==
  ASSUME MaxSharesAssumption, [Next]_vars, SharesBounded
  PROVE  SharesBounded'
<1> USE DEF SharesBounded
<1>1. ASSUME NEW t \in Tickets, NEW r \in Submissions, NEW p \in Prices \cup {None},
             Submit(t, r, p)
      PROVE  SharesBounded'
  BY <1>1 DEF Submit, Bounded
<1>2. ASSUME NEW p \in Prices, NEW F \in FillSets(p), Poll(p, F)
      PROVE  SharesBounded'
  BY <1>2 DEF Poll, Bounded
<1>3. ASSUME NEW t \in Tickets, NEW q \in Shares, NEW p \in Prices, Close(t, q, p)
      PROVE  SharesBounded'
  <2> DEFINE held == Magnitude(account.shares)
             side == IF account.shares > 0 THEN "sell" ELSE "buy"
             closing == IF q >= held THEN held ELSE q
  <2>1. account.shares # 0 /\ account' = ApplyFill(account, Entry(t), SignedQty(side, closing), p)
    BY <1>3 DEF Close
  <2>2. account'.shares = account.shares + SignedQty(side, closing)
    BY <2>1 DEF ApplyFill
  <2>3. account.shares \in Int /\ q \in Int /\ q > 0
    BY DEF Shares
  <2>4. CASE account.shares > 0
    <3>1. closing \in 1..account.shares
      BY <2>3, <2>4 DEF Magnitude
    <3>2. account'.shares = account.shares - closing
      BY <2>2, <2>4, <3>1 DEF SignedQty
    <3>3. QED
      BY <3>1, <3>2
  <2>5. CASE account.shares < 0
    <3>1. closing \in 1..(-account.shares)
      BY <2>3, <2>5 DEF Magnitude
    <3>2. account'.shares = account.shares + closing
      BY <2>2, <2>5, <3>1 DEF SignedQty
    <3>3. QED
      BY <3>1, <3>2
  <2>6. QED
    BY <2>1, <2>3, <2>4, <2>5
<1>4. ASSUME NEW o \in Orders, CancelOrder(o)
      PROVE  SharesBounded'
  BY <1>4 DEF CancelOrder
<1>5. ASSUME NEW o \in Orders, NEW x \in Prices, NEW p \in Prices \cup {None},
             ReplacePrice(o, x, p)
      PROVE  SharesBounded'
  BY <1>5 DEF ReplacePrice
<1>6. ASSUME ResetAccount
      PROVE  SharesBounded'
  BY <1>6 DEF ResetAccount, EmptyAccount
<1>7. ASSUME UNCHANGED vars
      PROVE  SharesBounded'
  BY <1>7 DEF vars
<1>8. QED
  BY <1>1, <1>2, <1>3, <1>4, <1>5, <1>6, <1>7 DEF Next

\* The position never grows past the largest one the model admits: a close
\* never turns a position around, whatever quantity it asks for
\* (close_position caps the quantity at what is held).
THEOREM SharesStayBounded == Spec => []SharesBounded
<1>1. Init => SharesBounded
  BY MaxSharesAssumption DEF Init, EmptyAccount, SharesBounded
<1>2. SharesBounded /\ [Next]_vars => SharesBounded'
  BY MaxSharesAssumption, SharesStep
<1>3. QED
  BY <1>1, <1>2, PTL DEF Spec

\* SimBroker implements the order table: deciding what may be submitted on
\* buying power, and closing by the position, adds no way of writing a row.
THEOREM BrokerImplementsBook == Spec => BookSpec
<1>1. Init => BookInit
  BY DEF Init
<1>2. SharesBounded /\ [Next]_vars => [BookNext]_bookVars
  BY MaxSharesAssumption, BrokerStepIsBookStep DEF SharesBounded
<1>3. QED
  BY <1>1, <1>2, SharesStayBounded, PTL DEF Spec, BookSpec

\* The exits of a ticket follow its entry in every state of the broker.
THEOREM BrokerExitsFollowEntry == Spec => []ExitsFollowEntry
BY BrokerImplementsBook, ExitsAlwaysFollowEntry, PTL

\* The two exits of a group stand and fall together in every state of the broker.
THEOREM BrokerOcoPairs == Spec => []OcoPairStandsTogether
BY BrokerImplementsBook, OcoPairsAlwaysStandTogether, PTL

\* No order of the broker is filled at a price worse than its limit.
THEOREM BrokerNeverWorseThanLimit == Spec => []NeverWorseThanLimit
BY BrokerImplementsBook, NeverFilledWorseThanLimit, PTL

\* Short of a reset, no step of the broker touches a filled or canceled row.
THEOREM BrokerFinalOrdersStay == Spec => FinalOrdersStay
BY BrokerImplementsBook, FinalOrdersAlwaysStay, PTL

-----------------------------------------------------------------------------
(***************************************************************************)
(* The account and the fills.  The position and the cash are sums over the *)
(* filled orders, which the code never forms: it moves both fill by fill.  *)
(* AccountInv says that the account is what the fills make (Tallied), with *)
(* the order table in order, since a ticket is fresh only when none of its *)
(* rows is filled, and finite.  One pass of the fill loop is a fold of its *)
(* own: PassTallies follows it row by row.                                 *)
(***************************************************************************)

\* The account a is what the fills of S make, q being the shares each of them
\* brought and v what it paid.
Tallied(a, q, v, S) ==
  /\ a \in [shares : Int, opener : Orders \cup {NoOrder}, trades : SUBSET Orders, cash : Int]
  /\ a.shares = SumFunctionOnSet(q, S)
  /\ a.cash = StartingCash - SumFunctionOnSet(v, S)
  /\ a.trades \subseteq S
  /\ a.opener = NoOrder <=> a.shares = 0
  /\ a.opener # NoOrder => a.opener \in S \ a.trades

\* One more fill, of an order that had none, keeps the account what its fills
\* make.
LEMMA OneFillTallies ==
  ASSUME NEW q, NEW v, \A x \in Orders : q[x] \in Int /\ v[x] \in Int,
         NEW S \in SUBSET Orders, IsFiniteSet(S), NEW o \in Orders \ S,
         NEW a, Tallied(a, q, v, S), NEW price \in Int, v[o] = q[o] * price
  PROVE  Tallied(ApplyFill(a, o, q[o], price), q, v, S \cup {o})
<1> DEFINE b == ApplyFill(a, o, q[o], price)
           after == a.shares + q[o]
           ended == a.shares # 0 /\ (after = 0 \/ OppositeSigns(a.shares, after))
           T == S \cup {o}
<1>1. /\ a.shares \in Int /\ a.cash \in Int /\ a.trades \in SUBSET Orders
      /\ a.opener \in Orders \cup {NoOrder} /\ q[o] \in Int /\ v[o] \in Int
      /\ NoOrder \notin Orders
  BY NoOrderAssumption DEF Tallied
<1>2. /\ b.shares = after
      /\ b.opener = IF after = 0 THEN NoOrder ELSE IF a.shares = 0 \/ ended THEN o ELSE a.opener
      /\ b.trades = IF ended THEN a.trades \cup {a.opener} ELSE a.trades
      /\ b.cash = a.cash - q[o] * price
      /\ b = [shares |-> b.shares, opener |-> b.opener, trades |-> b.trades, cash |-> b.cash]
  BY DEF ApplyFill
<1>3. /\ SumFunctionOnSet(q, T) = q[o] + SumFunctionOnSet(q, S)
      /\ SumFunctionOnSet(v, T) = v[o] + SumFunctionOnSet(v, S)
      /\ SumFunctionOnSet(q, S) \in Int /\ SumFunctionOnSet(v, S) \in Int
  <2>1. IsFiniteSet(T) /\ o \in T /\ T \ {o} = S /\ T \subseteq Orders
    BY FS_AddElement
  <2>2. \A x \in T : q[x] \in Int /\ v[x] \in Int
    BY <2>1
  <2>3. QED
    BY <2>1, <2>2, SumTakeOut, SumType
<1>4. ended => a.opener \in S \ a.trades
  BY DEF Tallied
<1> HIDE DEF b, T
<1>5. b.shares = SumFunctionOnSet(q, T) /\ b.cash = StartingCash - SumFunctionOnSet(v, T)
  <2>1. a.shares = SumFunctionOnSet(q, S) /\ a.cash = StartingCash - SumFunctionOnSet(v, S)
    BY DEF Tallied
  <2>2. StartingCash \in Int
    BY StartingCashAssumption
  <2>3. b.cash = a.cash - v[o]
    BY <1>2
  <2>4. QED
    BY <1>1, <1>2, <1>3, <2>1, <2>2, <2>3
<1>6. b.trades \subseteq T /\ b.trades \in SUBSET Orders
  <2>1. a.trades \subseteq S
    BY DEF Tallied
  <2>2. QED
    BY <1>2, <1>4, <2>1 DEF T
<1>7. b.opener \in Orders \cup {NoOrder} /\ b.shares \in Int /\ b.cash \in Int
  <2>1. b.shares \in Int
    BY <1>1, <1>2
  <2>2. b.cash \in Int
    BY <1>1, <1>2
  <2>3. QED
    BY <1>1, <1>2, <2>1, <2>2
<1>8. /\ b.opener = NoOrder <=> b.shares = 0
      /\ b.opener # NoOrder => b.opener \in T \ b.trades
  <2>1. a.trades \subseteq S /\ (a.opener = NoOrder <=> a.shares = 0)
        /\ (a.opener # NoOrder => a.opener \in S \ a.trades)
    BY DEF Tallied
  <2>2. CASE after = 0
    BY <1>2, <2>2
  <2>3. CASE after # 0 /\ (a.shares = 0 \/ ended)
    <3>1. b.opener = o /\ o # NoOrder
      BY <1>1, <1>2, <2>3
    <3>2. o \notin b.trades
      BY <1>2, <1>4, <2>1
    <3>3. QED
      BY <1>2, <2>3, <3>1, <3>2 DEF T
  <2>4. CASE after # 0 /\ ~(a.shares = 0 \/ ended)
    <3>1. b.opener = a.opener /\ b.trades = a.trades
      BY <1>2, <2>4
    <3>2. QED
      BY <1>2, <2>1, <2>4, <3>1 DEF T
  <2>5. QED
    BY <2>2, <2>3, <2>4
<1>9. QED
  BY <1>2, <1>5, <1>6, <1>7, <1>8, Zenon DEF Tallied, b, T

-----------------------------------------------------------------------------
(* One pass of the fill loop.                                              *)

\* g[s] is the account a after the fills of those rows whose index is in s, in
\* the order of their indices.
Runs(g, a, rows, D) ==
  g = [s \in SUBSET D |->
         IF s = {} THEN a ELSE ApplyOrder(g[s \ {Max(s)}], rows[Max(s)])]

\* What such a g is for some rows.
LEMMA RunsApply ==
  ASSUME NEW g, NEW a, NEW rows, NEW D, Runs(g, a, rows, D), NEW s \in SUBSET D
  PROVE  /\ s = {} => g[s] = a
         /\ s # {} => g[s] = ApplyOrder(g[s \ {Max(s)}], rows[Max(s)])
<1>1. g[s] = IF s = {} THEN a ELSE ApplyOrder(g[s \ {Max(s)}], rows[Max(s)])
  BY Zenon DEF Runs
<1>2. QED
  BY <1>1

\* Two such functions agree wherever both are defined.
LEMMA RunsAgree ==
  ASSUME NEW D, Numbers(D), IsFiniteSet(D), NEW E, D \subseteq E, NEW a, NEW rows, NEW g, NEW h,
         Runs(g, a, rows, D), Runs(h, a, rows, E)
  PROVE  \A s \in SUBSET D : g[s] = h[s]
<1> DEFINE X == {s \in SUBSET D : g[s] # h[s]}
<1>1. SUFFICES ASSUME X # {}
               PROVE  FALSE
  OBVIOUS
<1>2. PICK m \in X : \A y \in X : y \subseteq m => y = m
  <2>1. X \subseteq SUBSET D
    OBVIOUS
  <2> HIDE DEF X
  <2>2. QED
    BY <1>1, <2>1, SmallestSubset
<1>3. m # {} /\ m \in SUBSET D /\ m \in SUBSET E
  BY RunsApply
<1> DEFINE k == Max(m)
<1>4. k \in m
  <2>1. Numbers(m) /\ IsFiniteSet(m)
    BY <1>3, FS_Subset DEF Numbers
  <2>2. QED
    BY <1>3, <2>1, MaxIsIn
<1>5. g[m] = ApplyOrder(g[m \ {k}], rows[k]) /\ h[m] = ApplyOrder(h[m \ {k}], rows[k])
  BY <1>3, RunsApply
<1> HIDE DEF k
<1>6. m \ {k} \notin X /\ m \ {k} \in SUBSET D
  BY <1>2, <1>4
<1>7. g[m \ {k}] = h[m \ {k}]
  BY <1>6
<1>8. QED
  BY <1>5, <1>7

\* There is such a function for the rows of a pass.
LEMMA RunsExist ==
  ASSUME NEW D, Numbers(D), IsFiniteSet(D), NEW a, NEW rows
  PROVE  \E g : Runs(g, a, rows, D)
<1> DEFINE X == {T \in SUBSET D : ~ \E g : Runs(g, a, rows, T)}
<1>1. SUFFICES ASSUME X # {}
               PROVE  FALSE
  OBVIOUS
<1>2. PICK T \in X : \A y \in X : y \subseteq T => y = T
  <2>1. X \subseteq SUBSET D
    OBVIOUS
  <2> HIDE DEF X
  <2>2. QED
    BY <1>1, <2>1, SmallestSubset
<1> DEFINE h(s) == CHOOSE g : Runs(g, a, rows, s)
           rest(s) == s \ {Max(s)}
           F(s) == IF s = {} THEN a ELSE ApplyOrder(h(rest(s))[rest(s)], rows[Max(s)])
           G == [s \in SUBSET T |-> F(s)]
           K(s) == IF s = {} THEN a ELSE ApplyOrder(G[rest(s)], rows[Max(s)])
<1>3. ASSUME NEW s \in SUBSET T, s # T
      PROVE  Runs(h(s), a, rows, s)
  <2>1. s \in SUBSET D /\ s \notin X
    BY <1>2, <1>3
  <2>2. \E g : Runs(g, a, rows, s)
    BY <2>1
  <2>3. QED
    BY <2>2, Zenon
<1>4. ASSUME NEW s \in SUBSET T, s # {}
      PROVE  Max(s) \in s /\ rest(s) \in SUBSET T /\ rest(s) # T /\ IsFiniteSet(rest(s))
  <2>1. Numbers(s) /\ IsFiniteSet(s)
    <3>1. s \subseteq D
      OBVIOUS
    <3> HIDE DEF X
    <3>2. QED
      BY <3>1, FS_Subset DEF Numbers
  <2>2. Max(s) \in s
    BY <1>4, <2>1, MaxIsIn
  <2>3. IsFiniteSet(rest(s))
    BY <2>1, FS_Subset
  <2>4. QED
    BY <2>2, <2>3
<1>5. ASSUME NEW s \in SUBSET T, s # {}
      PROVE  G[rest(s)] = h(rest(s))[rest(s)]
  <2> DEFINE r == rest(s)
  <2>1. r \in SUBSET T /\ r # T
    BY <1>4, <1>5
  <2>2. Runs(h(r), a, rows, r) /\ r \in SUBSET r
    BY <1>3, <2>1
  <2>3. G[r] = F(r)
    BY <2>1
  <2>4. CASE r = {}
    <3>1. h(r)[r] = a
      BY <2>2, <2>4, RunsApply
    <3>2. F(r) = a
      BY <2>4
    <3>3. QED
      BY <2>3, <3>1, <3>2
  <2>5. CASE r # {}
    <3> DEFINE q == rest(r)
               k == Max(r)
    <3>1. q \in SUBSET T /\ q # T /\ q \in SUBSET r /\ IsFiniteSet(q) /\ Numbers(q)
      BY <1>4, <2>1, <2>5 DEF Numbers
    <3>2. Runs(h(q), a, rows, q)
      BY <1>3, <3>1
    <3>3. h(q)[q] = h(r)[q]
      <4> HIDE DEF h, q, r
      <4>1. q \in SUBSET q /\ q \subseteq r
        BY <3>1
      <4>2. QED
        BY <2>2, <3>1, <3>2, <4>1, RunsAgree
    <3>4. h(r)[r] = ApplyOrder(h(r)[q], rows[k])
      <4> DEFINE j == h(r)
      <4>1. Runs(j, a, rows, r) /\ r \in SUBSET r /\ r # {}
        BY <2>2, <2>5
      <4> HIDE DEF j, r
      <4>2. j[r] = ApplyOrder(j[r \ {Max(r)}], rows[Max(r)])
        BY <4>1, RunsApply
      <4>3. QED
        BY <4>2 DEF j
    <3>5. F(r) = ApplyOrder(h(q)[q], rows[k])
      BY <2>5
    <3> HIDE DEF h, F, G, q, k, r
    <3>6. F(r) = h(r)[r]
      BY <3>3, <3>4, <3>5
    <3>7. QED
      BY <2>3, <3>6 DEF r
  <2> HIDE DEF h, F, G
  <2>6. QED
    BY <2>4, <2>5 DEF r
<1>6. ASSUME NEW s \in SUBSET T
      PROVE  F(s) = K(s)
  <2>1. CASE s = {}
    BY <2>1
  <2>2. CASE s # {}
    <3>1. G[rest(s)] = h(rest(s))[rest(s)]
      BY <1>5, <2>2
    <3> HIDE DEF G, h, rest
    <3>2. QED
      BY <2>2, <3>1
  <2>3. QED
    BY <2>1, <2>2
<1>7. G = [s \in SUBSET T |-> K(s)]
  <2>1. G = [s \in SUBSET T |-> F(s)]
    OBVIOUS
  <2> HIDE DEF F, K, G
  <2>2. QED
    BY <1>6, <2>1
<1>8. Runs(G, a, rows, T)
  <2> HIDE DEF G
  <2>1. QED
    BY <1>7 DEF Runs
<1>9. QED
  <2> HIDE DEF G
  <2>1. QED
    BY <1>2, <1>8

\* The fold of a pass is the last of these accounts.
LEMMA PassIsRun ==
  ASSUME NEW rows, Numbers(DOMAIN rows), IsFiniteSet(DOMAIN rows), NEW a
  PROVE  \E g : /\ g[{}] = a
                /\ \A s \in SUBSET DOMAIN rows :
                     s # {} => g[s] = ApplyOrder(g[s \ {Max(s)}], rows[Max(s)])
                /\ FoldLeft(ApplyOrder, a, rows) = g[DOMAIN rows]
<1> DEFINE D == DOMAIN rows
           g == CHOOSE g : Runs(g, a, rows, D)
<1>1. Runs(g, a, rows, D)
  BY RunsExist, Zenon
<1>2. FoldLeft(ApplyOrder, a, rows) = g[D]
  BY Zenon DEF FoldLeft, MapThenFoldSet, Runs
<1>3. g[{}] = a /\ \A s \in SUBSET D : s # {} => g[s] = ApplyOrder(g[s \ {Max(s)}], rows[Max(s)])
  <2> HIDE DEF g, D
  <2>1. ASSUME NEW s \in SUBSET D
        PROVE  /\ s = {} => g[s] = a
               /\ s # {} => g[s] = ApplyOrder(g[s \ {Max(s)}], rows[Max(s)])
    BY <1>1, RunsApply
  <2>2. {} \in SUBSET D
    OBVIOUS
  <2>3. QED
    BY <2>1, <2>2
<1>4. QED
  BY <1>2, <1>3

\* A pass over filled orders, none of which had a fill before, keeps the
\* account what its fills make, whatever order the rows come in.
LEMMA PassTallies ==
  ASSUME NEW q, NEW v, \A x \in Orders : q[x] \in Int /\ v[x] \in Int,
         NEW S \in SUBSET Orders, IsFiniteSet(S), NEW F \in SUBSET (Orders \ S), IsFiniteSet(F),
         NEW a, Tallied(a, q, v, S), NEW rows \in SetToSeqs(F),
         \A o \in F : /\ q[o] = SignedQty(Side(o), ticket[o[1]].qty)
                      /\ TriggerPrice(o) \in Int /\ v[o] = q[o] * TriggerPrice(o)
  PROVE  Tallied(FoldLeft(ApplyOrder, a, rows), q, v, S \cup F)
<1> DEFINE D == DOMAIN rows
           Of(s) == {rows[i] : i \in s}
<1>1. /\ D = 1..Cardinality(F) /\ rows \in [D -> F]
      /\ \A i, j \in D : i # j => rows[i] # rows[j]
  BY DEF SetToSeqs
<1>2. IsFiniteSet(D) /\ Numbers(D) /\ Cardinality(D) = Cardinality(F)
  <2>1. Cardinality(F) \in Nat
    BY FS_CardinalityType
  <2>2. IsFiniteSet(1..Cardinality(F)) /\ Cardinality(1..Cardinality(F)) = Cardinality(F)
    BY <2>1, FS_Interval
  <2>3. \A i \in 1..Cardinality(F) : i \in Nat
    BY <2>1
  <2> HIDE DEF D
  <2>4. QED
    BY <1>1, <2>2, <2>3 DEF Numbers
<1>3. Of(D) = F
  <2>1. rows \in Injection(D, F)
    BY <1>1 DEF Injection, IsInjective
  <2>2. rows \in Surjection(D, F)
    BY <1>2, <2>1, FS_Injection
  <2>3. QED
    BY <2>2 DEF Surjection
<1>4. PICK g : /\ g[{}] = a
               /\ \A s \in SUBSET D : s # {} => g[s] = ApplyOrder(g[s \ {Max(s)}], rows[Max(s)])
               /\ FoldLeft(ApplyOrder, a, rows) = g[D]
  BY <1>2, PassIsRun
<1> DEFINE X == {s \in SUBSET D : ~ Tallied(g[s], q, v, S \cup Of(s))}
<1> SUFFICES ASSUME X # {}
             PROVE  FALSE
  BY <1>3, <1>4
<1>5. PICK m \in X : \A y \in X : y \subseteq m => y = m
  <2>1. X \subseteq SUBSET D
    OBVIOUS
  <2> HIDE DEF X, D
  <2>2. QED
    BY <1>2, <2>1, SmallestSubset
<1>6. m \in SUBSET D /\ ~ Tallied(g[m], q, v, S \cup Of(m))
  OBVIOUS
<1>7. m # {}
  <2>1. g[{}] = a
    BY <1>4
  <2>2. S \cup Of({}) = S
    OBVIOUS
  <2>3. QED
    BY <1>6, <2>1, <2>2
<1> DEFINE k == Max(m)
           o == rows[k]
           less == m \ {k}
           U == S \cup Of(less)
<1>8. k \in m /\ k \in D
  <2>1. Numbers(m) /\ IsFiniteSet(m)
    BY <1>2, <1>6, FS_Subset DEF Numbers
  <2>2. QED
    BY <1>6, <1>7, <2>1, MaxIsIn
<1>9. Tallied(g[less], q, v, U)
  <2>1. less \subseteq m /\ less # m /\ less \in SUBSET D
    BY <1>6, <1>8
  <2>2. less \notin X
    BY <1>5, <2>1
  <2>3. QED
    BY <2>1, <2>2
<1>10. o \in F /\ o \in Orders \ U /\ U \in SUBSET Orders /\ S \cup Of(m) = U \cup {o}
  <2>1. \A i \in m : i \in D /\ rows[i] \in F
    BY <1>1, <1>6
  <2>2. \A i \in less : rows[i] # o
    BY <1>1, <1>6, <1>8
  <2> HIDE DEF k, D
  <2>3. Of(m) = Of(less) \cup {o}
    BY <1>8
  <2>4. Of(less) \subseteq F /\ o \notin Of(less) /\ o \in F
    BY <1>8, <2>1, <2>2
  <2> HIDE DEF less, o, Of
  <2>5. QED
    BY <2>3, <2>4
<1>11. IsFiniteSet(U)
  <2>1. Of(less) \subseteq F
    BY <1>1, <1>6
  <2>2. IsFiniteSet(Of(less))
    BY <2>1, FS_Subset
  <2>3. QED
    BY <2>2, FS_Union
<1>12. g[m] = ApplyFill(g[less], o, q[o], TriggerPrice(o))
  <2>1. g[m] = ApplyOrder(g[less], o)
    <3>1. m \in SUBSET D
      BY <1>6
    <3> HIDE DEF D, X, k, o, less, Of
    <3>2. g[m] = ApplyOrder(g[m \ {Max(m)}], rows[Max(m)])
      BY <1>4, <1>7, <3>1
    <3>3. QED
      BY <3>2 DEF less, o, k
  <2>2. QED
    BY <1>10, <2>1 DEF ApplyOrder
<1>13. Tallied(g[m], q, v, U \cup {o})
  <2> HIDE DEF o, U, less, D, k
  <2>1. /\ TriggerPrice(o) \in Int /\ v[o] = q[o] * TriggerPrice(o)
    BY <1>10
  <2>2. QED
    <3> DEFINE before == g[less]
               price == TriggerPrice(o)
    <3>1. g[m] = ApplyFill(before, o, q[o], price) /\ Tallied(before, q, v, U)
      BY <1>9, <1>12
    <3>2. price \in Int /\ v[o] = q[o] * price
      BY <2>1
    <3> HIDE DEF before, price, X
    <3>3. Tallied(ApplyFill(before, o, q[o], price), q, v, U \cup {o})
      BY <1>10, <1>11, <3>1, <3>2, OneFillTallies
    <3>4. QED
      BY <3>1, <3>3
<1>14. QED
  BY <1>6, <1>10, <1>13

-----------------------------------------------------------------------------
(* The handlers.                                                           *)

\* What each order's fill brings in shares, and what it pays.
QtyOf == [o \in Orders |-> FilledQty(o)]
PaidFor == [o \in Orders |-> FilledQty(o) * fillPrice[o]]

\* The rows of the table.
Rows == {o \in Orders : status[o] # "none"}

\* The table is in order and finite, and the account is what its fills make.
AccountInv ==
  /\ BookInv /\ SharesBounded /\ IsFiniteSet(Rows)
  /\ Tallied(account, QtyOf, PaidFor, FilledOrders)

\* Shares and payments are numbers, before a step and after it.
LEMMA AmountsAreNumbers ==
  /\ BookTypeOK => \A o \in Orders : QtyOf[o] \in Int /\ PaidFor[o] \in Int /\ fillPrice[o] \in Int
  /\ BookTypeOK' => \A o \in Orders : QtyOf'[o] \in Int /\ PaidFor'[o] \in Int /\ fillPrice'[o] \in Int
<1>1. \A n \in Int : \A s : SignedQty(s, n) \in Int
  BY DEF SignedQty
<1>2. \A r \in ResolvedOrder \cup {NoTicket} : r.qty \in Int
  BY DEF ResolvedOrder, NoTicket, Shares
<1>3. \A o \in Orders : o[1] \in Tickets
  BY OrderShape
<1>4. ASSUME BookTypeOK, NEW o \in Orders
      PROVE  QtyOf[o] \in Int /\ PaidFor[o] \in Int /\ fillPrice[o] \in Int
  <2>1. ticket[o[1]].qty \in Int /\ fillPrice[o] \in Int
    BY <1>2, <1>3, <1>4, PricesAreNumbers DEF BookTypeOK
  <2>2. FilledQty(o) \in Int
    BY <1>1, <2>1 DEF FilledQty
  <2>3. QED
    BY <2>1, <2>2 DEF QtyOf, PaidFor
<1>5. ASSUME BookTypeOK', NEW o \in Orders
      PROVE  QtyOf'[o] \in Int /\ PaidFor'[o] \in Int /\ fillPrice'[o] \in Int
  <2>1. ticket'[o[1]].qty \in Int /\ fillPrice'[o] \in Int
    BY <1>2, <1>3, <1>5, PricesAreNumbers DEF BookTypeOK
  <2>2. FilledQty(o)' \in Int
    BY <1>1, <2>1 DEF FilledQty
  <2>3. QED
    BY <2>1, <2>2 DEF QtyOf, PaidFor
<1>6. QED
  BY <1>4, <1>5

\* A step that keeps the filled rows keeps what their fills brought and paid.
LEMMA OldFillsStand ==
  ASSUME AccountInv, BookTypeOK', FinalRowsKept
  PROVE  IsFiniteSet(FilledOrders) /\ Tallied(account, QtyOf', PaidFor', FilledOrders)
<1>1. IsFiniteSet(FilledOrders)
  <2>1. FilledOrders \subseteq Rows
    BY DEF FilledOrders, Rows
  <2>2. QED
    BY <2>1, FS_Subset DEF AccountInv
<1>2. ASSUME NEW o \in FilledOrders
      PROVE  QtyOf[o] = QtyOf'[o] /\ PaidFor[o] = PaidFor'[o]
  <2>1. o \in Orders /\ ticket'[o[1]] = ticket[o[1]] /\ fillPrice'[o] = fillPrice[o]
    BY DEF FilledOrders, FinalRowsKept
  <2>2. FilledQty(o)' = FilledQty(o)
    BY <2>1 DEF FilledQty, Side
  <2>3. QED
    BY <2>1, <2>2 DEF QtyOf, PaidFor
<1>3. /\ SumFunctionOnSet(QtyOf, FilledOrders) = SumFunctionOnSet(QtyOf', FilledOrders)
      /\ SumFunctionOnSet(PaidFor, FilledOrders) = SumFunctionOnSet(PaidFor', FilledOrders)
  BY <1>1, <1>2, SumSame
<1>4. QED
  BY <1>1, <1>3 DEF AccountInv, Tallied

\* A fresh ticket's rows are not filled as they are inserted, nor is any other
\* row; only they are rows that were not there.
LEMMA InsertFillsNothing ==
  ASSUME NEW st \in [Orders -> Statuses], NEW t, NEW r,
         \A o \in Orders : o[1] = t => st[o] # "filled"
  PROVE  \A o \in Orders : /\ InsertIn(st, t, r)[o] = "filled" <=> st[o] = "filled"
                           /\ InsertIn(st, t, r)[o] # "none" => st[o] # "none" \/ o[1] = t
BY DEF InsertIn

\* Filling F fills F and adds no other row.
LEMMA FillInFills ==
  ASSUME NEW st \in [Orders -> Statuses], NEW F \in SUBSET Orders
  PROVE  \A o \in Orders : /\ FillIn(st, F)[o] = "filled" <=> o \in F \/ st[o] = "filled"
                           /\ FillIn(st, F)[o] # "none" => st[o] # "none" \/ o \in F
<1>1. ASSUME NEW o \in Orders
      PROVE  /\ FillIn(st, F)[o] = "filled" <=> o \in F \/ st[o] = "filled"
             /\ FillIn(st, F)[o] # "none" => st[o] # "none" \/ o \in F
  BY DEF FillIn, CancelIn, Working
<1>2. QED
  BY <1>1

\* Finitely many rows stay finite when those of one ticket join them.
LEMMA RowsStayFinite ==
  ASSUME IsFiniteSet(Rows), NEW t, NEW N, N \subseteq Rows \cup ({t} \X Legs)
  PROVE  IsFiniteSet(N)
<1>1. IsFiniteSet(Legs) /\ IsFiniteSet({t})
  <2> DEFINE two == {"entry"} \cup {"take_profit"}
  <2>1. Legs = two \cup {"stop_loss"}
    BY DEF Legs
  <2>2. IsFiniteSet({"entry"}) /\ IsFiniteSet({t})
    BY FS_Singleton
  <2>3. IsFiniteSet(two)
    BY <2>2, FS_AddElement
  <2> HIDE DEF two
  <2>4. IsFiniteSet(two \cup {"stop_loss"})
    BY <2>3, FS_AddElement
  <2>5. QED
    BY <2>1, <2>2, <2>4
<1>2. IsFiniteSet({t} \X Legs)
  BY <1>1, FS_Product
<1>3. IsFiniteSet(Rows \cup ({t} \X Legs))
  BY <1>2, FS_Union
<1>4. QED
  BY <1>3, FS_Subset

\* The rows of a ticket.
LEMMA RowsOfTicket ==
  ASSUME NEW o \in Orders
  PROVE  o \in {o[1]} \X Legs
BY OrderShape

\* What every step has to keep, beside what the order table keeps by itself.
Kept(N) ==
  /\ FilledOrders' = FilledOrders \cup N
  /\ N \in SUBSET Orders /\ N \cap FilledOrders = {}
  /\ IsFiniteSet(Rows)'
  /\ \E o \in Orders : status'[o] # "none"

\* A ticket that rests fills nothing.
LEMMA RestingKeeps ==
  ASSUME AccountInv, NEW t \in Tickets, NEW r, NEW p, SubmitResting(t, r, p)
  PROVE  Kept({})
<1>0. status \in [Orders -> Statuses] /\ status[Entry(t)] = "none" /\ status' = InsertIn(status, t, r)
  BY DEF AccountInv, BookInv, BookTypeOK, SubmitResting, Insert
<1>1. \A o \in Orders : o[1] = t => status[o] # "filled"
  BY <1>0, FreshTicketHasNoRows DEF AccountInv
<1>2. \A o \in Orders : /\ status'[o] = "filled" <=> status[o] = "filled"
                        /\ status'[o] # "none" => status[o] # "none" \/ o[1] = t
  BY <1>0, <1>1, InsertFillsNothing
<1>3. FilledOrders' = FilledOrders
  BY <1>2 DEF FilledOrders
<1>4. IsFiniteSet(Rows)'
  <2>1. Rows' \subseteq Rows \cup ({t} \X Legs)
    BY <1>2, RowsOfTicket DEF Rows
  <2>2. QED
    BY <2>1, RowsStayFinite DEF AccountInv
<1>5. status'[Entry(t)] # "none" /\ Entry(t) \in Orders
  BY <1>0, EntryShape DEF InsertIn, LegsOf, Entry
<1>6. QED
  BY <1>3, <1>4, <1>5 DEF Kept

\* A ticket that fills as it is submitted, after a close has canceled what
\* worked or not, fills its entry only.
LEMMA FilledSubmitKeeps ==
  ASSUME AccountInv, NEW t \in Tickets, NEW r, status[Entry(t)] = "none",
         NEW st \in [Orders -> Statuses], \A o \in Orders : st[o] = "filled" <=> status[o] = "filled",
         \A o \in Orders : st[o] = "none" <=> status[o] = "none",
         status' = FillIn(InsertIn(st, t, r), {Entry(t)})
  PROVE  Kept({Entry(t)})
<1>1. \A o \in Orders : o[1] = t => status[o] = "none"
  BY FreshTicketHasNoRows DEF AccountInv
<1>2. Entry(t) \in Orders /\ Entry(t)[1] = t
  BY EntryShape
<1> DEFINE inserted == InsertIn(st, t, r)
<1>3. inserted \in [Orders -> Statuses]
  BY InsertInStatuses
<1>4. \A o \in Orders : /\ inserted[o] = "filled" <=> st[o] = "filled"
                        /\ inserted[o] # "none" => st[o] # "none" \/ o[1] = t
  BY <1>1, InsertFillsNothing
<1>5. \A o \in Orders : /\ status'[o] = "filled" <=> o = Entry(t) \/ inserted[o] = "filled"
                        /\ status'[o] # "none" => inserted[o] # "none" \/ o = Entry(t)
  <2> HIDE DEF inserted
  <2>1. {Entry(t)} \in SUBSET Orders /\ status' = FillIn(inserted, {Entry(t)})
    BY <1>2 DEF inserted
  <2>2. \A o \in Orders : /\ status'[o] = "filled" <=> o \in {Entry(t)} \/ inserted[o] = "filled"
                          /\ status'[o] # "none" => inserted[o] # "none" \/ o \in {Entry(t)}
    BY <1>3, <2>1, FillInFills
  <2>3. QED
    BY <2>2
<1> HIDE DEF inserted
<1>6. FilledOrders' = FilledOrders \cup {Entry(t)}
  BY <1>2, <1>4, <1>5 DEF FilledOrders
<1>7. Entry(t) \notin FilledOrders
  BY <1>1, <1>2 DEF FilledOrders
<1>8. IsFiniteSet(Rows)'
  <2>1. Rows' \subseteq Rows \cup ({t} \X Legs)
    BY <1>2, <1>4, <1>5, RowsOfTicket DEF Rows
  <2>2. QED
    BY <2>1, RowsStayFinite DEF AccountInv
<1>9. status'[Entry(t)] # "none"
  BY <1>2, <1>5
<1>10. QED
  BY <1>2, <1>6, <1>7, <1>8, <1>9 DEF Kept

\* A pass of the fill loop fills what it took.
LEMMA PollKeeps ==
  ASSUME AccountInv, NEW p, NEW F \in FillSets(p), CheckFills(p, F)
  PROVE  Kept(F)
<1>1. F \in SUBSET Orders /\ F # {} /\ \A o \in F : status[o] = "new"
  BY DEF FillSets, CheckFills
<1>2. status \in [Orders -> Statuses] /\ status' = FillIn(status, F)
  BY DEF AccountInv, BookInv, BookTypeOK, CheckFills
<1>3. \A o \in Orders : /\ status'[o] = "filled" <=> o \in F \/ status[o] = "filled"
                        /\ status'[o] # "none" => status[o] # "none" \/ o \in F
  BY <1>1, <1>2, FillInFills
<1>4. FilledOrders' = FilledOrders \cup F /\ F \cap FilledOrders = {}
  BY <1>1, <1>3 DEF FilledOrders
<1>5. IsFiniteSet(Rows)'
  <2>1. Rows' \subseteq Rows
    BY <1>1, <1>3 DEF Rows
  <2>2. QED
    BY <2>1, FS_Subset DEF AccountInv
<1>6. \E o \in Orders : status'[o] # "none"
  BY <1>1, <1>3
<1>7. QED
  BY <1>1, <1>4, <1>5, <1>6 DEF Kept

\* A cancel or a replace fills nothing.
LEMMA CancelOrReplaceKeeps ==
  ASSUME AccountInv, NEW o \in Orders,
         \/ Cancel(o)
         \/ \E x, p : ReplaceStop(o, x, p) \/ ReplaceTarget(o, x, p) \/ ReplaceLimit(o, x)
  PROVE  Kept({})
<1>0. status \in [Orders -> Statuses] /\ status[o] \in Working
  BY DEF AccountInv, BookInv, BookTypeOK, Cancel, ReplaceStop, ReplaceTarget, ReplaceLimit
<1>1. \A x \in Orders : /\ status'[x] = "filled" <=> status[x] = "filled"
                        /\ status'[x] # "none" <=> status[x] # "none"
  BY <1>0 DEF Cancel, CancelIn, Working, ReplaceStop, ReplaceTarget, ReplaceLimit
<1>2. FilledOrders' = FilledOrders /\ Rows' = Rows
  BY <1>1 DEF FilledOrders, Rows
<1>3. status'[o] # "none"
  BY <1>0, <1>1 DEF Working
<1>4. QED
  BY <1>2, <1>3 DEF Kept, AccountInv

\* A row that is kept stands: the step is not a reset.
LEMMA KeptRowsStand ==
  ASSUME AccountInv, [Next]_vars, BookNext, NEW N, Kept(N)
  PROVE  /\ BookInv' /\ SharesBounded' /\ FinalRowsKept
         /\ IsFiniteSet(FilledOrders) /\ Tallied(account, QtyOf', PaidFor', FilledOrders)
         /\ \A o \in Orders : QtyOf'[o] \in Int /\ PaidFor'[o] \in Int
<1>1. BookInv'
  BY BookInvStep DEF AccountInv
<1>2. SharesBounded'
  BY MaxSharesAssumption, SharesStep DEF AccountInv
<1>3. ~Reset
  BY DEF Reset, Kept
<1>4. FinalRowsKept
  BY <1>3, FinalRowsStep DEF AccountInv
<1>5. BookTypeOK'
  BY <1>1 DEF BookInv
<1>6. QED
  BY <1>1, <1>2, <1>4, <1>5, OldFillsStand, AmountsAreNumbers

\* An order that filled at a price brings its shares and pays for them.
LEMMA OneMoreFill ==
  ASSUME AccountInv, [Next]_vars, BookNext, NEW t \in Tickets, Kept({Entry(t)}),
         NEW side \in Sides, NEW n, NEW p \in Prices \cup {None},
         ticket'[t].side = side, ticket'[t].qty = n, fillPrice'[Entry(t)] = p,
         account' = ApplyFill(account, Entry(t), SignedQty(side, n), p)
  PROVE  AccountInv'
<1> DEFINE e == Entry(t)
<1>1. e \in Orders \ FilledOrders /\ FilledOrders \in SUBSET Orders
      /\ FilledOrders' = FilledOrders \cup {e}
  BY EntryShape DEF Kept, FilledOrders
<1>2. QtyOf'[e] = SignedQty(side, n)
  <2>1. e \in Orders /\ e[1] = t /\ IsEntry(e)
    BY EntryShape
  <2> HIDE DEF e
  <2>2. Side(e)' = side /\ ticket'[e[1]].qty = n
    BY <2>1 DEF Side
  <2>3. FilledQty(e)' = SignedQty(side, n)
    BY <2>2 DEF FilledQty
  <2>4. QED
    BY <2>1, <2>3 DEF QtyOf
<1>3. PaidFor'[e] = QtyOf'[e] * p
  BY <1>1 DEF PaidFor, QtyOf
<1>4. p \in Int
  BY PricesAreNumbers
<1>5. /\ BookInv' /\ SharesBounded'
      /\ IsFiniteSet(FilledOrders) /\ Tallied(account, QtyOf', PaidFor', FilledOrders)
      /\ \A o \in Orders : QtyOf'[o] \in Int /\ PaidFor'[o] \in Int
  BY KeptRowsStand
<1>6. account' = ApplyFill(account, e, QtyOf'[e], p)
  BY <1>2
<1> HIDE DEF e
<1>7. Tallied(account', QtyOf', PaidFor', FilledOrders \cup {e})
  <2> DEFINE q == QtyOf'
             v == PaidFor'
             S == FilledOrders
  <2>1. /\ S \in SUBSET Orders /\ IsFiniteSet(S) /\ e \in Orders \ S
        /\ Tallied(account, q, v, S) /\ v[e] = q[e] * p
        /\ \A o \in Orders : q[o] \in Int /\ v[o] \in Int
    BY <1>1, <1>3, <1>5
  <2> HIDE DEF q, v, S
  <2>2. Tallied(ApplyFill(account, e, q[e], p), q, v, S \cup {e})
    BY <1>4, <2>1, OneFillTallies
  <2>3. QED
    BY <1>6, <2>2 DEF q, v, S
<1>8. QED
  BY <1>1, <1>5, <1>7 DEF AccountInv, Kept

\* A step without a fill leaves the account.
LEMMA NoFill ==
  ASSUME AccountInv, [Next]_vars, BookNext, Kept({}), UNCHANGED account
  PROVE  AccountInv'
<1>1. FilledOrders' = FilledOrders
  BY DEF Kept
<1>2. /\ BookInv' /\ SharesBounded' /\ Tallied(account, QtyOf', PaidFor', FilledOrders)
  BY KeptRowsStand
<1>3. QED
  BY <1>1, <1>2 DEF AccountInv, Kept

\* A submission keeps the account what its fills make.
LEMMA SubmitStep ==
  ASSUME AccountInv, [Next]_vars, NEW t \in Tickets, NEW r \in Submissions,
         NEW p \in Prices \cup {None}, Submit(t, r, p)
  PROVE  AccountInv'
<1>1. BookNext
  BY DEF Submit, BookNext
<1>2. CASE SubmitResting(t, r, p) /\ UNCHANGED account
  BY <1>1, <1>2, RestingKeeps, NoFill
<1>3. CASE /\ SubmitFilled(t, r, p)
           /\ account' = ApplyFill(account, Entry(t), SignedQty(r.side, r.qty), p)
  <2>1. /\ ticket' = [ticket EXCEPT ![t] = r] /\ status[Entry(t)] = "none"
        /\ fillPrice' = [fillPrice EXCEPT ![Entry(t)] = p]
        /\ status' = FillIn(InsertIn(status, t, r), {Entry(t)})
    BY <1>3 DEF SubmitFilled, Insert
  <2>2. /\ ticket \in [Tickets -> ResolvedOrder \cup {NoTicket}] /\ status \in [Orders -> Statuses]
        /\ fillPrice \in [Orders -> Prices \cup {None}]
    BY DEF AccountInv, BookInv, BookTypeOK
  <2>3. ticket'[t] = r /\ fillPrice'[Entry(t)] = p
    BY <2>1, <2>2, EntryShape
  <2>4. Kept({Entry(t)})
    BY <2>1, <2>2, FilledSubmitKeeps
  <2>5. r.side \in Sides
    BY SubmissionsAssumption DEF ResolvedOrder
  <2>6. QED
    BY <1>1, <1>3, <2>3, <2>4, <2>5, OneMoreFill
<1>4. QED
  BY <1>2, <1>3 DEF Submit

\* So does a pass of the fill loop.
LEMMA PollStep ==
  ASSUME AccountInv, [Next]_vars, NEW p \in Prices, NEW F \in FillSets(p), Poll(p, F)
  PROVE  AccountInv'
<1>1. BookNext /\ CheckFills(p, F)
  BY DEF Poll, BookNext
<1>2. Kept(F)
  BY <1>1, PollKeeps
<1>3. /\ BookInv' /\ SharesBounded'
      /\ IsFiniteSet(FilledOrders) /\ Tallied(account, QtyOf', PaidFor', FilledOrders)
      /\ \A o \in Orders : QtyOf'[o] \in Int /\ PaidFor'[o] \in Int
  BY <1>1, <1>2, KeptRowsStand
<1>4. PICK rows \in SetToSeqs(F) : account' = FoldLeft(ApplyOrder, account, rows)
  BY DEF Poll
<1>5. F \in SUBSET (Orders \ FilledOrders) /\ FilledOrders \in SUBSET Orders
      /\ FilledOrders' = FilledOrders \cup F
  BY <1>2 DEF Kept, FilledOrders
<1>6. IsFiniteSet(F)
  <2>1. F \subseteq Rows
    BY DEF FillSets, Rows
  <2>2. QED
    BY <2>1, FS_Subset DEF AccountInv
<1>7. ASSUME NEW o \in F
      PROVE  /\ QtyOf'[o] = SignedQty(Side(o), ticket[o[1]].qty)
             /\ TriggerPrice(o) \in Int /\ PaidFor'[o] = QtyOf'[o] * TriggerPrice(o)
  <2>1. o \in Orders /\ ticket' = ticket /\ fillPrice'[o] = TriggerPrice(o)
    BY <1>1, <1>5 DEF CheckFills
  <2>2. FilledQty(o)' = SignedQty(Side(o), ticket[o[1]].qty)
    BY <2>1 DEF FilledQty, Side
  <2>3. TriggerPrice(o) \in Int
    BY <2>1, TriggerPriceType, PricesAreNumbers DEF AccountInv, BookInv
  <2>4. QED
    BY <2>1, <2>2, <2>3 DEF QtyOf, PaidFor
<1>8. Tallied(account', QtyOf', PaidFor', FilledOrders \cup F)
  BY <1>3, <1>4, <1>5, <1>6, <1>7, PassTallies
<1>9. QED
  BY <1>2, <1>3, <1>5, <1>8 DEF AccountInv, Kept

\* So does a close of the position.
LEMMA CloseAccountStep ==
  ASSUME AccountInv, [Next]_vars, NEW t \in Tickets, NEW q \in Shares, NEW p \in Prices, Close(t, q, p)
  PROVE  AccountInv'
<1> DEFINE held == Magnitude(account.shares)
           side == IF account.shares > 0 THEN "sell" ELSE "buy"
           closing == IF q >= held THEN held ELSE q
           st == CancelIn(status, WorkingOrders)
<1>1. /\ account.shares # 0 /\ ClosePosition(t, side, closing, p)
      /\ account' = ApplyFill(account, Entry(t), SignedQty(side, closing), p)
  BY DEF Close
<1>2. account.shares \in -MaxShares..MaxShares /\ MaxShares \in Nat
  BY MaxSharesAssumption DEF AccountInv, SharesBounded
<1>3. side \in Sides /\ closing \in Shares
  BY <1>1, <1>2 DEF Sides, Magnitude, Shares
<1> HIDE DEF held, side, closing
<1>4. BookNext
  BY <1>1, <1>3 DEF BookNext
<1>5. /\ status[Entry(t)] = "none" /\ ticket' = [ticket EXCEPT ![t] = MarketOrder(side, closing)]
      /\ fillPrice' = [fillPrice EXCEPT ![Entry(t)] = p]
      /\ status' = FillIn(InsertIn(st, t, MarketOrder(side, closing)), {Entry(t)})
  BY <1>1 DEF ClosePosition, Insert
<1>6. /\ ticket \in [Tickets -> ResolvedOrder \cup {NoTicket}] /\ status \in [Orders -> Statuses]
      /\ fillPrice \in [Orders -> Prices \cup {None}]
  BY DEF AccountInv, BookInv, BookTypeOK
<1>7. /\ st \in [Orders -> Statuses]
      /\ \A o \in Orders : /\ st[o] = "filled" <=> status[o] = "filled"
                           /\ st[o] = "none" <=> status[o] = "none"
  BY <1>6, CancelInStatuses DEF CancelIn, Working
<1> HIDE DEF st
<1>8. Kept({Entry(t)})
  BY <1>5, <1>7, FilledSubmitKeeps
<1>9. ticket'[t] = MarketOrder(side, closing) /\ fillPrice'[Entry(t)] = p
  BY <1>5, <1>6, EntryShape
<1>10. ticket'[t].side = side /\ ticket'[t].qty = closing
  BY <1>9 DEF MarketOrder, NoTicket
<1>11. QED
  BY <1>1, <1>3, <1>4, <1>8, <1>9, <1>10, OneMoreFill

\* An empty table goes with an empty account.
LEMMA EmptyTallies ==
  ASSUME NEW q, NEW v
  PROVE  Tallied(EmptyAccount, q, v, {})
<1>1. SumFunctionOnSet(q, {}) = 0 /\ SumFunctionOnSet(v, {}) = 0
  BY SumOfNone
<1>2. StartingCash \in Int
  BY StartingCashAssumption
<1>3. QED
  BY <1>1, <1>2 DEF Tallied, EmptyAccount

\* Every step keeps AccountInv.
LEMMA AccountInvStep ==
  ASSUME AccountInv, [Next]_vars
  PROVE  AccountInv'
<1>1. CASE \E t \in Tickets, r \in Submissions, p \in Prices \cup {None} : Submit(t, r, p)
  BY <1>1, SubmitStep
<1>2. CASE \E p \in Prices : \E F \in FillSets(p) : Poll(p, F)
  BY <1>2, PollStep
<1>3. ASSUME NEW o \in Orders, CancelOrder(o)
      PROVE  AccountInv'
  <2>1. BookNext /\ Cancel(o) /\ UNCHANGED account
    BY <1>3 DEF CancelOrder, BookNext
  <2>2. Kept({})
    BY <2>1, CancelOrReplaceKeeps
  <2>3. QED
    BY <2>1, <2>2, NoFill
<1>4. ASSUME NEW o \in Orders, NEW x \in Prices, NEW p \in Prices \cup {None}, ReplacePrice(o, x, p)
      PROVE  AccountInv'
  <2>1. /\ BookNext /\ UNCHANGED account
        /\ ReplaceStop(o, x, p) \/ ReplaceTarget(o, x, p) \/ ReplaceLimit(o, x)
    BY <1>4 DEF ReplacePrice, BookNext
  <2>2. Kept({})
    BY <2>1, CancelOrReplaceKeeps
  <2>3. QED
    BY <2>1, <2>2, NoFill
<1>5. CASE \E t \in Tickets, q \in Shares, p \in Prices : Close(t, q, p)
  BY <1>5, CloseAccountStep
<1>6. CASE ResetAccount
  <2>1. \A o \in Orders : status'[o] = "none"
    BY <1>6 DEF ResetAccount, Reset
  <2>2. FilledOrders' = {} /\ Rows' = {}
    BY <2>1 DEF FilledOrders, Rows
  <2>3. BookInv' /\ SharesBounded'
    BY <1>6, BookInvStep, SharesStep, MaxSharesAssumption DEF AccountInv, ResetAccount, BookNext
  <2>4. Tallied(account', QtyOf', PaidFor', {})
    BY <1>6, EmptyTallies DEF ResetAccount
  <2>5. QED
    BY <2>2, <2>3, <2>4, FS_EmptySet DEF AccountInv
<1>7. CASE UNCHANGED vars
  <2>1. UNCHANGED <<ticket, status, limit, stop, fillPrice, account>>
    BY <1>7 DEF vars, bookVars
  <2>2. BookInv' /\ SharesBounded'
    BY <1>7, BookInvStep, SharesStep, MaxSharesAssumption DEF AccountInv, vars
  <2>3. FilledOrders' = FilledOrders /\ Rows' = Rows /\ QtyOf' = QtyOf /\ PaidFor' = PaidFor
    BY <2>1 DEF FilledOrders, Rows, QtyOf, PaidFor, FilledQty, Side
  <2>4. QED
    BY <2>1, <2>2, <2>3 DEF AccountInv
<1>8. QED
  BY <1>1, <1>2, <1>3, <1>4, <1>5, <1>6, <1>7 DEF Next

\* What the runs check follows from AccountInv.
LEMMA AccountInvHolds ==
  ASSUME AccountInv
  PROVE  TypeOK /\ AccountIsFills
<1>1. Tallied(account, QtyOf, PaidFor, FilledOrders)
  BY DEF AccountInv
<1>2. BookTypeOK /\ account.shares \in -MaxShares..MaxShares
  BY DEF AccountInv, BookInv, SharesBounded
<1>3. AccountTypeOK
  BY <1>1, <1>2 DEF AccountTypeOK, Tallied
<1> DEFINE qs == [o \in FilledOrders |-> FilledQty(o)]
           vs == [o \in FilledOrders |-> FilledQty(o) * fillPrice[o]]
<1>4. IsFiniteSet(FilledOrders)
  <2>1. FilledOrders \subseteq Rows
    BY DEF FilledOrders, Rows
  <2>2. QED
    BY <2>1, FS_Subset DEF AccountInv
<1>5. /\ SumFunction(qs) = SumFunctionOnSet(QtyOf, FilledOrders)
      /\ SumFunction(vs) = SumFunctionOnSet(PaidFor, FilledOrders)
  <2>1. \A o \in FilledOrders : qs[o] = QtyOf[o] /\ vs[o] = PaidFor[o]
    BY DEF QtyOf, PaidFor, FilledOrders
  <2>2. DOMAIN qs = FilledOrders /\ DOMAIN vs = FilledOrders
    OBVIOUS
  <2> HIDE DEF qs, vs
  <2>3. /\ SumFunctionOnSet(qs, FilledOrders) = SumFunctionOnSet(QtyOf, FilledOrders)
        /\ SumFunctionOnSet(vs, FilledOrders) = SumFunctionOnSet(PaidFor, FilledOrders)
    BY <1>4, <2>1, SumSame
  <2>4. QED
    BY <2>2, <2>3 DEF SumFunction
<1>6. AccountIsFills
  <2>1. account.shares = SumFunction(qs) /\ account.cash = StartingCash - SumFunction(vs)
    BY <1>1, <1>5 DEF Tallied
  <2>2. /\ account.trades \subseteq FilledOrders
        /\ account.opener # NoOrder => account.opener \in FilledOrders \ account.trades
    BY <1>1 DEF Tallied
  <2>3. QED
    BY <2>1, <2>2 DEF AccountIsFills, PositionIsFills
<1>7. QED
  BY <1>2, <1>3, <1>6 DEF TypeOK

\* The account is what its fills make in every state.
LEMMA AccountInvariant == Spec => []AccountInv
<1>1. Init => AccountInv
  <2> SUFFICES ASSUME Init
               PROVE  AccountInv
    OBVIOUS
  <2>1. BookInv /\ account = EmptyAccount
    BY BookInvInit DEF Init
  <2>2. SharesBounded
    BY <2>1, MaxSharesAssumption DEF SharesBounded, EmptyAccount
  <2>3. FilledOrders = {} /\ Rows = {}
    BY DEF Init, BookInit, FilledOrders, Rows
  <2>4. QED
    BY <2>1, <2>2, <2>3, EmptyTallies, FS_EmptySet DEF AccountInv
<1>2. AccountInv /\ [Next]_vars => AccountInv'
  BY AccountInvStep
<1>3. QED
  BY <1>1, <1>2, PTL DEF Spec

\* The account row, the position row and the trade rows have their columns
\* whatever is submitted, filled, canceled, closed or reset.
THEOREM BrokerTypesHold == Spec => []TypeOK
<1>1. AccountInv => TypeOK
  BY AccountInvHolds
<1>2. QED
  BY <1>1, AccountInvariant, PTL

\* The position, the cash and the trades are what the filled orders make of an
\* empty account, for every number of tickets and every order in which a pass
\* of the fill loop takes its rows.
THEOREM AccountIsAlwaysItsFills == Spec => []AccountIsFills
<1>1. AccountInv => AccountIsFills
  BY AccountInvHolds
<1>2. QED
  BY <1>1, AccountInvariant, PTL

-----------------------------------------------------------------------------
(* One task at a time fills, cancels and closes.                           *)

\* Besides filler, the tasks only re-price orders and submit tickets that do
\* not fill as they are submitted.
OnlyFills(filler) ==
  /\ filler \in Tasks
  /\ \A k \in Tasks \ {filler} :
       /\ Requests[k] \subseteq {"submit", "replace"}
       /\ "submit" \in Requests[k] =>
            \A r \in Submissions, p \in Prices \cup {None} : ~FillsNow(r, p)

OneFiller == \E filler \in Tasks : OnlyFills(filler)

\* The rows of one listing of the fill loop that are still to be filled.
LiveRows(rows) ==
  /\ \A row \in rows : row.order \in Orders /\ status[row.order] = "new"
  /\ \A row, other \in rows : row.order = other.order => row = other

\* Where the filler goes on after a fill.
GoesOn(s) == s.pc \in {"idle", "poll"} /\ (s.pc = "poll" => LiveRows(s.rows))

FillPhases == {"oco", "activate", "read", "write", "trade", "cash"}
BeforeWrite == {"oco", "activate", "read", "write"}

\* A fill in hand: its order is marked, and moved the position only when that
\* was written.
InFill(s) ==
  /\ s = [pc |-> s.pc, order |-> s.order, price |-> s.price, delta |-> s.delta, then |-> s.then]
     \/ s = [pc |-> s.pc, order |-> s.order, price |-> s.price, delta |-> s.delta,
             then |-> s.then, after |-> s.after]
  /\ s.order \in Orders /\ status[s.order] = "filled"
  /\ GoesOn(s.then)
  /\ s.pc = "oco" /\ s.then.pc = "poll" =>
       \A row \in s.then.rows : row.order \notin OcoSiblings(s.order)
  /\ s.delta = FilledQty(s.order)
  /\ s.pc = "write" => s.after.shares = account.shares + s.delta
  /\ applied[s.order].cash = 0
  /\ applied[s.order].position = IF s.pc \in BeforeWrite THEN 0 ELSE 1

\* What the filler may rely on, wherever it is.
FillerOK(s) ==
  /\ s.pc \in {"idle", "entry", "insert", "mark", "poll", "cancel", "cancel_rest",
               "replace", "close", "close_cancel"} \cup FillPhases
  /\ s.pc = "entry" => s.resolved \in Submissions
  /\ s.pc = "insert" /\ s.price # None => status[Entry(s.ticket)] = "new"
  /\ s.pc = "mark" => s.order \in Orders /\ status[s.order] = "new"
  /\ s.pc = "poll" => LiveRows(s.rows)
  /\ s.pc = "cancel" => /\ s = [pc |-> s.pc, order |-> s.order]
                        /\ s.order \in Orders /\ status[s.order] \in Working
  /\ s.pc = "cancel_rest" => s.order \in Orders
  /\ s.pc = "close" => s.resolved.qty \in Int
  /\ s.pc = "close_cancel" =>
       /\ s = [pc |-> s.pc, price |-> s.price, resolved |-> s.resolved, rows |-> s.rows]
       /\ s.resolved.qty \in Int
       /\ s.rows \subseteq WorkingOrders
  /\ s.pc \in FillPhases => InFill(s)

\* The other tasks fill nothing.
OtherOK(s) ==
  /\ s.pc \in {"idle", "entry", "insert", "replace"}
  /\ s.pc = "entry" => s.resolved \in Submissions /\ ~FillsNow(s.resolved, s.price)
  /\ s.pc = "insert" => s.price = None

\* A submission inserts exits that are not there yet, behind an entry that is.
Inserting(s) ==
  s.pc = "insert" =>
    /\ s.ticket \in Tickets
    /\ status[Entry(s.ticket)] # "none"
    /\ s.exits \in {<<"take_profit">>, <<"stop_loss">>, <<"take_profit", "stop_loss">>}
    /\ s.exits[Len(s.exits)] = "stop_loss" => status[<<s.ticket, "stop_loss">>] = "none"
    /\ s.exits[1] = "take_profit" => status[<<s.ticket, "take_profit">>] = "none"

InsertsApart ==
  \A j, k \in Tasks : j # k /\ At(j, "insert") /\ At(k, "insert") => task[j].ticket # task[k].ticket

\* No exit stands without its entry.
EntriesFirst == \A o \in Orders : status[Entry(o[1])] = "none" => status[o] = "none"

TablesOK ==
  /\ status \in [Orders -> Statuses]
  /\ DOMAIN ticket = Tickets /\ \A t \in Tickets : ticket[t].qty \in Int
  /\ DOMAIN account = {"shares", "opener", "trades", "cash"} /\ account.shares \in Int
  /\ applied \in [Orders -> [position : Nat, cash : Nat]]
  /\ DOMAIN task = Tasks
  /\ crashes \in Nat
  /\ EntriesFirst

\* The shares of the fill in hand that the position does not have yet.
Pending(s) == IF s.pc \in BeforeWrite THEN s.delta ELSE 0

\* Short of a restart, the position and the fill in hand are what filled.
Squared(filler) ==
  /\ IsFiniteSet(FilledOrders)
  /\ crashes = 0 =>
       account.shares + Pending(task[filler]) = SumFunctionOnSet(QtyOf, FilledOrders)

\* What submissions under way may rely on.
Entering ==
  /\ \A k \in Tasks : Inserting(task[k])
  /\ InsertsApart

TasksInv(filler) ==
  /\ TablesOK
  /\ Entering
  /\ FillsApplyAtMostOnce
  /\ FillerOK(task[filler])
  /\ \A k \in Tasks \ {filler} : OtherOK(task[k])
  /\ Squared(filler)

-----------------------------------------------------------------------------
(* The steps, by what they leave alone.                                    *)

\* A task goes on somewhere else, and the other tasks stay where they are.
LEMMA GotoMoves ==
  ASSUME DOMAIN task = Tasks, NEW k \in Tasks, NEW s, Goto(k, s)
  PROVE  DOMAIN task' = Tasks /\ task'[k] = s /\ \A j \in Tasks \ {k} : task'[j] = task[j]
BY DEF Goto

\* What the filled orders brought is asked of them alone.
LEMMA SameFills ==
  ASSUME IsFiniteSet(FilledOrders),
         \A o \in Orders : status'[o] = "filled" <=> status[o] = "filled",
         \A o \in FilledOrders : ticket'[o[1]] = ticket[o[1]]
  PROVE  /\ IsFiniteSet(FilledOrders')
         /\ SumFunctionOnSet(QtyOf, FilledOrders)' = SumFunctionOnSet(QtyOf, FilledOrders)
<1>1. FilledOrders' = FilledOrders
  BY DEF FilledOrders
<1>2. ASSUME NEW o \in FilledOrders
      PROVE  QtyOf[o] = QtyOf'[o]
  <2>1. o \in Orders /\ FilledQty(o)' = FilledQty(o)
    BY DEF FilledOrders, FilledQty, Side
  <2>2. QED
    BY <2>1 DEF QtyOf
<1>3. SumFunctionOnSet(QtyOf, FilledOrders) = SumFunctionOnSet(QtyOf', FilledOrders)
  BY <1>2, SumSame
<1>4. QED
  BY <1>1, <1>3

\* Shares are numbers.
LEMMA SharesAreNumbers ==
  ASSUME TablesOK, NEW o \in Orders
  PROVE  FilledQty(o) \in Int /\ QtyOf[o] = FilledQty(o)
<1>1. o[1] \in Tickets
  BY DEF Orders
<1>2. ticket[o[1]].qty \in Int
  BY <1>1 DEF TablesOK
<1>3. FilledQty(o) \in Int
  BY <1>2 DEF FilledQty, SignedQty
<1>4. QED
  BY <1>3 DEF QtyOf

\* One more filled order brings its shares.
LEMMA OneMoreFilled ==
  ASSUME TablesOK, IsFiniteSet(FilledOrders), NEW o \in Orders, status[o] # "filled",
         SetStatus(o, "filled"), UNCHANGED ticket
  PROVE  /\ IsFiniteSet(FilledOrders')
         /\ SumFunctionOnSet(QtyOf, FilledOrders)'
              = SumFunctionOnSet(QtyOf, FilledOrders) + FilledQty(o)
<1>1. FilledOrders' = FilledOrders \cup {o} /\ o \notin FilledOrders /\ FilledOrders \subseteq Orders
  BY DEF FilledOrders, SetStatus, TablesOK
<1>2. IsFiniteSet(FilledOrders \cup {o})
  BY FS_AddElement
<1>3. QtyOf' = QtyOf
  BY DEF QtyOf, FilledQty, Side
<1>4. \A x \in FilledOrders \cup {o} : QtyOf[x] \in Int
  BY <1>1, SharesAreNumbers
<1>5. SumFunctionOnSet(QtyOf, FilledOrders \cup {o})
        = QtyOf[o] + SumFunctionOnSet(QtyOf, (FilledOrders \cup {o}) \ {o})
  BY <1>2, <1>4, SumTakeOut
<1>6. (FilledOrders \cup {o}) \ {o} = FilledOrders
  BY <1>1
<1>7. SumFunctionOnSet(QtyOf, FilledOrders) \in Int
  BY <1>4, SumType
<1>8. QtyOf[o] = FilledQty(o) /\ FilledQty(o) \in Int
  BY SharesAreNumbers
<1>9. SumFunctionOnSet(QtyOf', FilledOrders')
        = SumFunctionOnSet(QtyOf, FilledOrders \cup {o})
  BY <1>1, <1>3, Zenon
<1> DEFINE before == SumFunctionOnSet(QtyOf, FilledOrders)
           after == SumFunctionOnSet(QtyOf, FilledOrders \cup {o})
<1>10. after = QtyOf[o] + before /\ before \in Int
  BY <1>5, <1>6, <1>7, Zenon
<1> HIDE DEF before, after
<1>11. after = before + FilledQty(o)
  BY <1>8, <1>10
<1>12. QED
  BY <1>1, <1>2, <1>9, <1>11, Zenon DEF before, after

\* The rows that stand keep their tickets as a fresh one is written.
LEMMA FreshTicket ==
  ASSUME TablesOK, NEW t \in Tickets, NEW r, r.qty \in Int, Insert(t, r)
  PROVE  /\ DOMAIN ticket' = Tickets /\ \A u \in Tickets : ticket'[u].qty \in Int
         /\ \A o \in Orders : status[o] # "none" => o[1] # t /\ ticket'[o[1]] = ticket[o[1]]
<1>1. status[Entry(t)] = "none" /\ ticket' = [ticket EXCEPT ![t] = r]
  BY DEF Insert
<1>2. \A o \in Orders : status[o] # "none" => o[1] # t
  BY <1>1 DEF TablesOK, EntriesFirst
<1>3. QED
  BY <1>1, <1>2 DEF TablesOK

-----------------------------------------------------------------------------
(* Submissions under way.                                                  *)

\* A step that is not an insert, nor ends one with an exit, leaves them.
LEMMA EnteringStays ==
  ASSUME TablesOK, Entering, NEW k \in Tasks, task'[k].pc # "insert",
         \A j \in Tasks \ {k} : task'[j] = task[j],
         \A o \in Orders : status'[o] = "none" <=> status[o] = "none"
  PROVE  Entering' /\ EntriesFirst'
<1>1. \A t \in Tickets, l \in Legs : <<t, l>> \in Orders /\ <<t, l>>[1] = t
  BY DEF Orders
<1>2. EntriesFirst'
  BY <1>1 DEF TablesOK, EntriesFirst, Entry, Orders, Legs
<1>3. ASSUME NEW j \in Tasks
      PROVE  Inserting(task[j])'
  <2>1. CASE j = k
    BY <2>1 DEF Inserting
  <2>2. CASE j # k
    <3>1. task'[j] = task[j] /\ Inserting(task[j])
      BY <2>2 DEF Entering
    <3>2. QED
      BY <1>1, <3>1 DEF Inserting, Entry, Legs
  <2>3. QED
    BY <2>1, <2>2
<1>4. InsertsApart'
  BY DEF Entering, InsertsApart, At
<1>5. QED
  BY <1>2, <1>3, <1>4 DEF Entering

\* The exits a submission goes on to insert: those of its ticket, in order.
ExitLists == {<<"take_profit">>, <<"stop_loss">>, <<"take_profit", "stop_loss">>}

LEMMA ExitsAre ==
  ASSUME NEW r
  PROVE  ExitsOf(r) \in ExitLists \cup {<<>>}
<1>1. /\ <<"take_profit">> \o <<>> = <<"take_profit">>
      /\ <<>> \o <<"stop_loss">> = <<"stop_loss">>
      /\ <<>> \o <<>> = <<>>
  OBVIOUS
<1>2. <<"take_profit">> \o <<"stop_loss">> = <<"take_profit", "stop_loss">>
  <2> DEFINE both == <<"take_profit">> \o <<"stop_loss">>
  <2>1. both \in Seq({"take_profit", "stop_loss"}) /\ Len(both) = 2
    OBVIOUS
  <2>2. both[1] = "take_profit" /\ both[2] = "stop_loss"
    OBVIOUS
  <2> HIDE DEF both
  <2>3. both = <<"take_profit", "stop_loss">>
    BY <2>1, <2>2
  <2>4. QED
    BY <2>3 DEF both
<1>3. QED
  BY <1>1, <1>2, Zenon DEF ExitsOf, ExitLists

LEMMA RestOfExits ==
  ASSUME NEW exits \in ExitLists
  PROVE  /\ exits # <<>>
         /\ exits[1] = Head(exits) /\ Head(exits) \in {"take_profit", "stop_loss"}
         /\ \/ Tail(exits) = <<>>
            \/ /\ exits = <<"take_profit", "stop_loss">>
               /\ Tail(exits) = <<"stop_loss">>
         /\ Len(exits) \in {1, 2}
         /\ Len(exits) = 1 => Tail(exits) = <<>>
<1>1. CASE exits = <<"take_profit">>
  <2>1. Head(exits) = "take_profit" /\ Tail(exits) = <<>> /\ Len(exits) = 1
    BY <1>1
  <2>2. QED
    BY <1>1, <2>1
<1>2. CASE exits = <<"stop_loss">>
  <2>1. Head(exits) = "stop_loss" /\ Tail(exits) = <<>> /\ Len(exits) = 1
    BY <1>2
  <2>2. QED
    BY <1>2, <2>1
<1>3. CASE exits = <<"take_profit", "stop_loss">>
  <2>1. Head(exits) = "take_profit" /\ Tail(exits) = <<"stop_loss">> /\ Len(exits) = 2
    BY <1>3
  <2>2. QED
    BY <1>3, <2>1
<1>4. QED
  BY <1>1, <1>2, <1>3 DEF ExitLists

\* A fresh ticket's entry is written: its exits are not there yet, and the other
\* submissions under way are of other tickets.
LEMMA EntryEnters ==
  ASSUME TablesOK, Entering, NEW k \in Tasks, NEW t \in Tickets, NEW r, NEW p,
         status[Entry(t)] = "none", SetStatus(Entry(t), "new"),
         \A j \in Tasks \ {k} : task'[j] = task[j],
         \/ task'[k].pc # "insert"
         \/ task'[k] = AfterInsert(t, ExitsOf(r), p)
  PROVE  Entering' /\ EntriesFirst'
<1>1. \A u \in Tickets, l \in Legs : <<u, l>> \in Orders /\ <<u, l>>[1] = u
  BY DEF Orders
<1>2. Entry(t) \in Orders /\ \A l \in {"take_profit", "stop_loss"} :
        /\ <<t, l>> \in Orders /\ <<t, l>> # Entry(t) /\ status[<<t, l>>] = "none"
  BY <1>1 DEF Entry, Legs, TablesOK, EntriesFirst
<1>3. \A o \in Orders : status'[o] = IF o = Entry(t) THEN "new" ELSE status[o]
  BY DEF SetStatus, TablesOK
<1>4. EntriesFirst'
  BY <1>1, <1>3 DEF TablesOK, EntriesFirst, Entry, Orders, Legs
<1>5. task'[k].pc = "insert" =>
        /\ task'[k].ticket = t /\ task'[k].exits \in ExitLists
  <2>1. SUFFICES ASSUME task'[k].pc = "insert"
                 PROVE  task'[k].ticket = t /\ task'[k].exits \in ExitLists
    OBVIOUS
  <2>2. task'[k] = AfterInsert(t, ExitsOf(r), p) /\ AfterInsert(t, ExitsOf(r), p).pc = "insert"
    BY <2>1
  <2>3. ExitsOf(r) # <<>>
    BY <2>2 DEF AfterInsert, Idle
  <2>4. QED
    BY <2>2, <2>3, ExitsAre DEF AfterInsert
<1>6. ASSUME NEW j \in Tasks \ {k}, task[j].pc = "insert"
      PROVE  task[j].ticket # t
  <2>1. status[Entry(task[j].ticket)] # "none"
    BY <1>6 DEF Entering, Inserting
  <2>2. QED
    BY <2>1
<1>7. ASSUME NEW j \in Tasks
      PROVE  Inserting(task[j])'
  <2>1. CASE j = k
    <3>1. \A l \in {"take_profit", "stop_loss"} : status'[<<t, l>>] = "none"
      BY <1>2, <1>3
    <3>2. status'[Entry(t)] = "new"
      BY <1>2, <1>3
    <3>3. QED
      BY <1>5, <2>1, <3>1, <3>2 DEF Inserting, ExitLists
  <2>2. CASE j # k
    <3>1. task'[j] = task[j] /\ Inserting(task[j])
      BY <2>2 DEF Entering
    <3>2. SUFFICES ASSUME task[j].pc = "insert"
                   PROVE  Inserting(task[j])'
      BY <3>1 DEF Inserting
    <3>3. task[j].ticket # t /\ task[j].ticket \in Tickets
      BY <1>6, <2>2, <3>1, <3>2 DEF Inserting
    <3>4. \A l \in Legs : status'[<<task[j].ticket, l>>] = status[<<task[j].ticket, l>>]
      BY <1>1, <1>3, <3>3 DEF Entry
    <3>5. QED
      BY <3>1, <3>2, <3>4 DEF Inserting, Entry, Legs
  <2>3. QED
    BY <2>1, <2>2
<1>8. InsertsApart'
  BY <1>5, <1>6 DEF Entering, InsertsApart, At
<1>9. QED
  BY <1>4, <1>7, <1>8 DEF Entering

\* The next exit is written behind the entry that is there.
LEMMA ExitEnters ==
  ASSUME TablesOK, Entering, NEW k \in Tasks, At(k, "insert"),
         SetStatus(<<task[k].ticket, Head(task[k].exits)>>, "held"),
         \A j \in Tasks \ {k} : task'[j] = task[j],
         task'[k] = AfterInsert(task[k].ticket, Tail(task[k].exits), task[k].price)
  PROVE  /\ Entering' /\ EntriesFirst'
         /\ LET o == <<task[k].ticket, Head(task[k].exits)>>
            IN  /\ o \in Orders /\ o # Entry(task[k].ticket) /\ status[o] = "none"
                /\ \A x \in Orders : status'[x] = IF x = o THEN "held" ELSE status[x]
<1> DEFINE t == task[k].ticket
           l == Head(task[k].exits)
           o == <<t, l>>
<1>1. \A u \in Tickets, m \in Legs : <<u, m>> \in Orders /\ <<u, m>>[1] = u
  BY DEF Orders
<1>2. Inserting(task[k]) /\ task[k].pc = "insert"
  BY DEF Entering, At
<1>3. /\ t \in Tickets /\ status[Entry(t)] # "none" /\ task[k].exits \in ExitLists
  BY <1>2 DEF Inserting, ExitLists
<1>4. l \in {"take_profit", "stop_loss"}
  BY <1>3, RestOfExits
<1>5. status[o] = "none"
  <2>1. CASE l = "take_profit"
    BY <1>2, <1>3, <2>1, RestOfExits DEF Inserting
  <2>2. CASE l = "stop_loss"
    <3>1. task[k].exits = <<"stop_loss">>
      BY <1>3, <2>2 DEF ExitLists
    <3>2. task[k].exits[Len(task[k].exits)] = "stop_loss"
      BY <3>1
    <3>3. QED
      BY <1>2, <2>2, <3>2 DEF Inserting
  <2>3. QED
    BY <1>4, <2>1, <2>2
<1>6. o \in Orders /\ o[1] = t /\ o # Entry(t)
  BY <1>1, <1>3, <1>4 DEF Entry, Legs
<1>7. \A x \in Orders : status'[x] = IF x = o THEN "held" ELSE status[x]
  BY DEF SetStatus, TablesOK
<1>8. \A j \in Tasks \ {k} : task[j].pc = "insert" => task[j].ticket # t
  BY <1>2 DEF Entering, InsertsApart, At
<1>9. EntriesFirst'
  BY <1>1, <1>3, <1>6, <1>7 DEF TablesOK, EntriesFirst, Entry, Orders, Legs
<1>10. task'[k].pc = "insert" =>
         /\ task'[k].ticket = t
         /\ task[k].exits = <<"take_profit", "stop_loss">> /\ task'[k].exits = <<"stop_loss">>
  <2>1. SUFFICES ASSUME task'[k].pc = "insert"
                 PROVE  /\ task'[k].ticket = t
                        /\ task[k].exits = <<"take_profit", "stop_loss">>
                        /\ task'[k].exits = <<"stop_loss">>
    OBVIOUS
  <2>2. Tail(task[k].exits) # <<>>
    BY <2>1 DEF AfterInsert, Idle
  <2>3. QED
    BY <1>3, <2>2, RestOfExits DEF AfterInsert
<1>11. ASSUME NEW j \in Tasks
       PROVE  Inserting(task[j])'
  <2>1. CASE j = k
    <3>1. SUFFICES ASSUME task'[k].pc = "insert"
                   PROVE  Inserting(task[j])'
      BY <2>1 DEF Inserting
    <3>2. /\ task'[k].ticket = t /\ task'[k].exits = <<"stop_loss">>
          /\ task[k].exits = <<"take_profit", "stop_loss">>
      BY <1>10, <3>1
    <3>3. l = "take_profit" /\ status[<<t, "stop_loss">>] = "none"
      BY <1>2, <3>2 DEF Inserting
    <3>4. status'[<<t, "stop_loss">>] = "none" /\ status'[Entry(t)] # "none"
      BY <1>1, <1>3, <1>7, <3>3 DEF Entry, Legs
    <3>5. QED
      BY <1>3, <2>1, <3>2, <3>4 DEF Inserting
  <2>2. CASE j # k
    <3>1. task'[j] = task[j] /\ Inserting(task[j])
      BY <2>2 DEF Entering
    <3>2. SUFFICES ASSUME task[j].pc = "insert"
                   PROVE  Inserting(task[j])'
      BY <3>1 DEF Inserting
    <3>3. task[j].ticket # t /\ task[j].ticket \in Tickets
      BY <1>8, <2>2, <3>1, <3>2 DEF Inserting
    <3>4. \A m \in Legs : status'[<<task[j].ticket, m>>] = status[<<task[j].ticket, m>>]
      BY <1>1, <1>7, <3>3
    <3>5. QED
      BY <3>1, <3>2, <3>4 DEF Inserting, Entry, Legs
  <2>3. QED
    BY <2>1, <2>2
<1>12. InsertsApart'
  BY <1>8, <1>10 DEF Entering, InsertsApart, At
<1>13. QED
  BY <1>5, <1>6, <1>7, <1>9, <1>11, <1>12 DEF Entering

-----------------------------------------------------------------------------
(* The steps of the other tasks.                                           *)

\* Rows that appear, unfilled, beside those the filler works on do not disturb
\* it.
LEMMA FillerUndisturbed ==
  ASSUME NEW f \in Tasks, TasksInv(f), task'[f] = task[f],
         UNCHANGED <<account, applied, crashes>>,
         \A o \in Orders : status[o] # "none" =>
           status'[o] = status[o] /\ ticket'[o[1]] = ticket[o[1]],
         \A o \in Orders : status[o] = "none" => status'[o] # "filled"
  PROVE  FillsApplyAtMostOnce' /\ FillerOK(task[f])' /\ Squared(f)'
<1> DEFINE s == task[f]
<1>1. FillsApplyAtMostOnce'
  BY DEF TasksInv, FillsApplyAtMostOnce
<1>2. FillerOK(s) /\ Inserting(s) /\ Squared(f) /\ task'[f] = s
  BY DEF TasksInv, Entering
<1>3. ASSUME NEW rows, LiveRows(rows)
      PROVE  LiveRows(rows)'
  BY <1>3 DEF LiveRows
<1>4. ASSUME NEW o \in Orders, status[o] = "filled"
      PROVE  FilledQty(o)' = FilledQty(o) /\ OcoSiblings(o)' = OcoSiblings(o)
  BY <1>4 DEF FilledQty, Side, OcoSiblings
<1>5. s.pc \in FillPhases => InFill(s)'
  <2>1. SUFFICES ASSUME InFill(s)
                 PROVE  InFill(s)'
    BY <1>2 DEF FillerOK
  <2>2. s.order \in Orders /\ status[s.order] = "filled" /\ GoesOn(s.then)
    BY <2>1 DEF InFill
  <2>3. status'[s.order] = "filled"
    BY <2>2
  <2>4. GoesOn(s.then)'
    BY <1>2, <1>3, <2>2 DEF GoesOn
  <2>5. FilledQty(s.order)' = FilledQty(s.order) /\ OcoSiblings(s.order)' = OcoSiblings(s.order)
    BY <1>4, <2>2
  <2>6. QED
    BY <1>2, <2>1, <2>2, <2>3, <2>4, <2>5 DEF InFill
<1>6. s.pc = "insert" => s.ticket \in Tickets /\ Entry(s.ticket) \in Orders
  BY <1>2 DEF Inserting, Entry, Orders, Legs
<1>7. s.pc = "close_cancel" => (s.rows \subseteq WorkingOrders)'
  BY <1>2 DEF FillerOK, WorkingOrders, Working
<1>8. FillerOK(task[f])'
  BY <1>2, <1>3, <1>5, <1>6, <1>7 DEF FillerOK, Working
<1>9. Squared(f)'
  <2>1. \A o \in Orders : status'[o] = "filled" <=> status[o] = "filled"
    OBVIOUS
  <2>2. \A o \in FilledOrders : ticket'[o[1]] = ticket[o[1]]
    BY DEF FilledOrders
  <2>3. /\ IsFiniteSet(FilledOrders')
        /\ SumFunctionOnSet(QtyOf, FilledOrders)' = SumFunctionOnSet(QtyOf, FilledOrders)
    BY <1>2, <2>1, <2>2, SameFills DEF Squared
  <2>4. account' = account /\ crashes' = crashes /\ Pending(task[f])' = Pending(task[f])
    BY <1>2 DEF Pending
  <2>5. QED
    BY <1>2, <2>3, <2>4, Zenon DEF Squared
<1>10. QED
  BY <1>1, <1>8, <1>9

\* A step of a task that leaves the tables, or moves a price.
LEMMA OtherQuietStep ==
  ASSUME NEW f \in Tasks, TasksInv(f), NEW k \in Tasks \ {f}, NEW s, Goto(k, s),
         s.pc # "insert", OtherOK(s),
         UNCHANGED <<ticket, status, account, applied, crashes>>
  PROVE  TasksInv(f)'
<1>1. DOMAIN task' = Tasks /\ task'[k] = s /\ \A j \in Tasks \ {k} : task'[j] = task[j]
  BY GotoMoves DEF TasksInv, TablesOK
<1>2. Entering' /\ EntriesFirst'
  BY <1>1, EnteringStays DEF TasksInv
<1>3. TablesOK'
  BY <1>1, <1>2 DEF TasksInv, TablesOK
<1>4. FillsApplyAtMostOnce' /\ FillerOK(task[f])' /\ Squared(f)'
  BY <1>1, FillerUndisturbed
<1>5. \A j \in Tasks \ {f} : OtherOK(task'[j])
  BY <1>1 DEF TasksInv
<1>6. QED
  BY <1>2, <1>3, <1>4, <1>5 DEF TasksInv, OtherOK

\* A ticket that rests: its entry is written ...
LEMMA OtherInsertsEntry ==
  ASSUME NEW f \in Tasks, TasksInv(f), NEW k \in Tasks \ {f}, NEW t \in Tickets,
         InsertEntry(k, t)
  PROVE  TasksInv(f)'
<1> DEFINE r == task[k].resolved
           s == AfterInsert(t, ExitsOf(r), None)
<1>1. task[k].pc = "entry" /\ r \in Submissions /\ ~FillsNow(r, task[k].price)
  BY DEF InsertEntry, At, TasksInv, OtherOK
<1>2. /\ Insert(t, r) /\ SetStatus(Entry(t), "new") /\ Goto(k, s)
      /\ UNCHANGED <<account, applied, crashes>>
  BY <1>1 DEF InsertEntry
<1>3. DOMAIN task' = Tasks /\ task'[k] = s /\ \A j \in Tasks \ {k} : task'[j] = task[j]
  BY <1>2, GotoMoves DEF TasksInv, TablesOK
<1>4. r.qty \in Int
  BY <1>1, SubmissionsAssumption DEF ResolvedOrder, Shares
<1>5. status[Entry(t)] = "none"
  BY <1>2 DEF Insert
<1>6. Entering' /\ EntriesFirst'
  BY <1>2, <1>3, <1>5, EntryEnters DEF TasksInv
<1>7. /\ DOMAIN ticket' = Tickets /\ \A u \in Tickets : ticket'[u].qty \in Int
      /\ \A o \in Orders : status[o] # "none" => o[1] # t /\ ticket'[o[1]] = ticket[o[1]]
  BY <1>2, <1>4, FreshTicket DEF TasksInv
<1>8. /\ status' \in [Orders -> Statuses]
      /\ \A o \in Orders : status'[o] = IF o = Entry(t) THEN "new" ELSE status[o]
  BY <1>2 DEF SetStatus, TasksInv, TablesOK, Statuses
<1>9. TablesOK'
  BY <1>2, <1>3, <1>6, <1>7, <1>8 DEF TasksInv, TablesOK
<1>10. FillsApplyAtMostOnce' /\ FillerOK(task[f])' /\ Squared(f)'
  BY <1>2, <1>3, <1>5, <1>7, <1>8, FillerUndisturbed
<1>11. OtherOK(s)
  BY DEF AfterInsert, OtherOK, Idle
<1>12. \A j \in Tasks \ {f} : OtherOK(task'[j])
  BY <1>3, <1>11 DEF TasksInv
<1>13. QED
  BY <1>6, <1>9, <1>10, <1>12 DEF TasksInv, OtherOK

\* ... and its exits, one by one.
LEMMA OtherInsertsExit ==
  ASSUME NEW f \in Tasks, TasksInv(f), NEW k \in Tasks \ {f}, InsertExit(k)
  PROVE  TasksInv(f)'
<1> DEFINE o == <<task[k].ticket, Head(task[k].exits)>>
           s == AfterInsert(task[k].ticket, Tail(task[k].exits), task[k].price)
<1>1. /\ At(k, "insert") /\ SetStatus(o, "held") /\ Goto(k, s)
      /\ UNCHANGED <<ticket, account, applied, crashes>>
  BY DEF InsertExit
<1>2. DOMAIN task' = Tasks /\ task'[k] = s /\ \A j \in Tasks \ {k} : task'[j] = task[j]
  BY <1>1, GotoMoves DEF TasksInv, TablesOK
<1>3. /\ Entering' /\ EntriesFirst'
      /\ o \in Orders /\ status[o] = "none"
      /\ \A x \in Orders : status'[x] = IF x = o THEN "held" ELSE status[x]
  BY <1>1, <1>2, ExitEnters DEF TasksInv
<1>4. status' \in [Orders -> Statuses]
  BY <1>1 DEF SetStatus, TasksInv, TablesOK, Statuses
<1>5. TablesOK'
  BY <1>1, <1>2, <1>3, <1>4 DEF TasksInv, TablesOK
<1>6. FillsApplyAtMostOnce' /\ FillerOK(task[f])' /\ Squared(f)'
  BY <1>1, <1>2, <1>3, FillerUndisturbed
<1>7. task[k].price = None
  BY <1>1 DEF TasksInv, OtherOK, At
<1>8. OtherOK(s)
  BY <1>7 DEF AfterInsert, OtherOK, Idle
<1>9. \A j \in Tasks \ {f} : OtherOK(task'[j])
  BY <1>2, <1>8 DEF TasksInv
<1>10. QED
  BY <1>3, <1>5, <1>6, <1>9 DEF TasksInv, OtherOK

\* No step of another task disturbs the filler.
LEMMA OtherStep ==
  ASSUME NEW f \in Tasks, OnlyFills(f), TasksInv(f), NEW k \in Tasks \ {f},
         FillStep(k) \/ BeginStep(k) \/ HandlerStep(k)
  PROVE  TasksInv(f)'
<1>1. /\ Requests[k] \subseteq {"submit", "replace"}
      /\ "submit" \in Requests[k] =>
           \A r \in Submissions, p \in Prices \cup {None} : ~FillsNow(r, p)
  BY DEF OnlyFills
<1>2. OtherOK(task[k])
  BY DEF TasksInv
<1>3. task[k].pc \in {"idle", "entry", "insert", "replace"}
  BY <1>2 DEF OtherOK
<1>4. CASE \E r \in Submissions, p \in Prices \cup {None} : BeginSubmit(k, r, p)
  <2>1. PICK r \in Submissions, p \in Prices \cup {None} : BeginSubmit(k, r, p)
    BY <1>4
  <2> DEFINE s == [pc |-> "entry", resolved |-> r, price |-> p]
  <2>2. /\ "submit" \in Requests[k] /\ Goto(k, s)
        /\ UNCHANGED <<ticket, status, account, applied, crashes>>
    BY <2>1 DEF BeginSubmit, Begin, tables
  <2>3. OtherOK(s) /\ s.pc # "insert"
    BY <1>1, <2>2 DEF OtherOK
  <2> HIDE DEF s
  <2>4. QED
    BY <2>2, <2>3, OtherQuietStep
<1>5. CASE \E o \in Orders, x \in Prices, p \in Prices \cup {None} : BeginReplace(k, o, x, p)
  <2>1. PICK o \in Orders, x \in Prices, p \in Prices \cup {None} : BeginReplace(k, o, x, p)
    BY <1>5
  <2>2. PICK column \in {"stop", "limit"} :
          Goto(k, [pc |-> "replace", order |-> o, column |-> column, price |-> x])
    BY <2>1 DEF BeginReplace
  <2> DEFINE s == [pc |-> "replace", order |-> o, column |-> column, price |-> x]
  <2>3. UNCHANGED <<ticket, status, account, applied, crashes>>
    BY <2>1 DEF BeginReplace, tables
  <2>4. OtherOK(s) /\ s.pc # "insert" /\ Goto(k, s)
    BY <2>2 DEF OtherOK
  <2> HIDE DEF s
  <2>5. QED
    BY <2>3, <2>4, OtherQuietStep
<1>6. CASE WriteReplace(k)
  <2>1. OtherOK(Idle) /\ Idle.pc # "insert"
    BY DEF OtherOK, Idle
  <2>2. Goto(k, Idle) /\ UNCHANGED <<ticket, status, account, applied, crashes>>
    BY <1>6 DEF WriteReplace
  <2>3. QED
    BY <2>1, <2>2, OtherQuietStep
<1>7. CASE \E t \in Tickets : InsertEntry(k, t)
  BY <1>7, OtherInsertsEntry
<1>8. CASE InsertExit(k)
  BY <1>8, OtherInsertsExit
<1>9. ~FillStep(k)
  BY <1>3 DEF FillStep, MarkSubmitted, CancelOcoSiblings, ActivateChildren, ReadPosition,
              WritePosition, InsertTrade, AddCash, At
<1>10. BeginStep(k) => \/ \E r \in Submissions, p \in Prices \cup {None} : BeginSubmit(k, r, p)
                       \/ \E o \in Orders, x \in Prices, p \in Prices \cup {None} :
                            BeginReplace(k, o, x, p)
  BY <1>1 DEF BeginStep, BeginPoll, BeginCancel, BeginClose, Begin
<1>11. HandlerStep(k) => \/ \E t \in Tickets : InsertEntry(k, t)
                         \/ InsertExit(k) \/ WriteReplace(k)
  BY <1>3 DEF HandlerStep, InsertClosing, PollFill, CancelMarked, CancelRest, ReadWorking,
              CancelWorking, At
<1>12. QED
  BY <1>4, <1>5, <1>6, <1>7, <1>8, <1>9, <1>10, <1>11

-----------------------------------------------------------------------------
(* The steps of the filler.                                                *)

\* Wherever the filler goes, the others stay.
LEMMA FillerMoves ==
  ASSUME NEW f \in Tasks, TasksInv(f), NEW s, Goto(f, s), s.pc # "insert",
         \A o \in Orders : status'[o] = "none" <=> status[o] = "none"
  PROVE  /\ DOMAIN task' = Tasks /\ task'[f] = s
         /\ Entering' /\ EntriesFirst'
         /\ \A j \in Tasks \ {f} : OtherOK(task[j])'
<1>1. DOMAIN task' = Tasks /\ task'[f] = s /\ \A j \in Tasks \ {f} : task'[j] = task[j]
  BY GotoMoves DEF TasksInv, TablesOK
<1>2. Entering' /\ EntriesFirst'
  BY <1>1, EnteringStays DEF TasksInv
<1>3. \A j \in Tasks \ {f} : OtherOK(task[j])'
  BY <1>1 DEF TasksInv, OtherOK
<1>4. QED
  BY <1>1, <1>2, <1>3

\* A step that writes no row, fills none and has as much of a fill in hand as
\* before.
LEMMA FillerRowsStep ==
  ASSUME NEW f \in Tasks, TasksInv(f), NEW s, Goto(f, s), s.pc # "insert",
         UNCHANGED <<ticket, account, applied, crashes>>, status' \in [Orders -> Statuses],
         \A o \in Orders : status'[o] = "none" <=> status[o] = "none",
         \A o \in Orders : status'[o] = "filled" <=> status[o] = "filled",
         FillerOK(s)', Pending(s) = Pending(task[f])
  PROVE  TasksInv(f)'
<1>1. /\ DOMAIN task' = Tasks /\ task'[f] = s
      /\ Entering' /\ EntriesFirst'
      /\ \A j \in Tasks \ {f} : OtherOK(task[j])'
  BY FillerMoves
<1>2. TablesOK'
  BY <1>1 DEF TasksInv, TablesOK
<1>3. FillsApplyAtMostOnce'
  BY DEF TasksInv, FillsApplyAtMostOnce
<1>4. /\ IsFiniteSet(FilledOrders')
      /\ SumFunctionOnSet(QtyOf, FilledOrders)' = SumFunctionOnSet(QtyOf, FilledOrders)
  BY SameFills DEF TasksInv, Squared
<1>5. Pending(task[f])' = Pending(task[f])
  BY <1>1 DEF Pending
<1>6. Squared(f)'
  BY <1>4, <1>5, Zenon DEF TasksInv, Squared
<1>7. FillerOK(task[f])'
  BY <1>1, Zenon
<1>8. QED
  BY <1>1, <1>2, <1>3, <1>6, <1>7 DEF TasksInv

\* A step that only reads.
LEMMA FillerQuietStep ==
  ASSUME NEW f \in Tasks, TasksInv(f), NEW s, Goto(f, s), s.pc # "insert",
         UNCHANGED <<ticket, status, account, applied, crashes>>,
         FillerOK(s), Pending(s) = Pending(task[f])
  PROVE  TasksInv(f)'
<1>1. InFill(s) => InFill(s)'
  BY DEF InFill, GoesOn, LiveRows, OcoSiblings, FilledQty, Side
<1>2. FillerOK(s)'
  BY <1>1 DEF FillerOK, LiveRows, WorkingOrders
<1>3. status' \in [Orders -> Statuses]
  BY DEF TasksInv, TablesOK
<1>4. QED
  BY <1>2, <1>3, FillerRowsStep

\* An order is marked filled: its shares are in hand.
LEMMA MarkStep ==
  ASSUME NEW f \in Tasks, TasksInv(f), Pending(task[f]) = 0,
         NEW o \in Orders, status[o] = "new", NEW price, NEW then, GoesOn(then),
         then.pc = "poll" => \A row \in then.rows :
                               row.order # o /\ row.order \notin OcoSiblings(o),
         Mark(f, o, price, then)
  PROVE  TasksInv(f)'
<1>0. PICK s : s = FillTask(AfterMark(o), o, price, then)
  OBVIOUS
<1>1. /\ SetStatus(o, "filled") /\ Goto(f, s)
      /\ UNCHANGED <<ticket, account, applied, crashes>>
  BY <1>0 DEF Mark
<1>2. /\ s = [pc |-> s.pc, order |-> s.order, price |-> s.price, delta |-> s.delta, then |-> s.then]
      /\ s.order = o /\ s.delta = FilledQty(o) /\ s.then = then
      /\ s.pc \in {"oco", "activate", "read"}
  BY <1>0 DEF FillTask, AfterMark, FilledQty
<1>3. /\ status' \in [Orders -> Statuses]
      /\ \A x \in Orders : status'[x] = IF x = o THEN "filled" ELSE status[x]
  BY <1>1 DEF SetStatus, TasksInv, TablesOK, Statuses
<1>4. /\ DOMAIN task' = Tasks /\ task'[f] = s
      /\ Entering' /\ EntriesFirst'
      /\ \A j \in Tasks \ {f} : OtherOK(task[j])'
  BY <1>1, <1>2, <1>3, FillerMoves
<1>5. TablesOK'
  BY <1>1, <1>3, <1>4 DEF TasksInv, TablesOK
<1>6. applied[o].position = 0 /\ applied[o].cash = 0
  BY DEF TasksInv, TablesOK, FillsApplyAtMostOnce
<1>7. FillsApplyAtMostOnce'
  BY <1>1, <1>3 DEF TasksInv, FillsApplyAtMostOnce
<1>8. GoesOn(then)'
  BY <1>3 DEF GoesOn, LiveRows
<1>9. FilledQty(o)' = FilledQty(o) /\ OcoSiblings(o)' = OcoSiblings(o)
  BY <1>1 DEF FilledQty, Side, OcoSiblings
<1>10. InFill(s)'
  BY <1>1, <1>2, <1>3, <1>6, <1>8, <1>9 DEF InFill, BeforeWrite
<1>11. FillerOK(s)'
  BY <1>2, <1>10 DEF FillerOK, FillPhases
<1>12. /\ IsFiniteSet(FilledOrders')
       /\ SumFunctionOnSet(QtyOf, FilledOrders)'
            = SumFunctionOnSet(QtyOf, FilledOrders) + FilledQty(o)
  BY <1>1, OneMoreFilled DEF TasksInv, Squared
<1>13. Pending(task[f])' = FilledQty(o)
  BY <1>2, <1>4 DEF Pending, BeforeWrite
<1>14. Squared(f)'
  <2>1. crashes = 0 => account.shares + 0 = SumFunctionOnSet(QtyOf, FilledOrders)
    BY DEF TasksInv, Squared
  <2>2. account.shares \in Int
    BY DEF TasksInv, TablesOK
  <2>3. account' = account /\ crashes' = crashes
    BY <1>1
  <2> DEFINE before == SumFunctionOnSet(QtyOf, FilledOrders)
             after == SumFunctionOnSet(QtyOf, FilledOrders)'
             filled == IsFiniteSet(FilledOrders')
  <2>4. filled /\ after = before + FilledQty(o) /\ (crashes = 0 => account.shares + 0 = before)
    BY <1>12, <2>1, Zenon
  <2> HIDE DEF before, after, filled
  <2>5. filled /\ (crashes = 0 => account.shares + FilledQty(o) = after)
    BY <2>2, <2>4
  <2>6. filled /\ (crashes' = 0 => account'.shares + Pending(task[f])' = after)
    BY <1>13, <2>3, <2>5
  <2>7. QED
    BY <2>6, Zenon DEF Squared, after, filled
<1>15. FillerOK(task[f])'
  BY <1>4, <1>11, Zenon
<1>16. QED
  BY <1>4, <1>5, <1>7, <1>14, <1>15 DEF TasksInv

LEMMA MarkSubmittedStep ==
  ASSUME NEW f \in Tasks, TasksInv(f), MarkSubmitted(f)
  PROVE  TasksInv(f)'
<1>1. /\ task[f].pc = "mark" /\ Mark(f, task[f].order, task[f].price, Idle)
      /\ FillerOK(task[f])
  BY DEF MarkSubmitted, At, TasksInv
<1>2. task[f].order \in Orders /\ status[task[f].order] = "new"
  BY <1>1 DEF FillerOK
<1>3. Pending(task[f]) = 0
  BY <1>1 DEF Pending, BeforeWrite
<1>4. GoesOn(Idle) /\ Idle.pc # "poll"
  BY DEF GoesOn, Idle
<1>5. QED
  BY <1>1, <1>2, <1>3, <1>4, MarkStep

\* The fill loop marks one row of its list; the rest of the list is live yet.
LEMMA PollFillStep ==
  ASSUME NEW f \in Tasks, TasksInv(f), PollFill(f)
  PROVE  TasksInv(f)'
<1>1. task[f].pc = "poll" /\ FillerOK(task[f])
  BY DEF PollFill, At, TasksInv
<1>2. LiveRows(task[f].rows)
  BY <1>1 DEF FillerOK
<1>3. PICK row \in task[f].rows :
        LET rest == {other \in task[f].rows :
                       other # row /\ other.order \notin OcoSiblings(row.order)}
        IN  Mark(f, row.order, row.price, PollTask(rest))
  BY DEF PollFill
<1> DEFINE rest == {other \in task[f].rows :
                      other # row /\ other.order \notin OcoSiblings(row.order)}
           o == row.order
           then == PollTask(rest)
<1>4. o \in Orders /\ status[o] = "new"
  BY <1>2 DEF LiveRows
<1>5. LiveRows(rest) /\ \A other \in rest : other.order # o /\ other.order \notin OcoSiblings(o)
  BY <1>2 DEF LiveRows
<1>6. Pending(task[f]) = 0
  BY <1>1 DEF Pending, BeforeWrite
<1>7. Mark(f, o, row.price, then)
  BY <1>3
<1> HIDE DEF rest, o
<1>8. GoesOn(then) /\ (then.pc = "poll" => then.rows = rest)
  BY <1>5 DEF PollTask, GoesOn, Idle
<1> HIDE DEF then
<1>9. QED
  BY <1>4, <1>5, <1>6, <1>7, <1>8, MarkStep

\* The phases of a fill after its mark, up to the position.
LEMMA FillRowsSteps ==
  ASSUME NEW f \in Tasks, TasksInv(f), CancelOcoSiblings(f) \/ ActivateChildren(f)
  PROVE  TasksInv(f)'
<1>0. PICK s : s = [task[f] EXCEPT !.pc = "read"]
  OBVIOUS
<1>1. /\ task[f].pc \in {"oco", "activate"} /\ Goto(f, s)
      /\ UNCHANGED <<ticket, account, applied, crashes>>
  BY <1>0 DEF CancelOcoSiblings, ActivateChildren, At
<1>2. InFill(task[f])
  BY <1>1 DEF TasksInv, FillerOK, FillPhases
<1>3. /\ s = [pc |-> s.pc, order |-> s.order, price |-> s.price, delta |-> s.delta, then |-> s.then]
         \/ s = [pc |-> s.pc, order |-> s.order, price |-> s.price, delta |-> s.delta,
                 then |-> s.then, after |-> s.after]
      /\ s.pc = "read" /\ s.order = task[f].order /\ s.then = task[f].then
      /\ s.delta = task[f].delta
  BY <1>0, <1>2 DEF InFill
<1>4. status \in [Orders -> Statuses]
  BY DEF TasksInv, TablesOK
<1>5. \/ task[f].pc = "oco" /\ status' = CancelIn(status, OcoSiblings(s.order))
      \/ status' = [o \in Orders |->
                      IF o \in Children(s.order) /\ status[o] = "held" THEN "new" ELSE status[o]]
  BY <1>3 DEF CancelOcoSiblings, ActivateChildren, At
<1>6. /\ status' \in [Orders -> Statuses]
      /\ \A o \in Orders : status'[o] = "none" <=> status[o] = "none"
      /\ \A o \in Orders : status'[o] = "filled" <=> status[o] = "filled"
      /\ \A o \in Orders : status[o] = "new" =>
           status'[o] = "new" \/ (task[f].pc = "oco" /\ o \in OcoSiblings(s.order))
  BY <1>4, <1>5 DEF CancelIn, Statuses, Working
<1>7. GoesOn(s.then)'
  <2>1. GoesOn(s.then) /\ (task[f].pc = "oco" /\ s.then.pc = "poll" =>
           \A row \in s.then.rows : row.order \notin OcoSiblings(s.order))
    BY <1>2, <1>3 DEF InFill
  <2>2. QED
    BY <1>6, <2>1 DEF GoesOn, LiveRows
<1>8. FilledQty(s.order)' = FilledQty(s.order)
  BY <1>1 DEF FilledQty, Side
<1>9. InFill(s)'
  BY <1>1, <1>2, <1>3, <1>6, <1>7, <1>8 DEF InFill, BeforeWrite
<1>10. FillerOK(s)'
  BY <1>3, <1>9 DEF FillerOK, FillPhases
<1>11. Pending(s) = Pending(task[f])
  BY <1>1, <1>3 DEF Pending, BeforeWrite
<1>12. QED
  BY <1>1, <1>3, <1>6, <1>10, <1>11, FillerRowsStep

LEMMA ReadPositionStep ==
  ASSUME NEW f \in Tasks, TasksInv(f), ReadPosition(f)
  PROVE  TasksInv(f)'
<1>1. task[f].pc = "read" /\ InFill(task[f])
  BY DEF ReadPosition, At, TasksInv, FillerOK, FillPhases
<1>2. PICK after : /\ after = ApplyFill([account EXCEPT !.trades = {}], task[f].order,
                                        task[f].delta, task[f].price)
                   /\ Goto(f, [pc |-> "write", order |-> task[f].order, delta |-> task[f].delta,
                               price |-> task[f].price, then |-> task[f].then, after |-> after])
  BY DEF ReadPosition
<1>3. after.shares = account.shares + task[f].delta
  <2>1. [account EXCEPT !.trades = {}].shares = account.shares
    BY DEF TasksInv, TablesOK
  <2>2. after.shares = [account EXCEPT !.trades = {}].shares + task[f].delta
    BY <1>2 DEF ApplyFill
  <2>3. QED
    BY <2>1, <2>2
<1> DEFINE s == [pc |-> "write", order |-> task[f].order, delta |-> task[f].delta,
                 price |-> task[f].price, then |-> task[f].then, after |-> after]
<1>4. InFill(s)
  BY <1>1, <1>3 DEF InFill, BeforeWrite
<1>5. FillerOK(s) /\ s.pc # "insert" /\ Pending(s) = Pending(task[f])
  BY <1>1, <1>4 DEF FillerOK, FillPhases, Pending, BeforeWrite
<1>6. UNCHANGED <<ticket, status, account, applied, crashes>>
  BY DEF ReadPosition, tables
<1>7. Goto(f, s)
  BY <1>2
<1> HIDE DEF s
<1>8. QED
  BY <1>5, <1>6, <1>7, FillerQuietStep

\* A step within a fill that leaves the rows: what is left is the account, the
\* history and the fill itself.
LEMMA FillAccountStep ==
  ASSUME NEW f \in Tasks, TasksInv(f), NEW s, Goto(f, s), s.pc # "insert",
         UNCHANGED <<ticket, status, crashes>>,
         DOMAIN account' = {"shares", "opener", "trades", "cash"}, account'.shares \in Int,
         applied' \in [Orders -> [position : Nat, cash : Nat]], FillsApplyAtMostOnce',
         FillerOK(s)', account'.shares + Pending(s) = account.shares + Pending(task[f])
  PROVE  TasksInv(f)'
<1>1. /\ DOMAIN task' = Tasks /\ task'[f] = s
      /\ Entering' /\ EntriesFirst'
      /\ \A j \in Tasks \ {f} : OtherOK(task[j])'
  BY FillerMoves
<1>2. TablesOK'
  BY <1>1 DEF TasksInv, TablesOK
<1>3. /\ IsFiniteSet(FilledOrders')
      /\ SumFunctionOnSet(QtyOf, FilledOrders)' = SumFunctionOnSet(QtyOf, FilledOrders)
  BY SameFills DEF TasksInv, Squared
<1>4. account'.shares + Pending(task[f])' = account.shares + Pending(task[f])
  BY <1>1 DEF Pending
<1>5. Squared(f)'
  BY <1>3, <1>4, Zenon DEF TasksInv, Squared
<1>6. FillerOK(task[f])'
  BY <1>1, Zenon
<1>7. QED
  BY <1>1, <1>2, <1>5, <1>6 DEF TasksInv

\* The position takes the shares of the fill.
LEMMA WritePositionStep ==
  ASSUME NEW f \in Tasks, TasksInv(f), WritePosition(f)
  PROVE  TasksInv(f)'
<1>0. PICK s : s = [task[f] EXCEPT !.pc = IF task[f].after.trades = {} THEN "cash" ELSE "trade"]
  OBVIOUS
<1>1. /\ task[f].pc = "write" /\ Goto(f, s)
      /\ account' = [account EXCEPT !.shares = task[f].after.shares, !.opener = task[f].after.opener]
      /\ applied' = [applied EXCEPT ![task[f].order].position = @ + 1]
      /\ UNCHANGED <<ticket, status, crashes>>
  BY <1>0 DEF WritePosition, At
<1>2. InFill(task[f])
  BY <1>1 DEF TasksInv, FillerOK, FillPhases
<1>3. /\ s = [pc |-> s.pc, order |-> s.order, price |-> s.price, delta |-> s.delta, then |-> s.then]
         \/ s = [pc |-> s.pc, order |-> s.order, price |-> s.price, delta |-> s.delta,
                 then |-> s.then, after |-> s.after]
      /\ s.pc \in {"cash", "trade"} /\ s.order = task[f].order /\ s.then = task[f].then
      /\ s.delta = task[f].delta
  BY <1>0, <1>2 DEF InFill
<1>4. /\ s.order \in Orders /\ status[s.order] = "filled"
      /\ applied[s.order].position = 0 /\ applied[s.order].cash = 0
      /\ task[f].after.shares = account.shares + s.delta /\ s.delta = FilledQty(s.order)
  BY <1>1, <1>2, <1>3 DEF InFill, BeforeWrite
<1>5. account.shares \in Int /\ s.delta \in Int
  BY <1>4, SharesAreNumbers DEF TasksInv, TablesOK
<1>6. DOMAIN account' = {"shares", "opener", "trades", "cash"} /\ account'.shares = account.shares + s.delta
  BY <1>1, <1>4 DEF TasksInv, TablesOK
<1>7. /\ applied' \in [Orders -> [position : Nat, cash : Nat]]
      /\ applied'[s.order].position = 1 /\ applied'[s.order].cash = 0
      /\ \A o \in Orders : o # s.order => applied'[o] = applied[o]
  <2>1. applied \in [Orders -> [position : Nat, cash : Nat]]
    BY DEF TasksInv, TablesOK
  <2>2. applied' = [applied EXCEPT ![s.order].position = @ + 1]
    BY <1>1, <1>3
  <2>3. QED
    BY <1>4, <2>1, <2>2
<1>8. FillsApplyAtMostOnce'
  BY <1>1, <1>4, <1>7 DEF TasksInv, FillsApplyAtMostOnce
<1>9. GoesOn(s.then)' /\ FilledQty(s.order)' = FilledQty(s.order)
  BY <1>1, <1>2, <1>3 DEF InFill, GoesOn, LiveRows, FilledQty, Side
<1>10. InFill(s)'
  BY <1>1, <1>3, <1>4, <1>7, <1>9 DEF InFill, BeforeWrite
<1>11. FillerOK(s)'
  BY <1>3, <1>10 DEF FillerOK, FillPhases
<1>12. Pending(s) = 0 /\ Pending(task[f]) = s.delta
  BY <1>1, <1>3 DEF Pending, BeforeWrite
<1>13. account'.shares \in Int /\ account'.shares + Pending(s) = account.shares + Pending(task[f])
  BY <1>5, <1>6, <1>12
<1>14. QED
  BY <1>1, <1>3, <1>6, <1>7, <1>8, <1>11, <1>13, FillAccountStep

\* The trade and the cash follow; the trade may be refused.
LEMMA InsertTradeStep ==
  ASSUME NEW f \in Tasks, TasksInv(f), InsertTrade(f)
  PROVE  TasksInv(f)'
<1>0. PICK s : s = IF task[f].after.trades \subseteq account.trades THEN Idle
                   ELSE [task[f] EXCEPT !.pc = "cash"]
  OBVIOUS
<1>1. /\ task[f].pc = "trade" /\ Goto(f, s)
      /\ account' = [account EXCEPT !.trades = @ \cup task[f].after.trades]
      /\ UNCHANGED <<ticket, status, crashes, applied>>
  BY <1>0 DEF InsertTrade, At
<1>2. InFill(task[f])
  BY <1>1 DEF TasksInv, FillerOK, FillPhases
<1>3. account.shares \in Int /\ DOMAIN account' = {"shares", "opener", "trades", "cash"}
      /\ account'.shares = account.shares
  BY <1>1 DEF TasksInv, TablesOK
<1>4. applied' \in [Orders -> [position : Nat, cash : Nat]] /\ FillsApplyAtMostOnce'
  BY <1>1 DEF TasksInv, TablesOK, FillsApplyAtMostOnce
<1>5. FillerOK(s)' /\ s.pc \in {"idle", "cash"}
  <2>1. CASE s = Idle
    BY <2>1 DEF FillerOK, Idle, FillPhases
  <2>2. CASE s = [task[f] EXCEPT !.pc = "cash"]
    <3>1. /\ s = [pc |-> s.pc, order |-> s.order, price |-> s.price, delta |-> s.delta,
                  then |-> s.then]
             \/ s = [pc |-> s.pc, order |-> s.order, price |-> s.price, delta |-> s.delta,
                     then |-> s.then, after |-> s.after]
          /\ s.pc = "cash" /\ s.order = task[f].order /\ s.then = task[f].then
          /\ s.delta = task[f].delta
      BY <1>2, <2>2 DEF InFill
    <3>2. GoesOn(s.then)' /\ FilledQty(s.order)' = FilledQty(s.order)
      BY <1>1, <1>2, <3>1 DEF InFill, GoesOn, LiveRows, FilledQty, Side
    <3>3. InFill(s)'
      BY <1>1, <1>2, <3>1, <3>2 DEF InFill, BeforeWrite
    <3>4. QED
      BY <3>1, <3>3 DEF FillerOK, FillPhases
  <2>3. QED
    BY <1>0, <2>1, <2>2
<1>6. Pending(s) = 0 /\ Pending(task[f]) = 0
  BY <1>1, <1>5 DEF Pending, BeforeWrite
<1>7. QED
  BY <1>1, <1>3, <1>4, <1>5, <1>6, FillAccountStep

LEMMA AddCashStep ==
  ASSUME NEW f \in Tasks, TasksInv(f), AddCash(f)
  PROVE  TasksInv(f)'
<1>0. PICK s : s = task[f].then
  OBVIOUS
<1>1. /\ task[f].pc = "cash" /\ Goto(f, s)
      /\ account' = [account EXCEPT !.cash = @ - task[f].delta * task[f].price]
      /\ applied' = [applied EXCEPT ![task[f].order].cash = @ + 1]
      /\ UNCHANGED <<ticket, status, crashes>>
  BY <1>0 DEF AddCash, At
<1>2. InFill(task[f])
  BY <1>1 DEF TasksInv, FillerOK, FillPhases
<1>3. account.shares \in Int /\ DOMAIN account' = {"shares", "opener", "trades", "cash"}
      /\ account'.shares = account.shares
  BY <1>1 DEF TasksInv, TablesOK
<1>4. PICK o \in Orders : /\ o = task[f].order /\ status[o] = "filled"
                          /\ applied[o].position = 1 /\ applied[o].cash = 0
  BY <1>1, <1>2 DEF InFill, BeforeWrite
<1>5. /\ applied' \in [Orders -> [position : Nat, cash : Nat]]
      /\ applied'[o].position = 1 /\ applied'[o].cash = 1
      /\ \A x \in Orders : x # o => applied'[x] = applied[x]
  <2>1. applied \in [Orders -> [position : Nat, cash : Nat]]
    BY DEF TasksInv, TablesOK
  <2>2. applied' = [applied EXCEPT ![o].cash = @ + 1]
    BY <1>1, <1>4
  <2>3. QED
    BY <1>4, <2>1, <2>2
<1>6. FillsApplyAtMostOnce'
  BY <1>1, <1>4, <1>5 DEF TasksInv, FillsApplyAtMostOnce
<1>7. s.pc \in {"idle", "poll"} /\ FillerOK(s)'
  <2>1. GoesOn(s)
    BY <1>0, <1>2 DEF InFill
  <2>2. QED
    BY <1>1, <2>1 DEF GoesOn, FillerOK, FillPhases, LiveRows
<1>8. Pending(s) = 0 /\ Pending(task[f]) = 0
  BY <1>1, <1>7 DEF Pending, BeforeWrite
<1>9. QED
  BY <1>1, <1>3, <1>5, <1>6, <1>7, <1>8, FillAccountStep

\* The filler inserts rows of its own: nothing is filled, nothing in hand.
LEMMA FillerInserts ==
  ASSUME NEW f \in Tasks, TasksInv(f), NEW s, Goto(f, s),
         UNCHANGED <<account, applied, crashes>>, status' \in [Orders -> Statuses],
         DOMAIN ticket' = Tickets, \A u \in Tickets : ticket'[u].qty \in Int,
         \A o \in Orders : status[o] # "none" =>
           status'[o] = status[o] /\ ticket'[o[1]] = ticket[o[1]],
         \A o \in Orders : status[o] = "none" => status'[o] # "filled",
         Entering', EntriesFirst', FillerOK(s)', Pending(s) = 0, Pending(task[f]) = 0
  PROVE  TasksInv(f)'
<1>1. DOMAIN task' = Tasks /\ task'[f] = s /\ \A j \in Tasks \ {f} : task'[j] = task[j]
  BY GotoMoves DEF TasksInv, TablesOK
<1>2. TablesOK'
  BY <1>1 DEF TasksInv, TablesOK
<1>3. FillsApplyAtMostOnce'
  BY DEF TasksInv, FillsApplyAtMostOnce
<1>4. \A o \in Orders : status'[o] = "filled" <=> status[o] = "filled"
  OBVIOUS
<1>5. \A o \in FilledOrders : ticket'[o[1]] = ticket[o[1]]
  BY DEF FilledOrders
<1>6. /\ IsFiniteSet(FilledOrders')
      /\ SumFunctionOnSet(QtyOf, FilledOrders)' = SumFunctionOnSet(QtyOf, FilledOrders)
  BY <1>4, <1>5, SameFills DEF TasksInv, Squared
<1>7. Pending(task[f])' = Pending(task[f])
  BY <1>1 DEF Pending
<1>8. Squared(f)'
  BY <1>6, <1>7, Zenon DEF TasksInv, Squared
<1>9. FillerOK(task[f])'
  BY <1>1, Zenon
<1>10. \A j \in Tasks \ {f} : OtherOK(task[j])'
  BY <1>1 DEF TasksInv, OtherOK
<1>11. QED
  BY <1>2, <1>3, <1>8, <1>9, <1>10 DEF TasksInv

\* An entry of the filler, and the market order of a close.
LEMMA FillerInsertsEntry ==
  ASSUME NEW f \in Tasks, TasksInv(f), NEW t \in Tickets, NEW r, r.qty \in Int, NEW p, NEW s,
         Goto(f, s), Insert(t, r), SetStatus(Entry(t), "new"),
         UNCHANGED <<account, applied, crashes>>, Pending(task[f]) = 0,
         \/ s.pc = "mark" /\ s.order = Entry(t)
         \/ s = AfterInsert(t, ExitsOf(r), p)
  PROVE  TasksInv(f)'
<1>1. task'[f] = s /\ \A j \in Tasks \ {f} : task'[j] = task[j]
  BY GotoMoves DEF TasksInv, TablesOK
<1>2. status[Entry(t)] = "none"
  BY DEF Insert
<1>3. Entering' /\ EntriesFirst'
  <2>1. task'[f].pc # "insert" \/ task'[f] = AfterInsert(t, ExitsOf(r), p)
    BY <1>1
  <2>2. QED
    BY <1>1, <1>2, <2>1, EntryEnters DEF TasksInv
<1>4. /\ DOMAIN ticket' = Tickets /\ \A u \in Tickets : ticket'[u].qty \in Int
      /\ \A o \in Orders : status[o] # "none" => o[1] # t /\ ticket'[o[1]] = ticket[o[1]]
  BY FreshTicket DEF TasksInv
<1>5. /\ status' \in [Orders -> Statuses]
      /\ \A o \in Orders : status'[o] = IF o = Entry(t) THEN "new" ELSE status[o]
  BY DEF SetStatus, TasksInv, TablesOK, Statuses
<1>6. Entry(t) \in Orders /\ status'[Entry(t)] = "new"
  BY <1>5 DEF Entry, Orders, Legs
<1>7. /\ s.pc \in {"mark", "insert", "idle"}
      /\ s.pc = "mark" => s.order = Entry(t)
      /\ s.pc = "insert" => s.ticket = t
  BY DEF AfterInsert, Idle
<1>8. FillerOK(s)'
  BY <1>6, <1>7 DEF FillerOK, FillPhases
<1>9. Pending(s) = 0
  BY <1>7 DEF Pending, BeforeWrite
<1>10. QED
  BY <1>2, <1>3, <1>4, <1>5, <1>8, <1>9, FillerInserts

LEMMA InsertEntryStep ==
  ASSUME NEW f \in Tasks, TasksInv(f), NEW t \in Tickets, InsertEntry(f, t)
  PROVE  TasksInv(f)'
<1>1. PICK r : r = task[f].resolved
  OBVIOUS
<1>2. PICK p : p = IF FillsNow(r, task[f].price) THEN task[f].price ELSE None
  OBVIOUS
<1>3. PICK s : s = AfterInsert(t, ExitsOf(r), p)
  OBVIOUS
<1>4. /\ task[f].pc = "entry" /\ Insert(t, r) /\ SetStatus(Entry(t), "new") /\ Goto(f, s)
      /\ UNCHANGED <<account, applied, crashes>>
  BY <1>1, <1>2, <1>3 DEF InsertEntry, At
<1>5. r \in Submissions
  BY <1>1, <1>4 DEF TasksInv, FillerOK
<1>6. r.qty \in Int
  BY <1>5, SubmissionsAssumption DEF ResolvedOrder, Shares
<1>7. Pending(task[f]) = 0
  BY <1>4 DEF Pending, BeforeWrite
<1>8. QED
  BY <1>3, <1>4, <1>6, <1>7, FillerInsertsEntry

LEMMA InsertClosingStep ==
  ASSUME NEW f \in Tasks, TasksInv(f), NEW t \in Tickets, InsertClosing(f, t)
  PROVE  TasksInv(f)'
<1>1. PICK r : r = task[f].resolved
  OBVIOUS
<1>2. PICK s : s = [pc |-> "mark", order |-> Entry(t), price |-> task[f].price]
  OBVIOUS
<1>3. /\ task[f].pc = "close_cancel" /\ Insert(t, r) /\ SetStatus(Entry(t), "new") /\ Goto(f, s)
      /\ UNCHANGED <<account, applied, crashes>>
  BY <1>1, <1>2 DEF InsertClosing, At
<1>4. r.qty \in Int
  BY <1>1, <1>3 DEF TasksInv, FillerOK
<1>5. Pending(task[f]) = 0 /\ s.pc = "mark" /\ s.order = Entry(t)
  BY <1>2, <1>3 DEF Pending, BeforeWrite
<1>6. QED
  BY <1>3, <1>4, <1>5, FillerInsertsEntry

LEMMA InsertExitStep ==
  ASSUME NEW f \in Tasks, TasksInv(f), InsertExit(f)
  PROVE  TasksInv(f)'
<1>1. PICK s : s = AfterInsert(task[f].ticket, Tail(task[f].exits), task[f].price)
  OBVIOUS
<1>2. PICK o : o = <<task[f].ticket, Head(task[f].exits)>>
  OBVIOUS
<1>3. /\ At(f, "insert") /\ task[f].pc = "insert" /\ SetStatus(o, "held") /\ Goto(f, s)
      /\ UNCHANGED <<ticket, account, applied, crashes>>
  BY <1>1, <1>2 DEF InsertExit, At
<1>4. task'[f] = s /\ \A j \in Tasks \ {f} : task'[j] = task[j]
  BY <1>3, GotoMoves DEF TasksInv, TablesOK
<1>5. /\ Entering' /\ EntriesFirst'
      /\ o \in Orders /\ o # Entry(task[f].ticket) /\ status[o] = "none"
      /\ \A x \in Orders : status'[x] = IF x = o THEN "held" ELSE status[x]
  BY <1>1, <1>2, <1>3, <1>4, ExitEnters DEF TasksInv
<1>6. status' \in [Orders -> Statuses]
  BY <1>3 DEF SetStatus, TasksInv, TablesOK, Statuses
<1>7. task[f].ticket \in Tickets /\ Entry(task[f].ticket) \in Orders
  BY <1>3 DEF TasksInv, Entering, Inserting, Entry, Orders, Legs
<1>8. task[f].price # None => status'[Entry(task[f].ticket)] = "new"
  <2>1. task[f].price # None => status[Entry(task[f].ticket)] = "new"
    BY <1>3 DEF TasksInv, FillerOK
  <2>2. QED
    BY <1>5, <1>7, <2>1
<1>9. /\ s.pc \in {"mark", "insert", "idle"}
      /\ s.pc = "mark" => s.order = Entry(task[f].ticket) /\ task[f].price # None
      /\ s.pc = "insert" => s.ticket = task[f].ticket /\ s.price = task[f].price
  BY <1>1 DEF AfterInsert, Idle
<1>10. FillerOK(s)'
  BY <1>7, <1>8, <1>9 DEF FillerOK, FillPhases
<1>11. Pending(s) = 0 /\ Pending(task[f]) = 0
  BY <1>3, <1>9 DEF Pending, BeforeWrite
<1>12. DOMAIN ticket' = Tickets /\ \A u \in Tickets : ticket'[u].qty \in Int
  BY <1>3 DEF TasksInv, TablesOK
<1>13. QED
  BY <1>3, <1>5, <1>6, <1>10, <1>11, <1>12, FillerInserts

\* Cancels of working orders fill nothing and unfill nothing.
LEMMA CancelSteps ==
  ASSUME NEW f \in Tasks, TasksInv(f), CancelMarked(f) \/ CancelRest(f) \/ CancelWorking(f)
  PROVE  TasksInv(f)'
<1>1. status \in [Orders -> Statuses] /\ FillerOK(task[f])
  BY DEF TasksInv, TablesOK
<1>2. CASE CancelMarked(f)
  <2>1. PICK o : o = task[f].order
    OBVIOUS
  <2>2. PICK s : s = IF OcoSiblings(o) # {} \/ IsEntry(o) THEN [task[f] EXCEPT !.pc = "cancel_rest"]
                     ELSE Idle
    OBVIOUS
  <2>3. /\ task[f].pc = "cancel" /\ SetStatus(o, "canceled") /\ Goto(f, s)
        /\ UNCHANGED <<ticket, account, applied, crashes>>
    BY <1>2, <2>1, <2>2 DEF CancelMarked, At
  <2>4. /\ task[f] = [pc |-> task[f].pc, order |-> o]
        /\ o \in Orders /\ status[o] \in Working
    BY <1>1, <2>1, <2>3 DEF FillerOK
  <2>5. s = Idle \/ (s.pc = "cancel_rest" /\ s.order = o)
    BY <2>2, <2>4
  <2>6. FillerOK(s)' /\ Pending(s) = 0 /\ Pending(task[f]) = 0 /\ s.pc # "insert"
    BY <2>3, <2>4, <2>5 DEF FillerOK, FillPhases, Idle, Pending, BeforeWrite
  <2>7. status' \in [Orders -> Statuses] /\ \A x \in Orders :
          status'[x] = IF x = o THEN "canceled" ELSE status[x]
    BY <1>1, <2>3 DEF SetStatus, Statuses
  <2>8. QED
    BY <2>3, <2>4, <2>6, <2>7, FillerRowsStep DEF Working
<1>3. CASE CancelRest(f)
  <2>1. /\ task[f].pc = "cancel_rest" /\ Goto(f, Idle)
        /\ \E S : status' = CancelIn(status, S)
        /\ UNCHANGED <<ticket, account, applied, crashes>>
    BY <1>3 DEF CancelRest, At
  <2>2. FillerOK(Idle)' /\ Pending(Idle) = 0 /\ Pending(task[f]) = 0 /\ Idle.pc # "insert"
    BY <2>1 DEF FillerOK, FillPhases, Idle, Pending, BeforeWrite
  <2>3. /\ status' \in [Orders -> Statuses]
        /\ \A o \in Orders : status'[o] = "none" <=> status[o] = "none"
        /\ \A o \in Orders : status'[o] = "filled" <=> status[o] = "filled"
    BY <1>1, <2>1 DEF CancelIn, Statuses, Working
  <2>4. QED
    BY <2>1, <2>2, <2>3, FillerRowsStep
<1>4. CASE CancelWorking(f)
  <2>1. PICK o \in task[f].rows : /\ SetStatus(o, "canceled")
                                  /\ Goto(f, [task[f] EXCEPT !.rows = @ \ {o}])
    BY <1>4 DEF CancelWorking
  <2>2. PICK s : s = [task[f] EXCEPT !.rows = @ \ {o}]
    OBVIOUS
  <2>3. /\ task[f].pc = "close_cancel" /\ Goto(f, s)
        /\ UNCHANGED <<ticket, account, applied, crashes>>
    BY <1>4, <2>1, <2>2 DEF CancelWorking, At
  <2>4. /\ task[f] = [pc |-> task[f].pc, price |-> task[f].price,
                      resolved |-> task[f].resolved, rows |-> task[f].rows]
        /\ task[f].resolved.qty \in Int
        /\ task[f].rows \subseteq WorkingOrders
    BY <1>1, <2>3 DEF FillerOK
  <2>5. /\ s = [pc |-> s.pc, price |-> s.price, resolved |-> s.resolved, rows |-> s.rows]
        /\ s.pc = "close_cancel" /\ s.resolved.qty \in Int
        /\ s.rows = task[f].rows \ {o}
    BY <2>2, <2>3, <2>4
  <2>6. o \in Orders /\ status[o] \in Working
    BY <2>4 DEF WorkingOrders
  <2>7. status' \in [Orders -> Statuses] /\ \A x \in Orders :
          status'[x] = IF x = o THEN "canceled" ELSE status[x]
    BY <1>1, <2>1 DEF SetStatus, Statuses
  <2>8. (s.rows \subseteq WorkingOrders)'
    BY <2>4, <2>5, <2>7 DEF WorkingOrders
  <2>9. FillerOK(s)' /\ Pending(s) = 0 /\ Pending(task[f]) = 0
    BY <2>3, <2>5, <2>8 DEF FillerOK, FillPhases, Pending, BeforeWrite
  <2>10. QED
    BY <2>3, <2>5, <2>6, <2>7, <2>9, FillerRowsStep DEF Working
<1>5. QED
  BY <1>2, <1>3, <1>4

\* A handler begins with what it reads.
LEMMA BeginsStep ==
  ASSUME NEW f \in Tasks, TasksInv(f), BeginStep(f)
  PROVE  TasksInv(f)'
<1>1. task[f].pc = "idle"
  BY DEF BeginStep, BeginSubmit, BeginPoll, BeginCancel, BeginReplace, BeginClose, Begin, At
<1>2. Pending(task[f]) = 0
  BY <1>1 DEF Pending, BeforeWrite
<1>3. UNCHANGED <<ticket, status, account, applied, crashes>>
  BY DEF BeginStep, BeginSubmit, BeginPoll, BeginCancel, BeginReplace, BeginClose, tables
<1>4. CASE \E r \in Submissions, p \in Prices \cup {None} : BeginSubmit(f, r, p)
  <2>1. PICK r \in Submissions, p \in Prices \cup {None} : BeginSubmit(f, r, p)
    BY <1>4
  <2>2. PICK s : s = [pc |-> "entry", resolved |-> r, price |-> p]
    OBVIOUS
  <2>3. Goto(f, s) /\ FillerOK(s) /\ Pending(s) = 0 /\ s.pc # "insert"
    BY <2>1, <2>2 DEF BeginSubmit, FillerOK, FillPhases, Pending, BeforeWrite
  <2>4. QED
    BY <1>2, <1>3, <2>3, FillerQuietStep
<1>5. CASE \E p \in Prices : BeginPoll(f, p)
  <2>1. PICK p \in Prices : BeginPoll(f, p)
    BY <1>5
  <2>2. PICK rows : rows = {[order |-> o, price |-> TriggerPrice(o)] :
                              o \in {o \in Orders : status[o] = "new" /\ Crosses(o, p)}}
    OBVIOUS
  <2>3. LiveRows(rows)
    BY <2>2 DEF LiveRows
  <2>4. PICK s : s = PollTask(rows)
    OBVIOUS
  <2>5. Goto(f, s)
    BY <2>1, <2>2, <2>4 DEF BeginPoll
  <2>6. FillerOK(s) /\ Pending(s) = 0 /\ s.pc # "insert"
    BY <2>3, <2>4 DEF PollTask, Idle, FillerOK, FillPhases, Pending, BeforeWrite
  <2>7. QED
    BY <1>2, <1>3, <2>5, <2>6, FillerQuietStep
<1>6. CASE \E o \in Orders : BeginCancel(f, o)
  <2>1. PICK o \in Orders : BeginCancel(f, o)
    BY <1>6
  <2>2. PICK s : s = [pc |-> "cancel", order |-> o]
    OBVIOUS
  <2>3. Goto(f, s) /\ FillerOK(s) /\ Pending(s) = 0 /\ s.pc # "insert"
    BY <2>1, <2>2 DEF BeginCancel, FillerOK, FillPhases, Pending, BeforeWrite
  <2>4. QED
    BY <1>2, <1>3, <2>3, FillerQuietStep
<1>7. CASE \E o \in Orders, x \in Prices, p \in Prices \cup {None} : BeginReplace(f, o, x, p)
  <2>1. PICK o \in Orders, x \in Prices, p \in Prices \cup {None} : BeginReplace(f, o, x, p)
    BY <1>7
  <2>2. PICK s : s.pc = "replace" /\ Goto(f, s)
    BY <2>1 DEF BeginReplace
  <2>3. FillerOK(s) /\ Pending(s) = 0 /\ s.pc # "insert"
    BY <2>2 DEF FillerOK, FillPhases, Pending, BeforeWrite
  <2>4. QED
    BY <1>2, <1>3, <2>2, <2>3, FillerQuietStep
<1>8. CASE \E q \in Shares, p \in Prices : BeginClose(f, q, p)
  <2>1. PICK q \in Shares, p \in Prices : BeginClose(f, q, p)
    BY <1>8
  <2>2. PICK n : n = IF q >= Magnitude(account.shares) THEN Magnitude(account.shares) ELSE q
    OBVIOUS
  <2>3. n \in Int
    BY <2>2 DEF Magnitude, Shares, TasksInv, TablesOK
  <2>4. PICK r : r = MarketOrder(IF account.shares > 0 THEN "sell" ELSE "buy", n)
    OBVIOUS
  <2>5. r.qty = n
    BY <2>4 DEF MarketOrder, NoTicket
  <2>6. PICK s : s = [pc |-> "close", price |-> p, resolved |-> r]
    OBVIOUS
  <2>7. Goto(f, s)
    BY <2>1, <2>2, <2>4, <2>6 DEF BeginClose
  <2>8. FillerOK(s) /\ Pending(s) = 0 /\ s.pc # "insert"
    BY <2>3, <2>5, <2>6 DEF FillerOK, FillPhases, Pending, BeforeWrite
  <2>9. QED
    BY <1>2, <1>3, <2>7, <2>8, FillerQuietStep
<1>9. QED
  BY <1>4, <1>5, <1>6, <1>7, <1>8 DEF BeginStep

\* The re-pricing of a row, and the list a close reads.
LEMMA OtherHandlersStep ==
  ASSUME NEW f \in Tasks, TasksInv(f), WriteReplace(f) \/ ReadWorking(f)
  PROVE  TasksInv(f)'
<1>1. CASE WriteReplace(f)
  <2>1. /\ task[f].pc = "replace" /\ Goto(f, Idle)
        /\ UNCHANGED <<ticket, status, account, applied, crashes>>
    BY <1>1 DEF WriteReplace, At
  <2>2. FillerOK(Idle) /\ Pending(Idle) = 0 /\ Pending(task[f]) = 0 /\ Idle.pc # "insert"
    BY <2>1 DEF FillerOK, FillPhases, Idle, Pending, BeforeWrite
  <2>3. QED
    BY <2>1, <2>2, FillerQuietStep
<1>2. CASE ReadWorking(f)
  <2>1. PICK s : s = [pc |-> "close_cancel", price |-> task[f].price,
                      resolved |-> task[f].resolved, rows |-> WorkingOrders]
    OBVIOUS
  <2>2. /\ task[f].pc = "close" /\ Goto(f, s)
        /\ UNCHANGED <<ticket, status, account, applied, crashes>>
    BY <1>2, <2>1 DEF ReadWorking, At, tables
  <2>3. s.resolved.qty \in Int
    BY <2>1, <2>2 DEF TasksInv, FillerOK
  <2>4. FillerOK(s) /\ Pending(s) = 0 /\ Pending(task[f]) = 0 /\ s.pc # "insert"
    BY <2>1, <2>2, <2>3 DEF FillerOK, FillPhases, Pending, BeforeWrite
  <2>5. QED
    BY <2>2, <2>4, FillerQuietStep
<1>3. QED
  BY <1>1, <1>2

\* The process stops: what the handlers had in hand is lost.
LEMMA CrashStep ==
  ASSUME NEW f \in Tasks, TasksInv(f), Crash
  PROVE  TasksInv(f)'
<1>1. /\ task' = [k \in Tasks |-> Idle] /\ crashes' = crashes + 1
      /\ UNCHANGED <<ticket, status, account, applied>>
  BY DEF Crash, tables
<1>2. \A k \in Tasks : task'[k].pc = "idle"
  BY <1>1 DEF Idle
<1>3. TablesOK'
  BY <1>1 DEF TasksInv, TablesOK, EntriesFirst
<1>4. Entering'
  BY <1>2 DEF Entering, Inserting, InsertsApart, At
<1>5. FillsApplyAtMostOnce'
  BY <1>1 DEF TasksInv, FillsApplyAtMostOnce
<1>6. FillerOK(task[f])'
  BY <1>2 DEF FillerOK, FillPhases
<1>7. \A k \in Tasks \ {f} : OtherOK(task[k])'
  BY <1>2 DEF OtherOK
<1>8. IsFiniteSet(FilledOrders')
  BY <1>1, SameFills DEF TasksInv, Squared
<1>9. crashes' # 0
  BY <1>1 DEF TasksInv, TablesOK
<1>10. Squared(f)'
  BY <1>8, <1>9, Zenon DEF Squared
<1>11. QED
  BY <1>3, <1>4, <1>5, <1>6, <1>7, <1>10 DEF TasksInv

LEMMA TasksStutter ==
  ASSUME NEW f \in Tasks, TasksInv(f), UNCHANGED <<tables, task, crashes, applied>>
  PROVE  TasksInv(f)'
<1>1. task' = task /\ UNCHANGED <<ticket, status, account, crashes, applied>>
  BY DEF tables
<1>2. TablesOK' /\ Entering' /\ FillsApplyAtMostOnce'
  BY <1>1 DEF TasksInv, TablesOK, EntriesFirst, Entering, Inserting, InsertsApart, At,
              FillsApplyAtMostOnce
<1>3. FillerOK(task[f])' /\ Squared(f)'
  BY <1>1, FillerUndisturbed
<1>4. \A k \in Tasks \ {f} : OtherOK(task[k])'
  BY <1>1 DEF TasksInv, OtherOK
<1>5. QED
  BY <1>2, <1>3, <1>4 DEF TasksInv

LEMMA TasksInvStep ==
  ASSUME NEW f \in Tasks, OnlyFills(f), TasksInv(f), [TasksNext]_taskVars
  PROVE  TasksInv(f)'
<1>1. CASE UNCHANGED taskVars
  BY <1>1, TasksStutter DEF taskVars
<1>2. CASE Crash
  BY <1>2, CrashStep
<1>3. ASSUME NEW k \in Tasks \ {f}, FillStep(k) \/ BeginStep(k) \/ HandlerStep(k)
      PROVE  TasksInv(f)'
  BY <1>3, OtherStep
<1>4. CASE FillStep(f)
  BY <1>4, MarkSubmittedStep, FillRowsSteps, ReadPositionStep, WritePositionStep,
     InsertTradeStep, AddCashStep DEF FillStep
<1>5. CASE BeginStep(f)
  BY <1>5, BeginsStep
<1>6. CASE HandlerStep(f)
  BY <1>6, InsertEntryStep, InsertClosingStep, InsertExitStep, PollFillStep, CancelSteps,
     OtherHandlersStep DEF HandlerStep
<1>7. QED
  BY <1>1, <1>2, <1>3, <1>4, <1>5, <1>6 DEF TasksNext

LEMMA TasksInvInit ==
  ASSUME NEW f \in Tasks, TasksInit
  PROVE  TasksInv(f)
<1>1. /\ ticket = [t \in Tickets |-> NoTicket] /\ status = [o \in Orders |-> "none"]
      /\ account = EmptyAccount /\ task = [k \in Tasks |-> Idle] /\ crashes = 0
      /\ applied = [o \in Orders |-> [position |-> 0, cash |-> 0]]
  BY DEF TasksInit, Init, BookInit
<1>2. TablesOK
  BY <1>1 DEF TablesOK, EntriesFirst, Statuses, NoTicket, EmptyAccount
<1>3. \A k \in Tasks : task[k].pc = "idle"
  BY <1>1 DEF Idle
<1>4. Entering
  BY <1>3 DEF Entering, Inserting, InsertsApart, At
<1>5. FillsApplyAtMostOnce
  BY <1>1 DEF FillsApplyAtMostOnce
<1>6. FillerOK(task[f]) /\ \A k \in Tasks \ {f} : OtherOK(task[k])
  BY <1>3 DEF FillerOK, FillPhases, OtherOK
<1>7. FilledOrders = {}
  BY <1>1 DEF FilledOrders
<1>8. IsFiniteSet({}) /\ SumFunctionOnSet(QtyOf, {}) = 0
  BY SumOfNone, FS_EmptySet
<1>9. account.shares + Pending(task[f]) = 0
  BY <1>1 DEF Pending, BeforeWrite, Idle, EmptyAccount
<1>10. Squared(f)
  BY <1>7, <1>8, <1>9, Zenon DEF Squared
<1>11. QED
  BY <1>2, <1>4, <1>5, <1>6, <1>10 DEF TasksInv

\* While one task at a time fills, cancels and closes, whatever is re-priced or
\* submitted to rest beside it, no fill moves the position or the cash twice,
\* and none before its order is marked, across any restarts.
THEOREM OneFillerAppliesOnce ==
  OneFiller => (TasksSpec => []FillsApplyAtMostOnce)
<1>1. SUFFICES ASSUME NEW f \in Tasks, OnlyFills(f)
               PROVE  TasksSpec => []FillsApplyAtMostOnce
  BY DEF OneFiller, OnlyFills
<1>2. (TasksInit => TasksInv(f)) /\ (TasksInv(f) /\ [TasksNext]_taskVars => TasksInv(f)')
  BY <1>1, TasksInvInit, TasksInvStep
<1>3. TasksInv(f) => FillsApplyAtMostOnce
  BY DEF TasksInv
<1>4. QED
  BY <1>2, <1>3, PTL DEF TasksSpec

\* ... and between tasks, short of a restart, the position is what filled.
THEOREM OneFillerKeepsPosition ==
  OneFiller => (TasksSpec => []QuietPositionIsFills)
<1>1. SUFFICES ASSUME NEW f \in Tasks, OnlyFills(f)
               PROVE  TasksSpec => []QuietPositionIsFills
  BY DEF OneFiller, OnlyFills
<1>2. (TasksInit => TasksInv(f)) /\ (TasksInv(f) /\ [TasksNext]_taskVars => TasksInv(f)')
  BY <1>1, TasksInvInit, TasksInvStep
<1>3. TasksInv(f) => QuietPositionIsFills
  <2>1. SUFFICES ASSUME TasksInv(f), AllIdle, crashes = 0
                 PROVE  PositionIsFills
    BY DEF QuietPositionIsFills
  <2>2. Pending(task[f]) = 0
    BY <2>1 DEF AllIdle, Idle, Pending, BeforeWrite
  <2>3. account.shares = SumFunctionOnSet(QtyOf, FilledOrders)
    <3>1. account.shares + Pending(task[f]) = SumFunctionOnSet(QtyOf, FilledOrders)
      BY <2>1 DEF TasksInv, Squared
    <3>2. account.shares + Pending(task[f]) = account.shares
      BY <2>1, <2>2 DEF TasksInv, TablesOK
    <3>3. QED
      BY <3>1, <3>2, Zenon
  <2> DEFINE g == [o \in FilledOrders |-> FilledQty(o)]
  <2>4. IsFiniteSet(FilledOrders) /\ \A o \in FilledOrders : QtyOf[o] = g[o]
    BY <2>1 DEF TasksInv, Squared, QtyOf, FilledOrders
  <2>5. DOMAIN g = FilledOrders
    OBVIOUS
  <2>6. SumFunctionOnSet(QtyOf, FilledOrders) = SumFunctionOnSet(g, FilledOrders)
    <3> HIDE DEF g
    <3>1. QED
      BY <2>4, SumSame
  <2>7. SumFunction(g) = SumFunctionOnSet(g, FilledOrders)
    BY <2>5, Zenon DEF SumFunction, SumFunctionOnSet, FoldFunction
  <2>8. QED
    BY <2>3, <2>6, <2>7, Zenon DEF PositionIsFills
<1>4. QED
  BY <1>2, <1>3, PTL DEF TasksSpec
=============================================================================

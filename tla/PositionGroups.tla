---------------------------- MODULE PositionGroups ----------------------------
(***************************************************************************)
(* The option positions of one underlying, put back into the structures    *)
(* they were opened as.  A broker reports contracts one at a time;         *)
(* group_spreads pairs legs of two expiries, then sets shares aside for    *)
(* covered calls, then cuts what is left of each expiry by shape.  What a  *)
(* group is called decides what the simulated account reserves for it.     *)
(*                                                                         *)
(* The state is the book a user trades, one contract or lot of shares at a *)
(* time; everything else is computed from it, as the code computes it on   *)
(* every read.  Contracts of one underlying have one root here.            *)
(***************************************************************************)
EXTENDS Integers, Sequences, FiniteSets, SequencesExt, FiniteSetsExt

CONSTANTS
  Contracts,   \* [kind, strike, expiry] records: the contracts traded
  MaxHeld,     \* bound: contracts of one kind held either way
  MaxLegs,     \* bound: different contracts held at once
  ShareCounts, \* shares the account may hold
  Credits      \* net credits per share to try in what a group reserves

ASSUME ContractsAssumption ==
  \A c \in Contracts : c.kind \in {"call", "put"} /\ c.strike \in Nat /\ c.expiry \in Nat
ASSUME GroupBoundsAssumption == MaxHeld \in Nat /\ MaxLegs \in Nat /\ Credits \subseteq Nat

VARIABLES held, sharesHeld

groupVars == <<held, sharesHeld>>

Magnitude(n) == IF n < 0 THEN -n ELSE n

\* (strike, kind): at one strike the call comes first.
LegBefore(a, b) == a.strike < b.strike \/ (a.strike = b.strike /\ a.kind = "call" /\ b.kind = "put")
InOrder(legs) == SetToSortSeq(legs, LegBefore)

LegOf(c) == [kind |-> c.kind, strike |-> c.strike, expiry |-> c.expiry, qty |-> held[c]]
Legs == {LegOf(c) : c \in {k \in Contracts : held[k] # 0}}

-----------------------------------------------------------------------------
(* classify: legs of one expiry, in order.                                 *)

Called(strategy, qty) == [strategy |-> strategy, qty |-> qty, broken |-> FALSE]
Broken(qty) == [strategy |-> "broken", qty |-> qty, broken |-> TRUE]

OfKind(legs, kind) == SelectSeq(legs, LAMBDA l : l.kind = kind)
Sizes(legs) == {Magnitude(legs[i].qty) : i \in DOMAIN legs}
Balanced(legs) == Cardinality(Sizes(legs)) = 1
Signs(legs) == [i \in DOMAIN legs |-> IF legs[i].qty > 0 THEN "long" ELSE "short"]

IsVertical(legs) ==
  /\ Len(legs) = 2 /\ Balanced(legs)
  /\ legs[1].kind = legs[2].kind
  /\ Signs(legs)[1] # Signs(legs)[2]

VerticalName(legs) ==
  IF legs[1].kind = "call"
  THEN IF legs[1].qty > 0 THEN "bull_call" ELSE "bear_call"
  ELSE IF legs[1].qty > 0 THEN "bull_put" ELSE "bear_put"

\* A put and a call, both bought, the put not above the call.
IsLongPair(legs) ==
  /\ Len(legs) = 2 /\ Balanced(legs)
  /\ Signs(legs) = <<"long", "long">>
  /\ \E put, call \in ToSet(legs) :
       put.kind = "put" /\ call.kind = "call" /\ put.strike <= call.strike

IsButterfly(legs) ==
  /\ Len(legs) = 3
  /\ Cardinality({legs[i].kind : i \in 1..3}) = 1
  /\ Signs(legs) = <<"long", "short", "long">>
  /\ legs[1].qty = legs[3].qty
  /\ -legs[2].qty = 2 * legs[1].qty

\* Bought outside, sold inside, the sold put not above the sold call.
IsIron(legs) ==
  LET puts == OfKind(legs, "put") calls == OfKind(legs, "call")
  IN  /\ Len(puts) = 2 /\ Len(calls) = 2 /\ Balanced(legs)
      /\ Signs(puts) = <<"long", "short">>
      /\ Signs(calls) = <<"short", "long">>
      /\ puts[2].strike <= calls[1].strike

\* The ticket strategy the legs have the shape of.
Shape(legs) ==
  CASE Len(legs) = 1 /\ legs[1].qty > 0 -> IF legs[1].kind = "call" THEN "long_call" ELSE "long_put"
    [] Len(legs) = 1 /\ legs[1].qty < 0 /\ legs[1].kind = "put" -> "cash_secured_put"
    [] IsVertical(legs) -> VerticalName(legs)
    [] IsLongPair(legs) -> IF legs[1].strike = legs[2].strike THEN "long_straddle" ELSE "long_strangle"
    [] IsButterfly(legs) -> IF legs[1].kind = "call" THEN "call_butterfly" ELSE "put_butterfly"
    [] IsIron(legs) -> IF OfKind(legs, "put")[2].strike = OfKind(legs, "call")[1].strike
                       THEN "iron_butterfly" ELSE "iron_condor"
    [] OTHER -> "none"

Classify(legs) ==
  LET qty == IF legs = <<>> THEN 0 ELSE Min(Sizes(legs))
  IN  IF Shape(legs) # "none" THEN Called(Shape(legs), qty)
      ELSE IF Len(legs) \notin {1, 3} /\ Balanced(legs) THEN Called("custom", qty)
      ELSE Broken(qty)

Recognised(legs) == Shape(legs) # "none"

-----------------------------------------------------------------------------
(* split_by_shape: one expiry, the largest recognised structures first.    *)

Part(legs) == [legs |-> legs, is |-> Classify(legs)]
Subsequence(legs, S) == SelectSeq(legs, LAMBDA l : l \in S)

\* The order itertools.combinations yields them in: by the first leg in which
\* the two differ.
CombinationBefore(S, T) ==
  \E l \in S \ T : \A m \in (S \cup T) \ (S \cap T) : l = m \/ LegBefore(l, m)

\* One turn of the peeling loop: s is what is peeled so far and what is left.
Peel(s, size) ==
  LET shapes == {S \in kSubset(size, ToSet(s.left)) : Recognised(Subsequence(s.left, S))}
  IN  IF shapes = {} THEN s
      ELSE LET S == CHOOSE C \in shapes : \A D \in shapes \ {C} : CombinationBefore(C, D)
           IN  [parts |-> Append(s.parts, Part(Subsequence(s.left, S))),
                left |-> SelectSeq(s.left, LAMBDA l : l \notin S)]

\* Every size is tried until it finds nothing more.
Turns(n) == [i \in 1..(n \div 4 + n \div 3 + n \div 2) |->
               IF i <= n \div 4 THEN 4 ELSE IF i <= n \div 4 + n \div 3 THEN 3 ELSE 2]

\* Fault: what is left over beside a recognised structure is not shown.
LeftOverDropped(left) == <<>>

\* What no structure took: one group, or a group each if that is too many legs.
LeftOver(left) ==
  IF left = <<>> THEN <<>>
  ELSE IF Len(left) <= 4 THEN <<Part(left)>>
  ELSE [i \in DOMAIN left |-> Part(<<left[i]>>)]

PartBefore(p, q) == LegBefore(p.legs[1], q.legs[1])

SplitByShape(legs) ==
  LET peeled == FoldLeft(Peel, [parts |-> <<>>, left |-> legs], Turns(Len(legs)))
  IN  IF Len(legs) <= 1 \/ Recognised(legs) THEN <<Part(legs)>>
      ELSE IF Cardinality({l.kind : l \in ToSet(legs)}) = 1 /\ \A l \in ToSet(legs) : l.qty > 0
      THEN [i \in DOMAIN legs |-> Part(<<legs[i]>>)]
      ELSE IF peeled.parts = <<>> /\ Len(legs) <= 4 THEN <<Part(legs)>>
      ELSE SortSeq(peeled.parts \o LeftOver(peeled.left), PartBefore)

-----------------------------------------------------------------------------
(* group_spreads: pairs of two expiries, covered calls, the rest.          *)

\* (expiry, strike); a call and a put at the same place keep the order of the
\* report, here calls first.
Sooner(a, b) == a.expiry < b.expiry \/ (a.expiry = b.expiry /\ LegBefore(a, b))
ByExpiry(legs) == SetToSortSeq(legs, Sooner)

\* The nearest later expiry, then the nearest strike, then the first reported.
LongFor(short, longs) ==
  LET fits == {l \in longs : l.kind = short.kind /\ l.qty = -short.qty /\ l.expiry > short.expiry}
      gap(l) == Magnitude(l.strike - short.strike)
      better(l, m) == \/ l.expiry < m.expiry
                      \/ l.expiry = m.expiry /\ gap(l) < gap(m)
                      \/ l.expiry = m.expiry /\ gap(l) = gap(m) /\ l.strike <= m.strike
  IN  {l \in fits : \A m \in fits : better(l, m)}

\* s: the pairs found and the long legs they use.
Pair(s, short) ==
  LET found == LongFor(short, {l \in Legs : l.qty > 0} \ s.used)
  IN  [pairs |-> s.pairs \cup {<<short, l>> : l \in found}, used |-> s.used \cup found]

TimeSpreads ==
  FoldLeft(Pair, [pairs |-> {}, used |-> {}], ByExpiry({l \in Legs : l.qty < 0})).pairs

Paired == UNION {{p[1], p[2]} : p \in TimeSpreads}
Unpaired == Legs \ Paired

\* s: the short calls covered and the shares still free.
Cover(s, leg) ==
  IF s.free >= 100 * (-leg.qty)
  THEN [covered |-> s.covered \cup {leg}, free |-> s.free - 100 * (-leg.qty)]
  ELSE s

CoveredCalls ==
  FoldLeft(Cover, [covered |-> {}, free |-> sharesHeld],
           ByExpiry({l \in Unpaired : l.kind = "call" /\ l.qty < 0})).covered

Rest(expiry) == {l \in Unpaired \ CoveredCalls : l.expiry = expiry}

\* A group: its id within the underlying, its legs, and what it is.
Group(id, legs, is) == [id |-> id, legs |-> legs, is |-> is]

TimeGroup(short, long) ==
  LET name == IF short.strike = long.strike THEN "calendar" ELSE "diagonal"
  IN  Group(<<short.expiry, name, long.expiry, short.strike>>, <<short, long>>,
            Called(name, -short.qty))

CoveredGroup(leg) ==
  Group(<<leg.expiry, "cc", leg.strike>>, <<leg>>, Called("covered_call", -leg.qty))

\* The first part keeps the id an expiry's single group has.
ShapeId(expiry, index) == IF index = 1 THEN <<expiry>> ELSE <<expiry, index>>

ShapeGroups(expiry) ==
  LET parts == SplitByShape(InOrder(Rest(expiry)))
  IN  {Group(ShapeId(expiry, i), parts[i].legs, parts[i].is) : i \in DOMAIN parts}

Groups ==
  {TimeGroup(p[1], p[2]) : p \in TimeSpreads}
    \cup {CoveredGroup(l) : l \in CoveredCalls}
    \cup UNION {ShapeGroups(e) : e \in {l.expiry : l \in Unpaired \ CoveredCalls}}

-----------------------------------------------------------------------------
(* collateral_for: per share of one structure, for a credit taken in.      *)

Width(legs) ==
  LET strikes == {l.strike : l \in ToSet(legs)} IN Max(strikes) - Min(strikes)

\* Fault: the put side stands for both.
WingPutsOnly(legs) == Width(OfKind(legs, "put"))

\* An iron package can lose on one side only: the wider one.
Wing(legs) == Max({Width(OfKind(legs, "put")), Width(OfKind(legs, "call"))})

Reserved(g, credit) ==
  LET risk == IF Len(OfKind(g.legs, "put")) >= 2 /\ Len(OfKind(g.legs, "call")) >= 2
              THEN Wing(g.legs) ELSE Width(g.legs)
  IN  IF g.is.qty <= 0 \/ credit <= 0 \/ g.is.strategy = "covered_call" THEN 0
      ELSE IF Len(g.legs) = 1
      THEN IF g.legs[1].kind = "put" /\ g.legs[1].qty < 0 THEN g.legs[1].strike ELSE 0
      ELSE Max({0, risk - credit})

-----------------------------------------------------------------------------

GroupsInit == held = [c \in Contracts |-> 0] /\ sharesHeld = 0

\* One contract bought or sold; larger orders are several of these.
Trade(c, step) ==
  /\ held[c] + step \in -MaxHeld..MaxHeld
  /\ held[c] = 0 => Cardinality(Legs) < MaxLegs
  /\ held' = [held EXCEPT ![c] = @ + step]
  /\ UNCHANGED sharesHeld

TradeShares(n) == sharesHeld' = n /\ UNCHANGED held

GroupsNext ==
  \/ \E c \in Contracts, step \in {-1, 1} : Trade(c, step)
  \/ \E n \in ShareCounts : TradeShares(n)

GroupsSpec == GroupsInit /\ [][GroupsNext]_groupVars

-----------------------------------------------------------------------------
(* Correctness.                                                            *)

\* Every contract held is in exactly one group, no group has more legs than
\* the close ticket and the broker take, the calls shown as covered never
\* promise more shares than the account holds, and two groups share an id only
\* when they are a call and a put time spread at the same strikes and expiries.
GroupsPartitionTheBook ==
  LET groups == Groups
      covered == {g \in groups : g.is.strategy = "covered_call"}
  IN  /\ \A l \in Legs : Cardinality({g \in groups : l \in ToSet(g.legs)}) = 1
      /\ \A g \in groups : Len(g.legs) \in 1..4
      /\ sharesHeld >= 100 * MapThenSumSet(LAMBDA g : g.is.qty, covered)
      /\ \A g, h \in groups :
           g.id = h.id /\ g # h =>
             /\ g.is.strategy = h.is.strategy /\ g.is.strategy \in {"calendar", "diagonal"}
             /\ g.legs[1].kind # h.legs[1].kind

\* What the legs of one structure are worth at expiry, per share.
Intrinsic(l, spot) ==
  Max({0, IF l.kind = "call" THEN spot - l.strike ELSE l.strike - spot})
WorthAtExpiry(g, spot) ==
  FoldLeft(LAMBDA sum, l : sum + (l.qty \div g.is.qty) * Intrinsic(l, spot), 0, g.legs)

\* Prices a payoff bends at, nothing, and one beyond the last strike.
Spots == {0} \cup {c.strike : c \in Contracts} \cup {1 + Max({c.strike : c \in Contracts})}

\* What a package of one expiry taken in for a credit reserves is all it can
\* lose, wherever the underlying ends: both sides of an iron package, uneven
\* wings and butterflies included.
ReservedCoversLoss ==
  \A g \in Groups :
    (~g.is.broken /\ g.is.strategy \notin {"custom", "covered_call", "calendar", "diagonal"}) =>
      \A credit \in Credits, spot \in Spots :
        credit > 0 => credit + WorthAtExpiry(g, spot) >= -Reserved(g, credit)
=============================================================================

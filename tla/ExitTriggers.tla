---------------------------- MODULE ExitTriggers ----------------------------
(***************************************************************************)
(* The exit triggers of one user's option spreads at a broker: armed and   *)
(* cancelled by requests, checked by a loop that lists the active ones,    *)
(* reads the prices once, and then takes them one by one; a trigger that   *)
(* is hit sends one closing order for what is held of its legs.            *)
(*                                                                         *)
(* The broker holds the contracts of a resting close, answers or does not  *)
(* (an order may be in although its answer never came), and fills when it  *)
(* likes. Each action is one transaction on the trigger table or one call  *)
(* of the broker; between two of them anything may happen, and a restart   *)
(* forgets the loop. Zero stands for a bound that is not set and for a     *)
(* price that could not be read.                                           *)
(***************************************************************************)
EXTENDS Integers, FiniteSets, FiniteSetsExt

CONSTANTS
  Triggers,        \* names of the triggers that may be armed
  Terms,           \* trigger -> [legs, qty, below, above, premiumBelow, premiumAbove]
  OptionLegs,      \* contracts
  HeldAtStart,     \* contract -> contracts held, their side left out
  Quotes,          \* [last, premium] the market may show
  MaxAttempts,     \* MAX_ATTEMPTS
  MaxUserCloses,   \* bound: closes the user sends without a trigger
  MaxLoopRestarts  \* bound: restarts of the process

ASSUME TermsAssumption ==
  Terms \in [Triggers -> [legs : SUBSET OptionLegs, qty : Nat \ {0}, below : Nat, above : Nat,
                          premiumBelow : Nat, premiumAbove : Nat]]
ASSUME HeldAssumption == HeldAtStart \in [OptionLegs -> Nat]
ASSUME QuotesAssumption == Quotes \subseteq [last : Nat, premium : Nat]
ASSUME AttemptsAssumption == MaxAttempts \in Nat \ {0}
ASSUME TriggerBoundsAssumption == MaxUserCloses \in Nat /\ MaxLoopRestarts \in Nat

VARIABLES
  trigger,   \* trigger -> [status, attempts]: its row
  legHeld,   \* contract -> contracts held at the broker
  resting,   \* closing orders at the broker: [by, id, left, ratio]
  market,    \* what the market shows
  reach,     \* the owner's broker account: connected, refusing (gate) or gone
  monitor,   \* the loop's locals: where it is, what it listed and read
  sent,      \* history: trigger -> closing orders of it that reached the broker
  late,      \* history: trigger -> those that did after its cancel was confirmed
  uncalled,  \* history: triggers whose cancel was confirmed
  loopRestarts, \* restarts so far
  userCloses \* closes of the user's own so far

triggerVars == <<trigger, legHeld, resting, market, reach, monitor, sent, late, uncalled, loopRestarts, userCloses>>

TriggerStatus == {"none", "active", "fired", "cancelled", "failed", "orphaned"}
TriggerRow == [status : TriggerStatus, attempts : Nat]

\* Nothing under way, everything the loop remembers forgotten.
AtRest == [at |-> "rest", due |-> {}, seen |-> [t \in Triggers |-> 0], last |-> 0, premium |-> 0,
           reach |-> "connected", now |-> CHOOSE t \in Triggers : TRUE,
           qty |-> 0, ratio |-> [c \in OptionLegs |-> 0]]

-----------------------------------------------------------------------------
(* Operators of the code.                                                  *)

\* Whether a bound of the trigger is reached; a price that is missing only
\* silences the bounds that need it, and every bound is inclusive.
IsHit(t, last, premium) ==
  LET k == Terms[t] IN
  \/ last # 0 /\ (last <= k.below \/ (k.above # 0 /\ last >= k.above))
  \/ premium # 0 /\ (premium <= k.premiumBelow \/ (k.premiumAbove # 0 /\ premium >= k.premiumAbove))

Divides(d, n) == \E k \in 0..n : n = d * k
Smallest(S) == CHOOSE n \in S : \A k \in S : n <= k

\* Packages held: the greatest common divisor of the legs' quantities, which
\* are all above zero.
PackagesOf(legs) ==
  CHOOSE d \in 1..legHeld[CHOOSE c \in legs : TRUE] :
    /\ \A c \in legs : Divides(d, legHeld[c])
    /\ \A e \in 1..legHeld[CHOOSE c \in legs : TRUE] :
         (\A c \in legs : Divides(e, legHeld[c])) => e <= d

RatioOf(legs) ==
  [c \in OptionLegs |-> IF c \in legs THEN legHeld[c] \div PackagesOf(legs) ELSE 0]

\* Contracts of c that resting orders are already closing.
Committed(c) == MapThenSumSet(LAMBDA o : o.left * o.ratio[c], resting)

\* Whether qty packages more can be closed besides those: the check of
\* close_spread, and the broker's own.
RoomToClose(qty, ratio) == \A c \in OptionLegs : qty * ratio[c] <= legHeld[c] - Committed(c)

Active == {t \in Triggers : trigger[t].status = "active"}

TriggersInit ==
  /\ trigger = [t \in Triggers |-> [status |-> "none", attempts |-> 0]]
  /\ legHeld = HeldAtStart
  /\ resting = {}
  /\ market \in Quotes
  /\ reach = "connected"
  /\ monitor = AtRest
  /\ sent = [t \in Triggers |-> 0] /\ late = [t \in Triggers |-> 0] /\ uncalled = {}
  /\ loopRestarts = 0 /\ userCloses = 0

-----------------------------------------------------------------------------
(* Requests.                                                               *)

\* Arm a trigger: at most the packages of its legs, each bound on the
\* underlying on the far side of the price if there is one to ask.
Arm(t) ==
  LET k == Terms[t] IN
  /\ trigger[t].status = "none"
  /\ reach = "connected"
  /\ \A c \in k.legs : legHeld[c] > 0
  /\ k.qty <= PackagesOf(k.legs)
  /\ \E spot \in {market.last, 0} :
       spot # 0 => k.below < spot /\ (k.above # 0 => spot < k.above)
  /\ trigger' = [trigger EXCEPT ![t] = [status |-> "active", attempts |-> 0]]
  /\ UNCHANGED <<legHeld, resting, market, reach, monitor, sent, late, uncalled, loopRestarts, userCloses>>

\* Cancel: only a row that is still active, and only then the user is told so.
CancelTrigger(t) ==
  /\ trigger[t].status = "active"
  /\ trigger' = [trigger EXCEPT ![t].status = "cancelled"]
  /\ uncalled' = uncalled \cup {t}
  /\ UNCHANGED <<legHeld, resting, market, reach, monitor, sent, late, loopRestarts, userCloses>>

\* The user closes packages of some legs without a trigger.
CloseByHand ==
  /\ userCloses < MaxUserCloses /\ reach = "connected"
  /\ \E legs \in SUBSET OptionLegs \ {{}} :
       /\ \A c \in legs : legHeld[c] > 0
       /\ \E qty \in 1..PackagesOf(legs) :
            /\ RoomToClose(qty, RatioOf(legs))
            /\ resting' = resting \cup
                 {[by |-> "user", id |-> userCloses, left |-> qty, ratio |-> RatioOf(legs)]}
  /\ userCloses' = userCloses + 1
  /\ UNCHANGED <<trigger, legHeld, market, reach, monitor, sent, late, uncalled, loopRestarts>>

CancelClose(o) ==
  /\ resting' = resting \ {o}
  /\ UNCHANGED <<trigger, legHeld, market, reach, monitor, sent, late, uncalled, loopRestarts, userCloses>>

-----------------------------------------------------------------------------
(* The surroundings: the market, the broker, the process.                  *)

MoveQuote(q) ==
  /\ q # market /\ market' = q
  /\ UNCHANGED <<trigger, legHeld, resting, reach, monitor, sent, late, uncalled, loopRestarts, userCloses>>

\* Part or all of a resting close fills.
FillClose(o, n) ==
  /\ n <= o.left
  /\ legHeld' = [c \in OptionLegs |-> legHeld[c] - n * o.ratio[c]]
  /\ resting' = (resting \ {o}) \cup (IF n = o.left THEN {} ELSE {[o EXCEPT !.left = @ - n]})
  /\ UNCHANGED <<trigger, market, reach, monitor, sent, late, uncalled, loopRestarts, userCloses>>

\* The owner removes the keys of the account, or live trading is refused.
SetReach(r) ==
  /\ r # reach /\ reach' = r
  /\ UNCHANGED <<trigger, legHeld, resting, market, monitor, sent, late, uncalled, loopRestarts, userCloses>>

RestartLoop ==
  /\ loopRestarts < MaxLoopRestarts
  /\ loopRestarts' = loopRestarts + 1
  /\ monitor' = AtRest
  /\ UNCHANGED <<trigger, legHeld, resting, market, reach, sent, late, uncalled, userCloses>>

-----------------------------------------------------------------------------
(* The loop.                                                               *)

rowsAlone == <<trigger, legHeld, resting, market, reach, sent, late, uncalled, loopRestarts, userCloses>>

\* List the active triggers with the attempts their rows show.
ListTriggers ==
  /\ monitor.at = "rest"
  /\ Active # {}
  /\ monitor' = [AtRest EXCEPT !.at = "listed", !.due = Active,
                            !.seen = [t \in Triggers |-> trigger[t].attempts]]
  /\ UNCHANGED rowsAlone

\* Read the prices and the owner's broker.
ReadPrices(last, premium) ==
  /\ monitor.at = "listed"
  /\ monitor' = [monitor EXCEPT !.at = "turn", !.last = last, !.premium = premium, !.reach = reach]
  /\ UNCHANGED rowsAlone

\* Either price may be missing.
ReadSomePrices ==
  \E last \in {market.last, 0}, premium \in {market.premium, 0} : ReadPrices(last, premium)

\* The prices or the broker could not be looked up: the tick is given up.
GiveUpTick ==
  /\ monitor.at = "listed"
  /\ monitor' = AtRest
  /\ UNCHANGED rowsAlone

\* The loop after the turn of t.
NextTurn(t) ==
  IF monitor.due = {t} THEN AtRest ELSE [monitor EXCEPT !.at = "turn", !.due = @ \ {t}]

\* No bound of t is reached.
NotHit(t) ==
  /\ monitor.at = "turn" /\ t \in monitor.due
  /\ monitor.reach # "gone"
  /\ ~IsHit(t, monitor.last, monitor.premium)
  /\ monitor' = NextTurn(t)
  /\ UNCHANGED rowsAlone

\* There is no broker account to close on, or the gate refuses: both final.
Refused(t) ==
  /\ monitor.at = "turn" /\ t \in monitor.due
  /\ \/ monitor.reach = "gone"
     \/ monitor.reach = "refusing" /\ IsHit(t, monitor.last, monitor.premium)
  /\ trigger' = [trigger EXCEPT ![t] = [status |-> "failed", attempts |-> MaxAttempts]]
  /\ monitor' = NextTurn(t)
  /\ UNCHANGED <<legHeld, resting, market, reach, sent, late, uncalled, loopRestarts, userCloses>>

\* A leg is no longer held.
Orphaned(t) ==
  /\ monitor.at = "turn" /\ t \in monitor.due /\ monitor.reach = "connected"
  /\ IsHit(t, monitor.last, monitor.premium)
  /\ \E c \in Terms[t].legs : legHeld[c] = 0
  /\ trigger' = [trigger EXCEPT ![t].status = "orphaned"]
  /\ monitor' = NextTurn(t)
  /\ UNCHANGED <<legHeld, resting, market, reach, sent, late, uncalled, loopRestarts, userCloses>>

\* The legs are held: what to close, at the ratio they are held in now.
ReadLegs(t) ==
  LET k == Terms[t] IN
  /\ monitor.at = "turn" /\ t \in monitor.due /\ monitor.reach = "connected"
  /\ IsHit(t, monitor.last, monitor.premium)
  /\ \A c \in k.legs : legHeld[c] > 0
  /\ LET most == Smallest({legHeld[c] : c \in k.legs})
         qty == IF k.qty <= most THEN k.qty ELSE most
     IN monitor' = IF qty <= PackagesOf(k.legs)
                THEN [monitor EXCEPT !.at = "send", !.now = t, !.qty = qty, !.ratio = RatioOf(k.legs)]
                ELSE [monitor EXCEPT !.at = "miss", !.now = t]
  /\ UNCHANGED rowsAlone

\* The positions could not be read.
ReadLegsFails(t) ==
  /\ monitor.at = "turn" /\ t \in monitor.due /\ monitor.reach = "connected"
  /\ IsHit(t, monitor.last, monitor.premium)
  /\ monitor' = [monitor EXCEPT !.at = "miss", !.now = t]
  /\ UNCHANGED rowsAlone

\* The closing order reaches the broker; its answer may be lost.
SendLegsClose ==
  /\ monitor.at = "send"
  /\ RoomToClose(monitor.qty, monitor.ratio)
  /\ resting' = resting \cup
       {[by |-> monitor.now, id |-> sent[monitor.now], left |-> monitor.qty, ratio |-> monitor.ratio]}
  /\ sent' = [sent EXCEPT ![monitor.now] = @ + 1]
  /\ late' = [late EXCEPT ![monitor.now] = IF monitor.now \in uncalled THEN @ + 1 ELSE @]
  /\ \E at \in {"sent", "miss"} : monitor' = [monitor EXCEPT !.at = at]
  /\ UNCHANGED <<trigger, legHeld, market, reach, uncalled, loopRestarts, userCloses>>

\* It does not: no quote on a leg, more than is left to close, no broker.
SendFails ==
  /\ monitor.at = "send"
  /\ monitor' = [monitor EXCEPT !.at = "miss"]
  /\ UNCHANGED rowsAlone

\* Whatever the row says by now.
MarkFired ==
  /\ monitor.at = "sent"
  /\ trigger' = [trigger EXCEPT ![monitor.now].status = "fired"]
  /\ monitor' = NextTurn(monitor.now)
  /\ UNCHANGED <<legHeld, resting, market, reach, sent, late, uncalled, loopRestarts, userCloses>>

\* Fault: the attempts are not counted.
MissedUncounted(row, n) == row

\* Fault: a row that is to be tried again is written as active.
MissedReactivates(row, n) ==
  [status |-> IF n >= MaxAttempts THEN "failed" ELSE "active", attempts |-> n]

\* The row after an attempt that failed, the n-th.
Missed(row, n) ==
  [status |-> IF n >= MaxAttempts THEN "failed" ELSE row.status, attempts |-> n]

MarkFailed ==
  /\ monitor.at = "miss"
  /\ trigger' = [trigger EXCEPT ![monitor.now] = Missed(@, monitor.seen[monitor.now] + 1)]
  /\ monitor' = NextTurn(monitor.now)
  /\ UNCHANGED <<legHeld, resting, market, reach, sent, late, uncalled, loopRestarts, userCloses>>

\* The turn of t, whatever comes of it.
Turn(t) ==
  \/ NotHit(t) \/ Refused(t) \/ Orphaned(t) \/ ReadLegs(t) \/ ReadLegsFails(t)

LoopStep ==
  \/ ListTriggers \/ ReadSomePrices \/ GiveUpTick
  \/ \E t \in Triggers : Turn(t)
  \/ SendLegsClose \/ SendFails \/ MarkFired \/ MarkFailed

TriggersNext ==
  \/ \E t \in Triggers : Arm(t) \/ CancelTrigger(t)
  \/ CloseByHand
  \/ \E o \in resting : CancelClose(o) \/ \E n \in 1..o.left : FillClose(o, n)
  \/ \E q \in Quotes : MoveQuote(q)
  \/ \E r \in {"connected", "refusing", "gone"} : SetReach(r)
  \/ RestartLoop
  \/ LoopStep

\* The loop runs for ever and swallows what a tick raises; of the prices it is
\* assumed that they are not missing at every tick.
TriggersFairness ==
  /\ WF_triggerVars(LoopStep /\ monitor.at # "listed")
  /\ SF_triggerVars(ReadPrices(market.last, market.premium))

TriggersSpec == TriggersInit /\ [][TriggersNext]_triggerVars

-----------------------------------------------------------------------------
(* Properties.                                                             *)

\* A trigger sends at most one closing order for each attempt it is given and
\* for each restart, whatever answers get lost, and once its cancel was
\* confirmed at most the one of a tick that had listed it before: check_one
\* against mark_failed, cancel and the restart.
OrdersAreBounded ==
  \A t \in Triggers : sent[t] <= MaxAttempts + loopRestarts /\ late[t] <= 1

\* A trigger whose bounds stay reached does not stay active: it fires, fails
\* for good or is orphaned, or its user cancels it.
HitTriggersSettle ==
  \A t \in Triggers :
    []<>(trigger[t].status # "active" \/ ~IsHit(t, market.last, market.premium))
=============================================================================

----------------------------- MODULE ReplayClock ------------------------------
(***************************************************************************)
(* The clock of one user's history replay: the session row, the engine     *)
(* that holds its bars in memory, and the tasks that meet over them: the   *)
(* pacing loop, the live fill loop, and the requests of the user's         *)
(* browsers.  Each action is one transaction on the row, or one stretch of *)
(* code between two awaits; any task may run between two of them.          *)
(*                                                                         *)
(* Moments are bars, counted along one time line.  A replay is what a      *)
(* session was started on, symbols and dates together, told apart by the   *)
(* first and the last bar its engine holds.  A range is counted back from  *)
(* the day of the fetch: bars fetched anew are another range, or none.     *)
(* Speed decides only when a tick is due, and a tick may be due at any     *)
(* time here.                                                              *)
(***************************************************************************)
EXTENDS Integers

CONSTANTS
  Clients,      \* requests that can be under way at once
  Replays,      \* [first, last] records
  Seeks,        \* moments a seek may name; the code does not clamp them
  LastMoment,   \* bound: stands for every later moment
  NoSession, NoEngine,
  NoBars,       \* an engine whose fetch brought nothing, and what it ends on
  LivePrice,    \* priced at the market, not at a replayed moment
  MaxRequests,  \* bound: requests ever made
  MaxRestarts   \* bound: restarts of the process

ASSUME ReplaysAssumption ==
  Replays \subseteq {r \in [first : Int, last : Int] : r.first <= r.last}
ASSUME SeeksAssumption == Seeks \subseteq Int
ASSUME LastMomentAssumption == LastMoment \in Int /\ \A r \in Replays : r.last < LastMoment
ASSUME NoneAssumption ==
  /\ NoSession \notin [replay : Replays, asOf : Int, playing : BOOLEAN]
  /\ NoEngine \notin Replays \cup {NoBars} /\ NoBars \notin Replays \cup Int
  /\ LivePrice \notin Int
ASSUME BoundsAssumption == MaxRequests \in Nat /\ MaxRestarts \in Nat

VARIABLES
  session,   \* the row of replay_sessions
  engine,    \* the replay whose engine is resident
  loop,      \* the pacing tick: where it is and the session it works from
  liveFill,  \* the fill loop: idle, or about to fill this user at the market
  request,   \* client -> where its request is
  quote,     \* where the last order or fill check took its prices
  drift,     \* history: pacing writes to a clock since it last stood paused
  strays,    \* history: live fill checks since the user has a session
  requests,  \* requests so far, for their bound
  restarts   \* restarts so far, for their bound

vars == <<session, engine, loop, liveFill, request, quote, drift, strays, requests, restarts>>
tasks == <<loop, liveFill, request>>
history == <<drift, strays>>
bounds == <<requests, restarts>>

Session == [replay : Replays, asOf : Int, playing : BOOLEAN]
Playing == session # NoSession /\ session.playing

\* What a task knows, by the point it has reached.
Tick == [at : {"idle"}]
          \cup [at : {"due", "load"}, replay : Replays, asOf : Int]
          \cup [at : {"advance"}, last : Int \cup {NoBars}, asOf : Int]
          \cup [at : {"fill"}, asOf : Int]
Request == [at : {"idle", "stop"}]
             \cup [at : {"step", "fill"}, asOf : Int]
             \cup [at : {"start"}, replay : Replays, asOf : Int]
             \cup [at : {"order"}, price : Int \cup {LivePrice}]
Idle == [at |-> "idle"]

Init ==
  /\ session = NoSession
  /\ engine = NoEngine
  /\ loop = Idle
  /\ liveFill = "idle"
  /\ request = [c \in Clients |-> Idle]
  /\ quote = LivePrice
  /\ drift = 0 /\ strays = 0
  /\ requests = 0 /\ restarts = 0

-----------------------------------------------------------------------------
(* The session row.                                                        *)

\* UPDATE ... WHERE user_id: without a row nothing is written.
MoveTo(m, playing) ==
  session' = IF session = NoSession THEN NoSession
             ELSE [session EXCEPT !.asOf = m, !.playing = playing]

-----------------------------------------------------------------------------
(* The pacing loop.                                                        *)

\* Fault: every session is advanced.
PlayingRowOrPaused == session # NoSession

\* The row that all_playing returns for the user.
PlayingRow == Playing

\* The tick reads the sessions that play, all users' at once.
TickReads ==
  /\ loop = Idle /\ PlayingRow
  /\ loop' = [at |-> "due", replay |-> session.replay, asOf |-> session.asOf]
  /\ UNCHANGED <<session, engine, liveFill, request, quote, history, bounds>>

\* What an engine with these bars, or none, ends on.
EndOf(bars) == IF bars = NoBars THEN NoBars ELSE bars.last

Advance(bars) == [at |-> "advance", last |-> EndOf(bars), asOf |-> loop.asOf]

\* The user's turn, after those before it: _advance_one looks for the engine.
TickFindsEngine ==
  /\ loop.at = "due"
  /\ loop' = IF engine = NoEngine THEN [loop EXCEPT !.at = "load"] ELSE Advance(engine)
  /\ UNCHANGED <<session, engine, liveFill, request, quote, history, bounds>>

\* Bars fetched anew for the session that was read: whatever there is by now.
TickLoads ==
  /\ loop.at = "load"
  /\ \E bars \in Replays \cup {NoBars} : engine' = bars /\ loop' = Advance(bars)
  /\ UNCHANGED <<session, liveFill, request, quote, history, bounds>>

TickLoadFails ==
  /\ loop.at = "load"
  /\ loop' = Idle
  /\ UNCHANGED <<session, engine, liveFill, request, quote, history, bounds>>

\* The moment the tick moves to.
NextMoment == IF loop.last = NoBars /\ loop.asOf >= LastMoment THEN loop.asOf ELSE loop.asOf + 1

BeyondTheBars == loop.last # NoBars /\ loop.asOf + 1 > loop.last

\* Fault: the last bar is shown for ever.
TickEndsFrozen ==
  /\ BeyondTheBars
  /\ loop' = Idle
  /\ UNCHANGED <<session, drift>>

\* Past the last bar the session stops playing; without bars nothing is past.
TickEnds ==
  /\ BeyondTheBars
  /\ session' = IF session = NoSession THEN NoSession ELSE [session EXCEPT !.playing = FALSE]
  /\ loop' = Idle
  /\ UNCHANGED drift

TickMoves ==
  /\ ~BeyondTheBars
  /\ MoveTo(NextMoment, Playing)
  /\ loop' = [at |-> "fill", asOf |-> NextMoment]
  /\ drift' = IF session = NoSession \/ Playing THEN drift ELSE drift + 1

TickWrites ==
  /\ loop.at = "advance"
  /\ TickEnds \/ TickMoves
  /\ UNCHANGED <<engine, liveFill, request, quote, strays, bounds>>

\* run_side_effects: the books of the user at the moment the tick moved to.
TickFills ==
  /\ loop.at = "fill"
  /\ quote' = loop.asOf
  /\ loop' = Idle
  /\ UNCHANGED <<session, engine, liveFill, request, history, bounds>>

-----------------------------------------------------------------------------
(* The live fill loop.                                                     *)

\* Fault: a paused session is not a replay.
ReplayingOnlyIfPlaying == Playing

\* The row that all_sessions returns for the user.
Replaying == session # NoSession

\* The tick reads who is replaying, then prices the others' orders.
LiveReads ==
  /\ liveFill = "idle" /\ ~Replaying
  /\ liveFill' = "priced"
  /\ UNCHANGED <<session, engine, loop, request, quote, history, bounds>>

LiveFills ==
  /\ liveFill = "priced"
  /\ quote' = LivePrice
  /\ liveFill' = "idle"
  /\ strays' = IF session = NoSession THEN strays ELSE strays + 1
  /\ UNCHANGED <<session, engine, loop, request, drift, bounds>>

-----------------------------------------------------------------------------
(* The requests.                                                           *)

Arrives(c) ==
  /\ request[c] = Idle /\ requests < MaxRequests
  /\ requests' = requests + 1
  /\ UNCHANGED restarts

Goes(c, where) == request' = [request EXCEPT ![c] = where]

Play(c) ==
  /\ Arrives(c) /\ session # NoSession
  /\ session' = [session EXCEPT !.playing = TRUE]
  /\ drift' = 0
  /\ UNCHANGED <<engine, tasks, quote, strays>>

Pause(c) ==
  /\ Arrives(c) /\ session # NoSession
  /\ session' = [session EXCEPT !.playing = FALSE]
  /\ UNCHANGED <<engine, tasks, quote, history>>

Seek(c) ==
  /\ Arrives(c) /\ session # NoSession
  /\ \E m \in Seeks : MoveTo(m, session.playing) /\ Goes(c, [at |-> "fill", asOf |-> m])
  /\ UNCHANGED <<engine, loop, liveFill, quote, history>>

\* Clamped to the bars of the engine, if one with bars is resident.
SteppedAsOf(m) ==
  CASE engine \in Replays /\ m < engine.first -> engine.first
    [] engine \in Replays /\ m > engine.last -> engine.last
    [] OTHER -> m

\* Step reads the row, and writes where it then stood plus or minus a bar.
StepReads(c) ==
  /\ Arrives(c) /\ session # NoSession
  /\ \E bar \in {-1, 1} : Goes(c, [at |-> "step", asOf |-> SteppedAsOf(session.asOf + bar)])
  /\ UNCHANGED <<session, engine, loop, liveFill, quote, history>>

StepWrites(c) ==
  /\ request[c].at = "step"
  /\ MoveTo(request[c].asOf, FALSE)
  /\ Goes(c, IF session = NoSession THEN Idle ELSE [at |-> "fill", asOf |-> request[c].asOf])
  /\ UNCHANGED <<engine, loop, liveFill, quote, history, bounds>>

\* _after_move: what a pacing tick does to the books, if an engine is resident.
MoveFills(c) ==
  /\ request[c].at = "fill"
  /\ quote' = IF engine = NoEngine THEN quote ELSE request[c].asOf
  /\ Goes(c, Idle)
  /\ UNCHANGED <<session, engine, loop, liveFill, history, bounds>>

\* Start has fetched the bars of its range, which become resident; it refuses a
\* range without bars.
StartLoads(c) ==
  /\ Arrives(c)
  /\ \E r \in Replays : \E m \in r.first..r.last :
       engine' = r /\ Goes(c, [at |-> "start", replay |-> r, asOf |-> m])
  /\ UNCHANGED <<session, loop, liveFill, quote, history>>

StartWrites(c) ==
  /\ request[c].at = "start"
  /\ session' = [replay |-> request[c].replay, asOf |-> request[c].asOf, playing |-> FALSE]
  /\ Goes(c, Idle)
  /\ drift' = 0
  /\ UNCHANGED <<engine, loop, liveFill, quote, strays, bounds>>

StopDeletes(c) ==
  /\ Arrives(c)
  /\ session' = NoSession
  /\ Goes(c, [at |-> "stop"])
  /\ drift' = 0 /\ strays' = 0
  /\ UNCHANGED <<engine, loop, liveFill, quote>>

StopDiscards(c) ==
  /\ request[c].at = "stop"
  /\ engine' = NoEngine
  /\ Goes(c, Idle)
  /\ UNCHANGED <<session, loop, liveFill, quote, history, bounds>>

\* An order of the simulated books: _replay_seam says where it is priced.
OrderPriced(c) ==
  /\ Arrives(c)
  /\ Goes(c, [at |-> "order", price |-> IF session # NoSession /\ engine # NoEngine
                                        THEN session.asOf ELSE LivePrice])
  /\ UNCHANGED <<session, engine, loop, liveFill, quote, history>>

OrderBooked(c) ==
  /\ request[c].at = "order"
  /\ quote' = request[c].price
  /\ Goes(c, Idle)
  /\ UNCHANGED <<session, engine, loop, liveFill, history, bounds>>

-----------------------------------------------------------------------------

\* The process starts again: rows stay, tasks and engines are gone.
Restart ==
  /\ restarts < MaxRestarts
  /\ engine' = NoEngine
  /\ loop' = Idle /\ liveFill' = "idle" /\ request' = [c \in Clients |-> Idle]
  /\ restarts' = restarts + 1
  /\ UNCHANGED <<session, quote, history, requests>>

TickStep == TickReads \/ TickFindsEngine \/ TickLoads \/ TickLoadFails \/ TickWrites \/ TickFills
LiveStep == LiveReads \/ LiveFills
RequestStep(c) ==
  \/ Play(c) \/ Pause(c) \/ Seek(c) \/ StepReads(c) \/ StepWrites(c) \/ MoveFills(c)
  \/ StartLoads(c) \/ StartWrites(c) \/ StopDeletes(c) \/ StopDiscards(c)
  \/ OrderPriced(c) \/ OrderBooked(c)

Next == TickStep \/ LiveStep \/ (\E c \in Clients : RequestStep(c)) \/ Restart

Spec == Init /\ [][Next]_vars

\* The loop ticks for ever, whatever a tick has met, and the bars are not
\* refused for ever.
FairSpec == Spec /\ WF_vars(TickStep) /\ SF_vars(TickLoads)

-----------------------------------------------------------------------------
(* Properties.                                                             *)

TypeOK ==
  /\ session \in Session \cup {NoSession}
  /\ engine \in Replays \cup {NoEngine, NoBars}
  /\ loop \in Tick
  /\ liveFill \in {"idle", "priced"}
  /\ request \in [Clients -> Request]
  /\ quote \in Int \cup {LivePrice}
  /\ drift \in Nat /\ strays \in Nat
  /\ requests \in Nat /\ restarts \in Nat

\* A session that is paused, by a pause, a step or a new start, is moved at
\* most once more by the pacing loop, the tick that was under way: whatever
\* was asked and lost meanwhile, the clock then stands where a request put it
\* (all_playing, _advance_one).
PausedClockSettles == session # NoSession /\ ~Playing => drift <= 1

\* A user with a session, playing or paused, is filled at the market at most
\* once more, by the pass that read the sessions before there was one
\* (run_sim_fill_loop, all_sessions).
LiveLoopLetsGo == strays <= 1

\* Once stopped, a replay stays stopped: a tick, a step or a seek still under
\* way brings no row back (update writes WHERE user_id and never inserts).
StoppedStaysStopped ==
  [][session = NoSession /\ session' # NoSession =>
       \E c \in Clients : StartWrites(c)]_vars

\* A session that plays comes to a stop by itself, at the end of its bars,
\* through restarts, refused fetches and a reload of other bars, and wherever it
\* was moved meanwhile (the end test of _advance_one); only one whose reload
\* brought no bars has no end, and plays on.
PlayingEnds == Playing ~> (~Playing \/ engine = NoBars)

\* An order placed while there is a session, playing or paused, is priced at
\* the moment the session shows (the docstring of _replay_seam).
OrdersPriceAtTheClock ==
  [][\A c \in Clients : OrderPriced(c) /\ session # NoSession =>
                         request'[c].price = session.asOf]_vars
=============================================================================

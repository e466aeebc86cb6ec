------------------------------ MODULE ScannerDay ------------------------------
(***************************************************************************)
(* The scanner's poll loop through the phases of trading days: the rows it *)
(* last polled, the premarket list it freezes at the bell or rebuilds when *)
(* it starts too late, the completed session it shows when nothing is      *)
(* live, the appearances it records in memory and in the database, the     *)
(* operator's pause, failed calls and restarts.                            *)
(*                                                                         *)
(* A row is the moment its batch was answered and the session the tick saw *)
(* that asked for it: whether its symbol is up is for the tape to say.  Of *)
(* the views, gainers and losers stand for all that are ranked off the     *)
(* rows.  A phase lasts hours and a tick seconds: a tick begins in every   *)
(* phase, and it may end in the next one.                                  *)
(***************************************************************************)
EXTENDS Integers, FiniteSets

CONSTANTS
  Universe,          \* the symbols polled
  Tapes,             \* bound: for every moment, the symbols that are up
  LastDay,           \* bound: days, all of them trading days
  NoRow,             \* not polled
  NoList,            \* no premarket list
  MaxScannerTroubles \* bound: calls that fail, switches of the pause, restarts

Phases == 1..5
Moment == [day : 0..LastDay, phase : Phases]
Sessions == {"closed", "premarket", "regular", "afterhours"}
PolledRow == [at : Moment, session : Sessions]

ASSUME ScannerAssumption ==
  /\ LastDay \in Nat \ {0} /\ MaxScannerTroubles \in Nat
  /\ Tapes \subseteq [Moment -> SUBSET Universe]
  /\ NoRow \notin PolledRow

VARIABLES
  wall,        \* the moment it is
  tapeOfDays,  \* what the market does
  tick,        \* down, starting, asleep, or in a tick: polling or polled
  toPoll,      \* the symbols whose batch this tick has yet to ask for
  mayEnd,      \* whether the phase may end: no tick has yet to begin in it
  sessionNow,  \* the session as the last tick saw it
  rows,        \* the rows last polled
  frozenList,  \* _premarket_snapshot
  latestRows,  \* _latest_session_rows
  paused,      \* in memory
  keptPause,   \* ... and in app_kv
  tracked,     \* ScannerBenchmarkTracker
  appearances, \* ScannerHistoryStore
  unanswered,  \* history: the symbols no premarket tick of today has polled
  scannerTroubles

engineVars == <<tick, toPoll, sessionNow, rows, frozenList, latestRows, paused, tracked>>
scannerVars ==
  <<wall, tapeOfDays, engineVars, mayEnd, keptPause, appearances, unanswered, scannerTroubles>>

-----------------------------------------------------------------------------
CurrentSession(m) == <<"closed", "premarket", "regular", "afterhours", "closed">>[m.phase]

Up(s, row) == s \in tapeOfDays[row.at]

\* The symbols of some rows that are up, and those that are down, as listed.
Known(rs) == {s \in Universe : rs[s] # NoRow}
RankGainers(rs) == {[symbol |-> s, row |-> rs[s]] : s \in {r \in Known(rs) : Up(r, rs[r])}}
RankLosers(rs) == {[symbol |-> s, row |-> rs[s]] : s \in {r \in Known(rs) : ~Up(r, rs[r])}}

OrFallback(live, fallback) == IF live = {} THEN fallback ELSE live

BuildViews ==
  LET gainers == OrFallback(RankGainers(rows), RankGainers(latestRows))
  IN  [gainers |-> gainers,
       losers |-> OrFallback(RankLosers(rows), RankLosers(latestRows)),
       premarket_gainers |->
         IF sessionNow = "premarket" THEN gainers
         ELSE IF frozenList # NoList THEN frozenList ELSE gainers]

CanPoll == CurrentSession(wall) # "closed" /\ ~paused

-----------------------------------------------------------------------------
\* One more thing goes wrong.
Trouble == scannerTroubles < MaxScannerTroubles /\ scannerTroubles' = scannerTroubles + 1

NoRows == [s \in Universe |-> NoRow]

ScannerInit ==
  /\ wall = [day |-> 1, phase |-> 1] /\ tapeOfDays \in Tapes
  /\ tick = "down" /\ toPoll = {} /\ mayEnd = TRUE /\ sessionNow = "closed"
  /\ rows = NoRows /\ frozenList = NoList /\ latestRows = NoRows
  /\ paused = FALSE /\ keptPause = FALSE /\ tracked = {} /\ appearances = {}
  /\ unanswered = Universe /\ scannerTroubles = 0

\* The list as the morning's bars give it, for a start after the bell.
BackfillPremarket(served) ==
  LET bar == [at |-> [wall EXCEPT !.phase = 2], session |-> "premarket"]
  IN  IF wall.phase < 3 THEN NoList
      ELSE RankGainers([s \in Universe |-> IF s \in served THEN bar ELSE NoRow])

\* The last daily bar, today's once the bell has rung.
BackfillLatest(served) ==
  LET last == IF wall.phase < 3 THEN [day |-> wall.day - 1, phase |-> 5] ELSE wall
  IN  [s \in Universe |-> IF s \in served THEN [at |-> last, session |-> "closed"] ELSE NoRow]

\* The process starts: the pause is read back and both backfills run, of which
\* a batch may fail and is left out; the loop follows.
Start ==
  /\ tick = "down" /\ tick' = "starting" /\ mayEnd' = TRUE
  /\ paused' = keptPause
  /\ \/ /\ frozenList' = BackfillPremarket(Universe) /\ latestRows' = BackfillLatest(Universe)
        /\ UNCHANGED scannerTroubles
     \/ /\ Trouble
        /\ \E s \in Universe :
             \/ /\ frozenList' = BackfillPremarket(Universe \ {s})
                /\ latestRows' = BackfillLatest(Universe)
             \/ /\ frozenList' = BackfillPremarket(Universe)
                /\ latestRows' = BackfillLatest(Universe \ {s})
  /\ UNCHANGED <<wall, tapeOfDays, toPoll, sessionNow, rows, keptPause, tracked, appearances,
                 unanswered>>

\* Fault: the list is frozen when the regular session's first poll is in.
FrozenAfterPoll(rs) ==
  IF sessionNow = "premarket" /\ CurrentSession(wall) # "premarket"
  THEN RankGainers([s \in Universe |->
         IF CanPoll THEN [at |-> wall, session |-> CurrentSession(wall)] ELSE rs[s]])
  ELSE frozenList

\* Freezes the list when the premarket has ended.
Frozen(rs) ==
  IF sessionNow = "premarket" /\ CurrentSession(wall) # "premarket"
  THEN RankGainers(rs) ELSE frozenList

\* run_loop, to its poll: the session and whether to poll are read once, before
\* the awaits.
Wake ==
  /\ tick \in {"starting", "asleep"}
  /\ sessionNow' = CurrentSession(wall)
  /\ frozenList' = Frozen(rows)
  /\ tick' = "polling" /\ toPoll' = IF CanPoll THEN Universe ELSE {}
  /\ mayEnd' = TRUE
  /\ UNCHANGED <<wall, tapeOfDays, rows, latestRows, paused, keptPause, tracked,
                 appearances, unanswered, scannerTroubles>>

\* _poll_once: one batch of one symbol; one that fails leaves its rows.
PollBatch(s) ==
  /\ tick = "polling" /\ s \in toPoll
  /\ toPoll' = toPoll \ {s}
  /\ \/ /\ rows' = [rows EXCEPT ![s] = [at |-> wall, session |-> sessionNow]]
        /\ unanswered' = IF sessionNow = "premarket" THEN unanswered \ {s} ELSE unanswered
        /\ UNCHANGED scannerTroubles
     \/ Trouble /\ UNCHANGED <<rows, unanswered>>
  /\ UNCHANGED <<wall, tapeOfDays, tick, mayEnd, sessionNow, frozenList, latestRows, paused,
                 keptPause, tracked, appearances>>

Sightings(views) ==
  {[view |-> "gainers", symbol |-> r.symbol, row |-> r.row] : r \in views.gainers}
    \cup {[view |-> "losers", symbol |-> r.symbol, row |-> r.row] : r \in views.losers}

\* What is not recorded yet, by symbol and view: INSERT OR IGNORE.
NotYet(sightings, recorded) ==
  {n \in sightings : \A a \in recorded : <<a.symbol, a.view>> # <<n.symbol, n.view>>}

Dated(sightings) ==
  {[symbol |-> n.symbol, view |-> n.view, row |-> n.row, date |-> wall.day] : n \in sightings}

\* The rest of the tick: what the views show is recorded, in memory and under
\* the date of the wall clock, unless the loop is paused; the database may fail.
RecordNewAppearances ==
  LET seen == Sightings(BuildViews)
      today == {a \in appearances : a.date = wall.day}
  IN  /\ tick = "polling" /\ toPoll = {}
      /\ tick' = "asleep"
      /\ IF paused THEN UNCHANGED <<tracked, appearances, scannerTroubles>>
         ELSE /\ tracked' = tracked \cup NotYet(seen, tracked)
              /\ \/ /\ appearances' = appearances \cup Dated(NotYet(seen, today))
                    /\ UNCHANGED scannerTroubles
                 \/ Trouble /\ UNCHANGED appearances
      /\ UNCHANGED <<wall, tapeOfDays, toPoll, mayEnd, sessionNow, rows, frozenList, latestRows,
                     paused, keptPause, unanswered>>

\* POST /pause: in memory first, then in the database.
SetScannerPause ==
  /\ tick # "down" /\ paused = keptPause
  /\ Trouble
  /\ paused' = ~paused
  /\ UNCHANGED <<wall, tapeOfDays, tick, toPoll, mayEnd, sessionNow, rows, frozenList, latestRows,
                 keptPause, tracked, appearances, unanswered>>

KeepPause ==
  /\ tick # "down" /\ paused # keptPause
  /\ keptPause' = paused
  /\ UNCHANGED <<wall, tapeOfDays, engineVars, mayEnd, appearances, unanswered, scannerTroubles>>

\* The process dies, and what it held in memory.
EngineDies ==
  /\ tick # "down" /\ Trouble
  /\ tick' = "down" /\ toPoll' = {} /\ mayEnd' = TRUE /\ sessionNow' = "closed"
  /\ rows' = NoRows /\ frozenList' = NoList /\ latestRows' = NoRows /\ tracked' = {}
  /\ UNCHANGED <<wall, tapeOfDays, paused, keptPause, appearances, unanswered>>

\* Time passes, whatever the loop is doing: between two ticks, in the middle of
\* one, or while the process starts or is down.
PhaseEnds ==
  /\ mayEnd /\ mayEnd' = (tick = "down")
  /\ IF wall.phase < 5
     THEN wall' = [wall EXCEPT !.phase = @ + 1] /\ UNCHANGED unanswered
     ELSE /\ wall.day < LastDay
          /\ wall' = [day |-> wall.day + 1, phase |-> 1]
          /\ unanswered' = Universe
  /\ UNCHANGED <<tapeOfDays, engineVars, keptPause, appearances, scannerTroubles>>

ScannerNext ==
  \/ Start \/ Wake \/ RecordNewAppearances \/ SetScannerPause \/ KeepPause \/ EngineDies
  \/ PhaseEnds
  \/ \E s \in Universe : PollBatch(s)

ScannerSpec == ScannerInit /\ [][ScannerNext]_scannerVars
-----------------------------------------------------------------------------
(* Correctness.                                                            *)

\* While the market is open, and after, the premarket list shows what a tick of
\* this morning's premarket asked for, or the morning's bars if the process was
\* started since; a row of an earlier day or poll is in it only for a symbol that
\* no premarket tick of today has polled, its batches having failed or the loop
\* having been paused (run_loop, _poll_once, backfill_premarket_snapshot).  The
\* answer may be of after the bell: the tick that straddles it asks before and is
\* answered after.
FrozenIsThisMorning ==
  sessionNow \in {"regular", "afterhours"} /\ wall.phase \in {3, 4} /\ frozenList # NoList
    => \A r \in BuildViews.premarket_gainers :
         (r.row.session = "premarket" /\ r.row.at.day = wall.day) \/ r.symbol \in unanswered

\* What is recorded under a day was seen in that day's trading
\* (_record_new_appearances).
AppearancesAreOfTheirDay == \A a \in appearances : a.row.at.day = a.date
=============================================================================

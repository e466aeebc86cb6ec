--------------------------- MODULE MarketDataProofs ---------------------------
(***************************************************************************)
(* Proofs about what brings the market in: the cache of readings, the live *)
(* charts, the scanner's day, the clock of a replay and the walks of the   *)
(* backtests.  Each part names the invariant it rests on where it begins.  *)
(***************************************************************************)
EXTENDS GexCache, ChartStreams, ScannerDay, ReplayClock, SignalWalks, SumLemmas, FiniteSetTheorems, TLAPS

(***************************************************************************)
(* The cache of readings, for any number of symbols and of callers.  What  *)
(* callers wait for is all that matters: the readings, the backoff and     *)
(* which symbols go are free.  The invariant says that those who wait on   *)
(* one lock are in one line: a caller waits for calls of its own symbol    *)
(* and lock only, two on a lock wait one for the other, and no set of      *)
(* calls waits for itself.                                                 *)
(***************************************************************************)

\* Those a caller waits for; none when it has no call.
Ahead(callers, c) == IF callers[c] = Resting THEN {} ELSE callers[c].ahead

Calling(callers, c) == callers[c] # Resting

CallersTyped(callers) == callers \in [GexCallers -> {Resting} \cup GexCall]

\* A caller waits for calls under way, on its own lock.
WaitsForItsLock(callers) ==
  \A c, d \in GexCallers :
    (Calling(callers, c) /\ d \in callers[c].ahead)
      => /\ c # d /\ Calling(callers, d)
         /\ callers[d].symbol = callers[c].symbol
         /\ callers[d].lock = callers[c].lock

FetchersWaitForNobody(callers) ==
  \A c \in GexCallers :
    (Calling(callers, c) /\ callers[c].at = "fetch") => callers[c].ahead = {}

\* The two stand in one line of the lock the table has.
OneLine(callers) ==
  \A c, d \in GexCallers :
    (/\ c # d /\ Calling(callers, c) /\ Calling(callers, d)
     /\ callers[c].symbol = callers[d].symbol
     /\ callers[c].lock = "kept" /\ callers[d].lock = "kept")
      => d \in callers[c].ahead \/ c \in callers[d].ahead

\* Whoever is before the one before me is before me.
LineIsAnOrder(callers) ==
  \A c, d \in GexCallers : d \in Ahead(callers, c) => Ahead(callers, d) \subseteq Ahead(callers, c)

\* No set of calls waits for itself.
SomebodyIsFirst(callers) ==
  \A T \in SUBSET GexCallers :
    T # {} => \E x \in T : Ahead(callers, x) \cap T = {}

LockInv(callers) ==
  /\ CallersTyped(callers)
  /\ WaitsForItsLock(callers)
  /\ FetchersWaitForNobody(callers)
  /\ OneLine(callers)
  /\ LineIsAnOrder(callers)
  /\ SomebodyIsFirst(callers)

-----------------------------------------------------------------------------

\* A call is not a resting caller: its record has fields.
LEMMA CallIsNotResting ==
  ASSUME NEW r \in GexCall PROVE r # Resting
BY DEF GexCall, Resting

\* A caller that has a call has all its fields.
LEMMA CallingIsTyped ==
  ASSUME NEW callers, CallersTyped(callers), NEW c \in GexCallers, Calling(callers, c)
  PROVE  /\ callers[c] \in GexCall
         /\ callers[c].ahead \subseteq GexCallers
         /\ callers[c].symbol \in GexSymbols
         /\ callers[c].at \in {"wait", "fetch"}
         /\ callers[c].by \in {"reading", "refresh"}
         /\ callers[c].lock \in {"kept", "dropped"}
BY DEF CallersTyped, Calling, GexCall

\* A new call goes to the end of the line of its lock (GexAsk).
LEMMA AskKeepsTheLine ==
  ASSUME LockInv(gexCaller), NEW c \in GexCallers, NEW s \in GexSymbols,
         NEW by \in {"reading", "refresh"}, gexCaller[c] = Resting,
         NEW after,
         after = [gexCaller EXCEPT ![c] =
                    [at |-> "wait", symbol |-> s, by |-> by, ahead |-> Queue(s),
                     lock |-> "kept"]]
  PROVE  LockInv(after)
<1> DEFINE new == [at |-> "wait", symbol |-> s, by |-> by, ahead |-> Queue(s), lock |-> "kept"]
<1>1. CallersTyped(gexCaller) BY DEF LockInv
<1>2. Queue(s) = {d \in GexCallers : gexCaller[d] # Resting /\ gexCaller[d].symbol = s
                                     /\ gexCaller[d].lock = "kept"}
  BY DEF Queue, OnTheLockOf
<1>3. c \notin Queue(s) /\ Queue(s) \subseteq GexCallers BY <1>2
<1>4. new \in GexCall BY <1>3 DEF GexCall
<1>5. new # Resting BY <1>4, CallIsNotResting
<1>6. /\ after[c] = new
      /\ \A d \in GexCallers : d # c => after[d] = gexCaller[d]
      /\ CallersTyped(after)
  BY <1>1, <1>4 DEF CallersTyped
<1>7. /\ new.at = "wait" /\ new.symbol = s /\ new.ahead = Queue(s) /\ new.lock = "kept"
  OBVIOUS
<1>8. Calling(after, c) /\ \A d \in GexCallers : d # c => (Calling(after, d) <=> Calling(gexCaller, d))
  BY <1>5, <1>6 DEF Calling
<1> HIDE DEF new
<1>9. \A x \in GexCallers : c \notin Ahead(gexCaller, x)
  BY DEF LockInv, WaitsForItsLock, Ahead, Calling
<1>10. Ahead(after, c) = Queue(s) /\ \A d \in GexCallers : d # c => Ahead(after, d) = Ahead(gexCaller, d)
  BY <1>5, <1>6, <1>7 DEF Ahead
<1>11. WaitsForItsLock(after)
  <2> SUFFICES ASSUME NEW x \in GexCallers, NEW y \in GexCallers,
                      Calling(after, x), y \in after[x].ahead
               PROVE  /\ x # y /\ Calling(after, y)
                      /\ after[y].symbol = after[x].symbol
                      /\ after[y].lock = after[x].lock
    BY DEF WaitsForItsLock
  <2>1. CASE x = c
    <3>1. y \in Queue(s) /\ y # c BY <2>1, <1>3, <1>6, <1>7
    <3>2. gexCaller[y] # Resting /\ gexCaller[y].symbol = s /\ gexCaller[y].lock = "kept"
      BY <3>1, <1>2
    <3>3. after[y] = gexCaller[y] /\ after[x] = new BY <2>1, <3>1, <1>6
    <3>4. after[x].symbol = s /\ after[x].lock = "kept" BY <3>3, <1>7
    <3>5. x # y /\ Calling(after, y) BY <2>1, <3>1, <3>2, <3>3 DEF Calling
    <3> QED BY <3>2, <3>3, <3>4, <3>5
  <2>2. CASE x # c
    <3>1. Calling(gexCaller, x) /\ y \in gexCaller[x].ahead BY <2>2, <1>6, <1>8
    <3>2. y # c BY <3>1, <1>9 DEF Ahead, Calling
    <3>3. /\ x # y /\ Calling(gexCaller, y)
          /\ gexCaller[y].symbol = gexCaller[x].symbol
          /\ gexCaller[y].lock = gexCaller[x].lock
      BY <3>1 DEF LockInv, WaitsForItsLock
    <3>4. y \in GexCallers BY <3>1, <1>1, CallingIsTyped
    <3>5. after[x] = gexCaller[x] /\ after[y] = gexCaller[y] BY <2>2, <3>2, <3>4, <1>6
    <3> QED BY <3>3, <3>5 DEF Calling
  <2> QED BY <2>1, <2>2
<1>12. FetchersWaitForNobody(after)
  BY <1>6, <1>7, <1>8 DEF LockInv, FetchersWaitForNobody
<1>13. OneLine(after)
  <2> SUFFICES ASSUME NEW x \in GexCallers, NEW y \in GexCallers, x # y,
                      Calling(after, x), Calling(after, y),
                      after[x].symbol = after[y].symbol,
                      after[x].lock = "kept", after[y].lock = "kept"
               PROVE  y \in after[x].ahead \/ x \in after[y].ahead
    BY DEF OneLine
  <2>1. CASE x = c BY <2>1, <1>2, <1>6, <1>7, <1>8 DEF Calling
  <2>2. CASE y = c BY <2>2, <1>2, <1>6, <1>7, <1>8 DEF Calling
  <2>3. CASE x # c /\ y # c BY <2>3, <1>6, <1>8 DEF LockInv, OneLine
  <2> QED BY <2>1, <2>2, <2>3
<1>14. LineIsAnOrder(after)
  <2> SUFFICES ASSUME NEW x \in GexCallers, NEW y \in GexCallers, y \in Ahead(after, x),
                      NEW z \in Ahead(after, y)
               PROVE  z \in Ahead(after, x)
    BY DEF LineIsAnOrder
  <2>1. y # c BY <1>3, <1>9, <1>10
  <2>2. CASE x = c
    <3>1. Calling(gexCaller, y) /\ gexCaller[y].symbol = s /\ gexCaller[y].lock = "kept"
      BY <2>2, <1>2, <1>10 DEF Calling
    <3>2. z \in gexCaller[y].ahead BY <2>1, <1>10, <3>1 DEF Ahead, Calling
    <3>3. z \in GexCallers BY <3>1, <3>2, <1>1, CallingIsTyped
    <3>4. Calling(gexCaller, z) /\ gexCaller[z].symbol = s /\ gexCaller[z].lock = "kept"
      BY <3>1, <3>2, <3>3 DEF LockInv, WaitsForItsLock
    <3> QED BY <2>2, <3>3, <3>4, <1>2, <1>10 DEF Calling
  <2>3. CASE x # c BY <2>1, <2>3, <1>10 DEF LockInv, LineIsAnOrder
  <2> QED BY <2>2, <2>3
<1>15. SomebodyIsFirst(after)
  <2> SUFFICES ASSUME NEW T \in SUBSET GexCallers, T # {}
               PROVE  \E x \in T : Ahead(after, x) \cap T = {}
    BY DEF SomebodyIsFirst
  <2>1. CASE T = {c}
    BY <2>1, <1>3, <1>10
  <2>2. CASE T # {c}
    <3>1. T \ {c} # {} /\ T \ {c} \in SUBSET GexCallers BY <2>2
    <3>2. PICK x \in T \ {c} : Ahead(gexCaller, x) \cap (T \ {c}) = {}
      BY <3>1 DEF LockInv, SomebodyIsFirst
    <3>3. Ahead(after, x) = Ahead(gexCaller, x) BY <1>10
    <3>4. c \notin Ahead(gexCaller, x) BY <1>9
    <3> QED BY <3>2, <3>3, <3>4
  <2> QED BY <2>1, <2>2
<1> QED BY <1>6, <1>11, <1>12, <1>13, <1>14, <1>15 DEF LockInv

\* A call that is over leaves every line (TakeFilled, TakeBackoff, FetchFails).
LEMMA AnsweredKeepsTheLine ==
  ASSUME LockInv(gexCaller), NEW c \in GexCallers
  PROVE  LockInv(Answered(gexCaller, c))
<1> DEFINE after == Answered(gexCaller, c)
<1>1. CallersTyped(gexCaller) BY DEF LockInv
<1>2. after[c] = Resting /\ DOMAIN after = GexCallers BY DEF Answered
<1>3. \A d \in GexCallers : gexCaller[d] = Resting => after[d] = Resting BY DEF Answered
<1>4. ASSUME NEW d \in GexCallers, d # c, Calling(gexCaller, d)
      PROVE  /\ after[d] \in GexCall /\ after[d] # Resting
             /\ after[d].at = gexCaller[d].at /\ after[d].symbol = gexCaller[d].symbol
             /\ after[d].lock = gexCaller[d].lock
             /\ after[d].ahead = gexCaller[d].ahead \ {c}
  <2>1. after[d] = [gexCaller[d] EXCEPT !.ahead = @ \ {c}]
    BY <1>4 DEF Answered, Calling
  <2>2. gexCaller[d] \in GexCall BY <1>1, <1>4, CallingIsTyped
  <2>3. after[d] \in GexCall BY <2>1, <2>2 DEF GexCall
  <2>4. after[d] # Resting BY <2>3, CallIsNotResting
  <2> QED BY <2>1, <2>2, <2>3, <2>4 DEF GexCall
<1>5. CallersTyped(after)
  <2>1. \A d \in GexCallers : after[d] \in {Resting} \cup GexCall
    BY <1>2, <1>3, <1>4 DEF Calling
  <2> QED BY <2>1 DEF CallersTyped, Answered
<1> HIDE DEF after
<1>6. \A d \in GexCallers : Calling(after, d) <=> (d # c /\ Calling(gexCaller, d))
  BY <1>2, <1>3, <1>4 DEF Calling
<1>7. Ahead(after, c) = {} /\ \A d \in GexCallers : d # c => Ahead(after, d) = Ahead(gexCaller, d) \ {c}
  BY <1>2, <1>3, <1>4 DEF Ahead, Calling
<1>8. WaitsForItsLock(after)
  BY <1>4, <1>6 DEF LockInv, WaitsForItsLock
<1>9. FetchersWaitForNobody(after)
  BY <1>4, <1>6 DEF LockInv, FetchersWaitForNobody
<1>10. OneLine(after)
  BY <1>4, <1>6 DEF LockInv, OneLine
<1>11. LineIsAnOrder(after)
  BY <1>7 DEF LockInv, LineIsAnOrder
<1>12. SomebodyIsFirst(after)
  <2>1. \A x \in GexCallers : Ahead(after, x) \subseteq Ahead(gexCaller, x) BY <1>7
  <2> QED BY <2>1 DEF LockInv, SomebodyIsFirst
<1> QED BY <1>5, <1>8, <1>9, <1>10, <1>11, <1>12 DEF LockInv, after

\* Who fetches had nobody before it (BeginFetch).
LEMMA BeginKeepsTheLine ==
  ASSUME LockInv(gexCaller), NEW c \in GexCallers, HasTheLock(c)
  PROVE  LockInv([gexCaller EXCEPT ![c].at = "fetch"])
<1> DEFINE after == [gexCaller EXCEPT ![c].at = "fetch"]
<1>1. CallersTyped(gexCaller) BY DEF LockInv
<1>2. Calling(gexCaller, c) /\ gexCaller[c].ahead = {} BY DEF HasTheLock, Calling
<1>3. gexCaller[c] \in GexCall BY <1>1, <1>2, CallingIsTyped
<1>4. after[c] = [gexCaller[c] EXCEPT !.at = "fetch"] BY <1>1 DEF CallersTyped
<1>5. after[c] \in GexCall BY <1>3, <1>4 DEF GexCall
<1>6. after[c] # Resting BY <1>5, CallIsNotResting
<1>7. /\ after[c].symbol = gexCaller[c].symbol /\ after[c].lock = gexCaller[c].lock
      /\ after[c].ahead = gexCaller[c].ahead
  BY <1>3, <1>4 DEF GexCall
<1>8. \A d \in GexCallers : d # c => after[d] = gexCaller[d] BY <1>1 DEF CallersTyped
<1>9. CallersTyped(after) BY <1>1, <1>5, <1>8 DEF CallersTyped
<1> HIDE DEF after
<1>10. \A d \in GexCallers :
         /\ Calling(after, d) <=> Calling(gexCaller, d)
         /\ Ahead(after, d) = Ahead(gexCaller, d)
         /\ Calling(gexCaller, d) => /\ after[d].symbol = gexCaller[d].symbol
                                     /\ after[d].lock = gexCaller[d].lock
                                     /\ after[d].ahead = gexCaller[d].ahead
  BY <1>2, <1>6, <1>7, <1>8 DEF Calling, Ahead
<1>11. WaitsForItsLock(after) BY <1>10 DEF LockInv, WaitsForItsLock
<1>12. FetchersWaitForNobody(after)
  BY <1>2, <1>8, <1>10 DEF LockInv, FetchersWaitForNobody
<1>13. OneLine(after) BY <1>10 DEF LockInv, OneLine
<1>14. LineIsAnOrder(after) BY <1>10 DEF LockInv, LineIsAnOrder
<1>15. SomebodyIsFirst(after) BY <1>10 DEF LockInv, SomebodyIsFirst
<1> QED BY <1>9, <1>11, <1>12, <1>13, <1>14, <1>15 DEF LockInv, after

\* A symbol that is evicted takes its lock from everybody in its line at once.
LEMMA EvictingKeepsTheLine ==
  ASSUME NEW callers, LockInv(callers), NEW gone
  PROVE  LockInv(Evicting(callers, gone))
<1> DEFINE after == Evicting(callers, gone)
<1>1. CallersTyped(callers) BY DEF LockInv
<1>2. \A d \in GexCallers : callers[d] = Resting => after[d] = Resting BY DEF Evicting
<1>3. ASSUME NEW d \in GexCallers, Calling(callers, d)
      PROVE  /\ after[d] \in GexCall /\ after[d] # Resting
             /\ after[d].at = callers[d].at /\ after[d].symbol = callers[d].symbol
             /\ after[d].ahead = callers[d].ahead
             /\ after[d].lock = IF callers[d].symbol \in gone THEN "dropped" ELSE callers[d].lock
  <2>1. callers[d] \in GexCall BY <1>1, <1>3, CallingIsTyped
  <2>2. CASE callers[d].symbol \in gone
    <3>1. after[d] = [callers[d] EXCEPT !.lock = "dropped"]
      BY <1>3, <2>2 DEF Evicting, Calling
    <3>2. after[d] \in GexCall BY <2>1, <3>1 DEF GexCall
    <3>3. after[d] # Resting BY <3>2, CallIsNotResting
    <3> QED BY <2>1, <2>2, <3>1, <3>2, <3>3 DEF GexCall
  <2>3. CASE callers[d].symbol \notin gone
    BY <1>3, <2>1, <2>3 DEF Evicting, Calling
  <2> QED BY <2>2, <2>3
<1>4. CallersTyped(after)
  <2>1. \A d \in GexCallers : after[d] \in {Resting} \cup GexCall
    BY <1>2, <1>3 DEF Calling
  <2> QED BY <2>1 DEF CallersTyped, Evicting
<1> HIDE DEF after
<1>5. \A d \in GexCallers : (Calling(after, d) <=> Calling(callers, d)) /\ Ahead(after, d) = Ahead(callers, d)
  BY <1>2, <1>3 DEF Calling, Ahead
<1>6. WaitsForItsLock(after) BY <1>3, <1>5 DEF LockInv, WaitsForItsLock
<1>7. FetchersWaitForNobody(after) BY <1>3, <1>5 DEF LockInv, FetchersWaitForNobody
<1>8. OneLine(after) BY <1>3, <1>5 DEF LockInv, OneLine
<1>9. LineIsAnOrder(after) BY <1>5 DEF LockInv, LineIsAnOrder
<1>10. SomebodyIsFirst(after) BY <1>5 DEF LockInv, SomebodyIsFirst
<1> QED BY <1>4, <1>6, <1>7, <1>8, <1>9, <1>10 DEF LockInv, after

-----------------------------------------------------------------------------

LEMMA InitLine == GexInit => LockInv(gexCaller)
<1> SUFFICES ASSUME GexInit PROVE LockInv(gexCaller) OBVIOUS
<1>1. \A c \in GexCallers : gexCaller[c] = Resting BY DEF GexInit
<1>2. CallersTyped(gexCaller) BY DEF GexInit, CallersTyped
<1>3. \A c \in GexCallers : Ahead(gexCaller, c) = {} BY <1>1 DEF Ahead
<1> QED BY <1>1, <1>2, <1>3
      DEF LockInv, WaitsForItsLock, FetchersWaitForNobody, OneLine, LineIsAnOrder,
          SomebodyIsFirst, Calling

LEMMA StepKeepsTheLine ==
  LockInv(gexCaller) /\ [GexNext]_gexVars => LockInv(gexCaller')
<1> SUFFICES ASSUME LockInv(gexCaller), [GexNext]_gexVars PROVE LockInv(gexCaller') OBVIOUS
<1>1. ASSUME NEW c \in GexCallers, NEW s \in GexSymbols, NEW by \in {"reading", "refresh"},
             GexAsk(c, s, by)
      PROVE  LockInv(gexCaller')
  <2>1. CASE s \in gexFresh /\ by = "reading"
    BY <1>1, <2>1 DEF GexAsk
  <2>2. CASE ~(s \in gexFresh /\ by = "reading")
    BY <1>1, <2>2, AskKeepsTheLine DEF GexAsk
  <2> QED BY <2>1, <2>2
<1>2. ASSUME NEW c \in GexCallers, TakeFilled(c) PROVE LockInv(gexCaller')
  BY <1>2, AnsweredKeepsTheLine DEF TakeFilled
<1>3. ASSUME NEW c \in GexCallers, TakeBackoff(c) PROVE LockInv(gexCaller')
  BY <1>3, AnsweredKeepsTheLine DEF TakeBackoff
<1>4. ASSUME NEW c \in GexCallers, BeginFetch(c) PROVE LockInv(gexCaller')
  BY <1>4, BeginKeepsTheLine DEF BeginFetch
<1>5. ASSUME NEW c \in GexCallers, FetchAnswers(c) PROVE LockInv(gexCaller')
  BY <1>5, AnsweredKeepsTheLine, EvictingKeepsTheLine DEF FetchAnswers
<1>6. ASSUME NEW c \in GexCallers, FetchFails(c) PROVE LockInv(gexCaller')
  BY <1>6, AnsweredKeepsTheLine DEF FetchFails
<1>7. ASSUME NEW s \in GexSymbols, GoStale(s) \/ BackoffEnds(s) PROVE LockInv(gexCaller')
  BY <1>7 DEF GoStale, BackoffEnds
<1>8. ASSUME UNCHANGED gexVars PROVE LockInv(gexCaller')
  BY <1>8 DEF gexVars
<1> QED BY <1>1, <1>2, <1>3, <1>4, <1>5, <1>6, <1>7, <1>8 DEF GexNext, GexStep, FetchEnds

\* The callers on a lock stand in one line at all times.
THEOREM LockLine == GexSpec => []LockInv(gexCaller)
<1>1. LockInv(gexCaller) /\ [GexNext]_gexVars => LockInv(gexCaller)'
  BY StepKeepsTheLine
<1> QED BY InitLine, <1>1, PTL DEF GexSpec

\* For any number of symbols and callers, two fetches of a symbol are under way
\* together only when the symbol was evicted after the first of them called.
THEOREM OneFetchAtATime == GexSpec => []OneFetchUnlessEvicted
<1>1. LockInv(gexCaller) => OneFetchUnlessEvicted
  <2> SUFFICES ASSUME LockInv(gexCaller), NEW c \in GexCallers, NEW d \in GexCallers,
                      IsFetching(c), IsFetching(d), c # d,
                      gexCaller[c].symbol = gexCaller[d].symbol,
                      gexCaller[c].lock # "dropped", gexCaller[d].lock # "dropped"
               PROVE  FALSE
    BY DEF OneFetchUnlessEvicted
  <2>1. Calling(gexCaller, c) /\ Calling(gexCaller, d) BY DEF IsFetching, Calling
  <2>2. gexCaller[c].lock = "kept" /\ gexCaller[d].lock = "kept"
    BY <2>1, CallingIsTyped DEF LockInv
  <2>3. gexCaller[c].ahead = {} /\ gexCaller[d].ahead = {}
    BY <2>1 DEF LockInv, FetchersWaitForNobody, IsFetching
  <2> QED BY <2>1, <2>2, <2>3 DEF LockInv, OneLine
<1> QED BY <1>1, LockLine, PTL

\* For any number of symbols and callers, whoever waits is behind a call that
\* holds the lock or is fetching: no line of the cache ever stands still.
THEOREM QueuesAlwaysMove == GexSpec => []QueuesMove
<1>1. LockInv(gexCaller) => QueuesMove
  <2> SUFFICES ASSUME LockInv(gexCaller), NEW c \in GexCallers, gexCaller[c] # Resting
               PROVE  \E d \in gexCaller[c].ahead \cup {c} : HasTheLock(d) \/ IsFetching(d)
    BY DEF QueuesMove
  <2> DEFINE T == gexCaller[c].ahead \cup {c}
  <2>1. T # {} /\ T \in SUBSET GexCallers
    BY CallingIsTyped DEF LockInv, Calling
  <2>2. PICK x \in T : Ahead(gexCaller, x) \cap T = {}
    BY <2>1 DEF LockInv, SomebodyIsFirst
  <2>3. x \in GexCallers BY <2>1, <2>2
  <2>4. Calling(gexCaller, x)
    BY <2>2, <2>3 DEF LockInv, WaitsForItsLock, Calling
  <2>5. Ahead(gexCaller, x) \subseteq T
    <3>1. CASE x = c BY <3>1 DEF Ahead
    <3>2. CASE x \in gexCaller[c].ahead
      <4>1. x \in Ahead(gexCaller, c) BY <3>2 DEF Ahead
      <4>2. Ahead(gexCaller, x) \subseteq Ahead(gexCaller, c)
        BY <4>1, <2>3 DEF LockInv, LineIsAnOrder
      <4> QED BY <4>2 DEF Ahead
    <3> QED BY <3>1, <3>2, <2>2
  <2>6. gexCaller[x].ahead = {} BY <2>2, <2>4, <2>5 DEF Ahead, Calling
  <2>7. gexCaller[x].at \in {"wait", "fetch"}
    BY <2>3, <2>4, CallingIsTyped DEF LockInv
  <2>8. HasTheLock(x) \/ IsFetching(x)
    BY <2>4, <2>6, <2>7 DEF HasTheLock, IsFetching, Calling
  <2> QED BY <2>2, <2>8
<1> QED BY <1>1, LockLine, PTL

-----------------------------------------------------------------------------
(***************************************************************************)
(* The live charts, for any tabs, symbols, caps and flush tasks.  The      *)
(* count of a symbol never exceeds its watchers: a tab that was turned     *)
(* away takes a count along when it takes its symbol back, but it never    *)
(* leaves one too many.  So the last watcher of a stock always goes on to  *)
(* the provider, and whatever is still streamed has a watcher or a handler *)
(* that is about to give it up.                                            *)
(***************************************************************************)

Watchers(y) == {s \in Sockets : Watches(s, y)}

\* The handler of s is about to give up feed f of y.
GivesUp(s, y, f) ==
  /\ sock[s].at = "unsubscribing" /\ sock[s].on = y
  /\ sock[s].feed = "first" \/ f = "second"

\* A handler that calls the provider is on a symbol; what it subscribes its tab
\* asked for and does not hold yet, and what is held was asked for.
HandlersAgree ==
  \A s \in Sockets :
    /\ sock[s].at \in {"subscribing", "unsubscribing"} => sock[s].on \in Symbols
    /\ sock[s].at = "subscribing" =>
         sock[s].on \in asked[s] /\ sock[s].on \notin holds[s] /\ sock[s].closing = "no"
    /\ holds[s] \subseteq asked[s]

CountIsWatched == \A y \in Symbols \ broken : refs[y] <= Cardinality(Watchers(y))

StreamedForSomebody ==
  \A y \in Stocks \ broken, f \in Feeds :
    <<y, f>> \in live => \E s \in Sockets : Watches(s, y) \/ GivesUp(s, y, f)

\* Whoever owns the entry, and whatever waits to be sent, has a task that sleeps.
TasksSleep == \A y \in entry \cup batch : sleeping[y] > 0

SharesInv == StreamsTypeOK /\ HandlersAgree /\ CountIsWatched /\ StreamedForSomebody
StreamsInv == SharesInv /\ TasksSleep

-----------------------------------------------------------------------------
(* Counting.                                                               *)

LEMMA OneMore ==
  ASSUME NEW W, IsFiniteSet(W), NEW s, s \notin W, NEW m \in Nat, m <= Cardinality(W)
  PROVE  m + 1 <= Cardinality(W \cup {s})
<1>1. Cardinality(W) \in Nat
  BY FS_CardinalityType
<1>2. Cardinality(W \cup {s}) = Cardinality(W) + 1
  BY FS_AddElement
<1>3. QED
  BY <1>1, <1>2

LEMMA OneLess ==
  ASSUME NEW W, IsFiniteSet(W), NEW s, NEW m \in Nat, m <= Cardinality(W),
         NEW n \in Nat, m = 0 => n = 0, m > 0 => n <= m - 1
  PROVE  n <= Cardinality(W \ {s})
<1>1. Cardinality(W) \in Nat /\ Cardinality(W \ {s}) \in Nat
  BY FS_CardinalityType, FS_RemoveElement
<1>2. Cardinality(W \ {s}) = IF s \in W THEN Cardinality(W) - 1 ELSE Cardinality(W)
  BY FS_RemoveElement
<1>3. QED
  BY <1>1, <1>2

LEMMA WatchersFinite ==
  ASSUME NEW y
  PROVE  IsFiniteSet(Watchers(y))
BY SocketsAssumption, FS_Subset DEF Watchers

\* A watched symbol has a watcher.
LEMMA CountedIsWatched ==
  ASSUME NEW y, NEW m \in Nat, m > 0, m <= Cardinality(Watchers(y))
  PROVE  \E s \in Sockets : Watches(s, y)
<1>1. Watchers(y) # {}
  BY FS_EmptySet
<1>2. QED
  BY <1>1 DEF Watchers

\* With two counted another watcher stays when one leaves.
LEMMA AnotherWatches ==
  ASSUME NEW y, NEW s, NEW m \in Nat, m >= 2, m <= Cardinality(Watchers(y))
  PROVE  \E r \in Sockets \ {s} : Watches(r, y)
<1>1. Cardinality(Watchers(y)) \in Nat
  BY WatchersFinite, FS_CardinalityType
<1>2. Cardinality(Watchers(y) \ {s}) >= 1
  BY <1>1, WatchersFinite, FS_RemoveElement
<1>3. Watchers(y) \ {s} # {}
  BY <1>2, FS_EmptySet
<1>4. QED
  BY <1>3 DEF Watchers

-----------------------------------------------------------------------------
(* Handlers.                                                               *)

LEMMA HandlerTurns ==
  ASSUME NEW y \in Symbols \cup {NoSymbol}, NEW c \in {"no", "yes"},
         NEW at \in {"open", "subscribing", "unsubscribing", "closing", "gone"}
  PROVE  /\ HandlerOn(y, at, c) \in Handler
         /\ HandlerOn(y, at, c).at = at /\ HandlerOn(y, at, c).on = y
         /\ HandlerOn(y, at, c).feed = "first" /\ HandlerOn(y, at, c).closing = c
BY DEF HandlerOn, Handler, Feeds

\* The second feed is next.
LEMMA SecondFeed ==
  ASSUME NEW h \in Handler
  PROVE  /\ [h EXCEPT !.feed = "second"] \in Handler
         /\ [h EXCEPT !.feed = "second"].at = h.at /\ [h EXCEPT !.feed = "second"].on = h.on
         /\ [h EXCEPT !.feed = "second"].feed = "second"
         /\ [h EXCEPT !.feed = "second"].closing = h.closing
BY DEF Handler, Feeds

-----------------------------------------------------------------------------

\* What a symbol that is let go of leaves: its count is one less, and a stock
\* whose count is used up is given up, feed by feed.
LEMMA LetGoFacts ==
  ASSUME StreamsTypeOK, NEW s \in Sockets, NEW y \in Symbols, LetGo(s, y)
  PROVE  /\ refs' \in [Symbols -> Nat]
         /\ \A z \in Symbols \ {y} : refs'[z] = refs[z]
         /\ refs[y] = 0 => refs'[y] = 0
         /\ refs[y] > 0 => refs'[y] <= refs[y] - 1
         /\ sock' \in [Sockets -> Handler]
         /\ \A r \in Sockets \ {s} : sock'[r] = sock[r]
         /\ \/ /\ sock'[s].at = "unsubscribing" /\ sock'[s].on = y /\ sock'[s].feed = "first"
               /\ sock'[s].closing = sock[s].closing
            \/ sock'[s] = sock[s] /\ (y \in Stocks => refs[y] >= 2)
<1> USE DEF StreamsTypeOK
<1>1. CASE refs[y] <= 1 /\ (y \in Stocks \/ refs[y] > 0)
  <2>1. /\ refs' = [refs EXCEPT ![y] = 0]
        /\ sock' = [sock EXCEPT ![s] = HandlerOn(y, "unsubscribing", @.closing)]
    BY <1>1 DEF LetGo
  <2>2. refs[y] \in Nat /\ refs'[y] = 0 /\ refs' \in [Symbols -> Nat]
    BY <2>1
  <2>3. sock[s] \in Handler /\ sock'[s] = HandlerOn(y, "unsubscribing", sock[s].closing)
    BY <2>1
  <2>4. /\ sock'[s].at = "unsubscribing" /\ sock'[s].on = y /\ sock'[s].feed = "first"
        /\ sock'[s].closing = sock[s].closing /\ sock'[s] \in Handler
    BY <2>3, HandlerTurns DEF Handler
  <2>5. sock' \in [Sockets -> Handler] /\ \A r \in Sockets \ {s} : sock'[r] = sock[r]
    BY <2>1, <2>4
  <2>6. QED
    BY <2>1, <2>2, <2>4, <2>5
<1>2. CASE ~(refs[y] <= 1 /\ (y \in Stocks \/ refs[y] > 0))
  <2>1. /\ refs' = [refs EXCEPT ![y] = IF @ > 0 THEN @ - 1 ELSE 0]
        /\ sock' = sock
    BY <1>2 DEF LetGo
  <2>2. QED
    BY <2>1, <1>2
<1>3. QED
  BY <1>1, <1>2

-----------------------------------------------------------------------------
(* The steps of a tab that asks.                                           *)

LEMMA ShareStep ==
  ASSUME SharesInv, NEW s \in Sockets, NEW y \in Symbols, Share(s, y)
  PROVE  SharesInv'
<1> USE DEF Share, Ask, Join, flushVars
<1>1. StreamsTypeOK'
  BY DEF SharesInv, StreamsTypeOK
<1>2. HandlersAgree'
  BY DEF SharesInv, StreamsTypeOK, HandlersAgree, Handler
<1>3. CountIsWatched'
  <2> SUFFICES ASSUME NEW z \in Symbols \ broken
               PROVE  refs'[z] <= Cardinality(Watchers(z)')
    BY DEF CountIsWatched
  <2>1. refs[z] \in Nat /\ refs[z] <= Cardinality(Watchers(z))
    BY DEF SharesInv, CountIsWatched, StreamsTypeOK
  <2>2. CASE z = y
    <3>1. s \notin Watchers(y)
      BY DEF SharesInv, HandlersAgree, Watchers, Watches
    <3>2. Watchers(y)' = Watchers(y) \cup {s} /\ refs'[y] = refs[y] + 1
      BY DEF SharesInv, StreamsTypeOK, Watchers, Watches
    <3>3. QED
      BY <2>1, <2>2, <3>1, <3>2, WatchersFinite, OneMore
  <2>3. CASE z # y
    <3>1. Watchers(z)' = Watchers(z) /\ refs'[z] = refs[z]
      BY <2>3 DEF SharesInv, StreamsTypeOK, Watchers, Watches
    <3>2. QED
      BY <2>1, <3>1
  <2>4. QED
    BY <2>2, <2>3
<1>4. StreamedForSomebody'
  BY DEF SharesInv, StreamsTypeOK, StreamedForSomebody, Watches, GivesUp
<1>5. QED
  BY <1>1, <1>2, <1>3, <1>4 DEF SharesInv

LEMMA TurnAwayStep ==
  ASSUME SharesInv, NEW s \in Sockets, NEW y \in Symbols, TurnAway(s, y)
  PROVE  SharesInv'
<1> USE DEF TurnAway, Ask, flushVars
<1>1. StreamsTypeOK'
  BY DEF SharesInv, StreamsTypeOK
<1>2. HandlersAgree'
  BY DEF SharesInv, StreamsTypeOK, HandlersAgree
<1>3. CountIsWatched' /\ StreamedForSomebody'
  BY DEF SharesInv, CountIsWatched, StreamedForSomebody, Watchers, Watches, GivesUp
<1>4. QED
  BY <1>1, <1>2, <1>3 DEF SharesInv

LEMMA StartStep ==
  ASSUME SharesInv, NEW s \in Sockets, NEW y \in Symbols, StartStream(s, y)
  PROVE  SharesInv'
<1> USE DEF StartStream, Ask, flushVars
<1>0. /\ sock'[s] \in Handler /\ sock'[s].at = "subscribing" /\ sock'[s].on = y
      /\ sock'[s].closing = "no"
      /\ \A r \in Sockets \ {s} : sock'[r] = sock[r]
  <2>1. sock[s] \in Handler /\ sock'[s] = HandlerOn(y, "subscribing", "no")
    BY DEF SharesInv, StreamsTypeOK
  <2>2. \A r \in Sockets \ {s} : sock'[r] = sock[r]
    BY DEF SharesInv, StreamsTypeOK
  <2>3. QED
    BY <2>1, <2>2, HandlerTurns
<1>1. StreamsTypeOK'
  BY <1>0 DEF SharesInv, StreamsTypeOK
<1>2. HandlersAgree'
  BY <1>0 DEF SharesInv, StreamsTypeOK, HandlersAgree
<1>3. CountIsWatched'
  <2> SUFFICES ASSUME NEW z \in Symbols \ broken
               PROVE  refs'[z] <= Cardinality(Watchers(z)')
    BY DEF CountIsWatched
  <2>1. refs[z] \in Nat /\ refs[z] <= Cardinality(Watchers(z))
    BY DEF SharesInv, CountIsWatched, StreamsTypeOK
  <2>2. CASE z = y
    <3>1. s \notin Watchers(y)
      BY DEF SharesInv, HandlersAgree, Watchers, Watches
    <3>2. Watchers(y)' = Watchers(y) \cup {s} /\ refs'[y] = refs[y] + 1
      BY <1>0 DEF SharesInv, StreamsTypeOK, Watchers, Watches
    <3>3. QED
      BY <2>1, <2>2, <3>1, <3>2, WatchersFinite, OneMore
  <2>3. CASE z # y
    <3>1. Watchers(z)' = Watchers(z) /\ refs'[z] = refs[z]
      BY <1>0, <2>3 DEF SharesInv, StreamsTypeOK, Watchers, Watches
    <3>2. QED
      BY <2>1, <3>1
  <2>4. QED
    BY <2>2, <2>3
<1>4. StreamedForSomebody'
  BY <1>0 DEF SharesInv, StreamsTypeOK, StreamedForSomebody, Watches, GivesUp
<1>5. QED
  BY <1>1, <1>2, <1>3, <1>4 DEF SharesInv

LEMMA SubscribeStep ==
  ASSUME SharesInv, NEW s \in Sockets, SubscribeFeed(s)
  PROVE  SharesInv'
<1> DEFINE y == sock[s].on
<1>1. y \in Symbols /\ Watches(s, y) /\ sock[s] \in Handler /\ sock[s].at = "subscribing"
  BY DEF SubscribeFeed, SharesInv, StreamsTypeOK, HandlersAgree, Watches
<1>2. /\ \A r \in Sockets \ {s} : sock'[r] = sock[r] /\ holds'[r] = holds[r]
      /\ live' = live \cup {<<y, sock[s].feed>>}
      /\ UNCHANGED <<asked, refs, broken, batch, entry, sleeping, dying>>
  BY DEF SubscribeFeed, SharesInv, StreamsTypeOK, Join, flushVars
<1>3. /\ sock'[s] \in Handler /\ sock'[s].at # "unsubscribing"
      /\ \/ /\ sock'[s].at = "subscribing" /\ sock'[s].on = y /\ sock'[s].closing = sock[s].closing
            /\ holds'[s] = holds[s]
         \/ sock'[s].at = "open" /\ holds'[s] = holds[s] \cup {y}
  <2>1. CASE sock[s].feed = "first"
    <3>1. sock'[s] = [sock[s] EXCEPT !.feed = "second"] /\ holds'[s] = holds[s]
      BY <2>1 DEF SubscribeFeed, SharesInv, StreamsTypeOK
    <3>2. QED
      BY <1>1, <3>1, SecondFeed
  <2>2. CASE sock[s].feed # "first"
    <3>1. sock'[s] = Waiting /\ holds'[s] = holds[s] \cup {y}
      BY <2>2 DEF SubscribeFeed, SharesInv, StreamsTypeOK, Join
    <3>2. QED
      BY <3>1, HandlerTurns DEF Waiting
  <2>3. QED
    BY <2>1, <2>2
<1>4. StreamsTypeOK'
  <2>1. sock' \in [Sockets -> Handler]
    BY <1>2, <1>3 DEF SubscribeFeed, SharesInv, StreamsTypeOK
  <2>2. holds' \in [Sockets -> SUBSET Symbols] /\ topic' \in [Symbols -> SUBSET Sockets]
    BY <1>1 DEF SubscribeFeed, SharesInv, StreamsTypeOK, Join
  <2>3. <<y, sock[s].feed>> \in Symbols \X Feeds
    BY <1>1 DEF Handler
  <2>4. QED
    BY <1>2, <2>1, <2>2, <2>3 DEF SharesInv, StreamsTypeOK
<1>5. HandlersAgree'
  BY <1>1, <1>2, <1>3 DEF SharesInv, StreamsTypeOK, HandlersAgree
<1>6. \A r \in Sockets, z \in Symbols : Watches(r, z)' <=> Watches(r, z)
  BY <1>1, <1>2, <1>3 DEF Watches
<1>7. CountIsWatched'
  BY <1>2, <1>6 DEF SharesInv, CountIsWatched, Watchers
<1>8. \A r \in Sockets, z \in Symbols, f \in Feeds : GivesUp(r, z, f) => GivesUp(r, z, f)'
  BY <1>1, <1>2 DEF GivesUp
<1>9. StreamedForSomebody'
  BY <1>1, <1>2, <1>6, <1>8 DEF SharesInv, StreamedForSomebody, Symbols
<1>10. QED
  BY <1>4, <1>5, <1>7, <1>9 DEF SharesInv

-----------------------------------------------------------------------------
(* The steps of a tab that takes a symbol back, or is closed.              *)

\* The handler of s lets go of y; what it was asked for besides is free.
LEMMA LeaveStep ==
  ASSUME SharesInv, NEW s \in Sockets, NEW y \in Symbols,
         sock[s].at \in {"open", "closing"},
         LetGo(s, y),
         holds' = [holds EXCEPT ![s] = @ \ {y}],
         asked' \in [Sockets -> SUBSET Symbols],
         \A r \in Sockets \ {s} : asked'[r] = asked[r],
         holds'[s] \subseteq asked'[s],
         topic' \in [Symbols -> SUBSET Sockets],
         UNCHANGED <<live, broken, batch, entry, sleeping, dying>>
  PROVE  SharesInv'
<1>1. /\ refs' \in [Symbols -> Nat]
      /\ \A z \in Symbols \ {y} : refs'[z] = refs[z]
      /\ refs[y] = 0 => refs'[y] = 0
      /\ refs[y] > 0 => refs'[y] <= refs[y] - 1
      /\ sock' \in [Sockets -> Handler]
      /\ \A r \in Sockets \ {s} : sock'[r] = sock[r]
  BY LetGoFacts DEF SharesInv
<1>2. \/ /\ sock'[s].at = "unsubscribing" /\ sock'[s].on = y /\ sock'[s].feed = "first"
         /\ sock'[s].closing = sock[s].closing
      \/ sock'[s] = sock[s] /\ (y \in Stocks => refs[y] >= 2)
  BY LetGoFacts DEF SharesInv
<1>3. /\ holds' \in [Sockets -> SUBSET Symbols] /\ holds'[s] = holds[s] \ {y}
      /\ \A r \in Sockets \ {s} : holds'[r] = holds[r]
  BY DEF SharesInv, StreamsTypeOK
<1>4. StreamsTypeOK'
  BY <1>1, <1>3 DEF SharesInv, StreamsTypeOK
<1>5. HandlersAgree'
  BY <1>1, <1>2, <1>3 DEF SharesInv, HandlersAgree
<1>6. sock'[s].at # "subscribing" /\ ~Watches(s, y)'
  BY <1>2, <1>3 DEF Watches
<1>7. \A r \in Sockets, z \in Symbols :
        r # s \/ z # y => (Watches(r, z)' <=> Watches(r, z))
  BY <1>1, <1>3, <1>6 DEF Watches
<1>8. CountIsWatched'
  <2> SUFFICES ASSUME NEW z \in Symbols \ broken
               PROVE  refs'[z] <= Cardinality(Watchers(z)')
    BY DEF CountIsWatched
  <2>1. refs[z] \in Nat /\ refs[z] <= Cardinality(Watchers(z)) /\ refs'[z] \in Nat
    BY <1>1 DEF SharesInv, CountIsWatched, StreamsTypeOK
  <2>2. CASE z = y
    <3>1. Watchers(y)' = Watchers(y) \ {s}
      BY <1>6, <1>7 DEF Watchers
    <3>2. QED
      BY <1>1, <2>1, <2>2, <3>1, WatchersFinite, OneLess
  <2>3. CASE z # y
    <3>1. Watchers(z)' = Watchers(z)
      BY <1>7, <2>3 DEF Watchers
    <3>2. QED
      BY <1>1, <2>1, <2>3, <3>1
  <2>4. QED
    BY <2>2, <2>3
<1>9. StreamedForSomebody'
  <2> SUFFICES ASSUME NEW z \in Stocks \ broken, NEW f \in Feeds, <<z, f>> \in live
               PROVE  \E r \in Sockets : Watches(r, z)' \/ GivesUp(r, z, f)'
    BY DEF StreamedForSomebody
  <2>1. PICK r \in Sockets : Watches(r, z) \/ GivesUp(r, z, f)
    BY DEF SharesInv, StreamedForSomebody
  <2>2. GivesUp(r, z, f) => r # s
    BY DEF GivesUp
  <2>3. GivesUp(r, z, f) => GivesUp(r, z, f)'
    BY <1>1, <2>2 DEF GivesUp
  <2>4. z \in Symbols
    BY DEF Symbols
  <2>5. CASE r # s \/ z # y
    BY <1>7, <2>1, <2>3, <2>4, <2>5
  <2>6. CASE z = y /\ sock'[s].at = "unsubscribing"
    BY <1>2, <2>6 DEF GivesUp
  <2>7. CASE z = y /\ sock'[s] = sock[s]
    <3>1. refs[y] \in Nat /\ refs[y] >= 2 /\ refs[y] <= Cardinality(Watchers(y))
      BY <1>2, <2>7 DEF SharesInv, CountIsWatched, StreamsTypeOK
    <3>2. PICK q \in Sockets \ {s} : Watches(q, y)
      BY <3>1, AnotherWatches
    <3>3. QED
      BY <1>7, <2>7, <3>2
  <2>8. QED
    BY <1>2, <2>5, <2>6, <2>7
<1>10. QED
  BY <1>4, <1>5, <1>8, <1>9 DEF SharesInv

LEMMA TakeBackStep ==
  ASSUME SharesInv, NEW s \in Sockets, NEW y \in Symbols, TakeBack(s, y)
  PROVE  SharesInv'
<1>1. /\ sock[s].at = "open" /\ LetGo(s, y) /\ holds' = [holds EXCEPT ![s] = @ \ {y}]
      /\ UNCHANGED <<live, broken, batch, entry, sleeping, dying>>
  BY DEF TakeBack, flushVars
<1>2. /\ asked' \in [Sockets -> SUBSET Symbols] /\ \A r \in Sockets \ {s} : asked'[r] = asked[r]
      /\ holds'[s] \subseteq asked'[s]
      /\ topic' \in [Symbols -> SUBSET Sockets]
  BY DEF TakeBack, SharesInv, StreamsTypeOK, HandlersAgree
<1>3. QED
  BY <1>1, <1>2, LeaveStep

LEMMA CloseNextStep ==
  ASSUME SharesInv, NEW s \in Sockets, NEW y \in Symbols, CloseNext(s, y)
  PROVE  SharesInv'
<1>1. /\ sock[s].at = "closing" /\ LetGo(s, y) /\ holds' = [holds EXCEPT ![s] = @ \ {y}]
      /\ UNCHANGED <<live, broken, batch, entry, sleeping, dying>>
  BY DEF CloseNext, flushVars
<1>2. /\ asked' \in [Sockets -> SUBSET Symbols] /\ \A r \in Sockets \ {s} : asked'[r] = asked[r]
      /\ holds'[s] \subseteq asked'[s]
      /\ topic' \in [Symbols -> SUBSET Sockets]
  BY DEF CloseNext, SharesInv, StreamsTypeOK, HandlersAgree
<1>3. QED
  BY <1>1, <1>2, LeaveStep

\* The handler turns from no symbol to none, and holds what it held.
LEMMA TurnStep ==
  ASSUME SharesInv, NEW s \in Sockets, NEW at \in {"closing", "gone"},
         sock[s].at \in {"open", "closing"},
         sock' = [sock EXCEPT ![s] = HandlerOn(NoSymbol, at, "yes")],
         topic' \in [Symbols -> SUBSET Sockets],
         UNCHANGED <<asked, holds, refs, live, broken, batch, entry, sleeping, dying>>
  PROVE  SharesInv'
<1>1. /\ sock' \in [Sockets -> Handler] /\ sock'[s].at = at
      /\ \A r \in Sockets \ {s} : sock'[r] = sock[r]
  BY HandlerTurns DEF SharesInv, StreamsTypeOK
<1>2. StreamsTypeOK' /\ HandlersAgree'
  BY <1>1 DEF SharesInv, StreamsTypeOK, HandlersAgree
<1>3. \A r \in Sockets, z \in Symbols : Watches(r, z)' <=> Watches(r, z)
  BY <1>1 DEF Watches
<1>4. CountIsWatched'
  BY <1>3 DEF SharesInv, CountIsWatched, Watchers
<1>5. \A r \in Sockets, z \in Symbols, f \in Feeds : GivesUp(r, z, f) => GivesUp(r, z, f)'
  BY <1>1 DEF GivesUp
<1>6. StreamedForSomebody'
  BY <1>3, <1>5 DEF SharesInv, StreamedForSomebody, Symbols
<1>7. QED
  BY <1>2, <1>4, <1>6 DEF SharesInv

LEMMA EndStep ==
  ASSUME SharesInv, NEW s \in Sockets, Disconnect(s) \/ CloseDone(s)
  PROVE  SharesInv'
<1>1. CASE Disconnect(s)
  <2>1. topic' \in [Symbols -> SUBSET Sockets]
    BY <1>1 DEF Disconnect, SharesInv, StreamsTypeOK
  <2>2. QED
    BY <1>1, <2>1, TurnStep DEF Disconnect, flushVars
<1>2. CASE CloseDone(s)
  <2>1. topic' \in [Symbols -> SUBSET Sockets]
    BY <1>2 DEF CloseDone, SharesInv, StreamsTypeOK
  <2>2. QED
    BY <1>2, <2>1, TurnStep DEF CloseDone, flushVars
<1>3. QED
  BY <1>1, <1>2

\* One feed of the handler's symbol is given up, and with the second its batch.
LEMMA UnsubscribeStep ==
  ASSUME StreamsInv, NEW s \in Sockets, UnsubscribeFeed(s)
  PROVE  SharesInv'
<1> DEFINE y == sock[s].on
           g == sock[s].feed
<1>1. /\ y \in Symbols /\ g \in Feeds /\ sock[s] \in Handler /\ sock[s].at = "unsubscribing"
      /\ sock[s].closing \in {"no", "yes"}
  BY DEF UnsubscribeFeed, StreamsInv, SharesInv, StreamsTypeOK, HandlersAgree, Handler
<1>2. /\ \A r \in Sockets \ {s} : sock'[r] = sock[r]
      /\ live' = live \ {<<y, g>>}
      /\ UNCHANGED <<asked, holds, refs, topic, broken>>
  BY DEF UnsubscribeFeed, StreamsInv, SharesInv, StreamsTypeOK
<1>3. /\ sock'[s] \in Handler /\ sock'[s].at # "subscribing"
      /\ sock'[s].at = "unsubscribing" => sock'[s].on = y
      /\ g = "first" =>
           sock'[s].at = "unsubscribing" /\ sock'[s].on = y /\ sock'[s].feed = "second"
  <2>1. CASE g = "first"
    <3>1. sock'[s] = [sock[s] EXCEPT !.feed = "second"]
      BY <2>1 DEF UnsubscribeFeed, StreamsInv, SharesInv, StreamsTypeOK
    <3>2. QED
      BY <1>1, <3>1, SecondFeed
  <2>2. CASE g # "first"
    <3>1. sock'[s] = HandlerOn(NoSymbol, IF sock[s].closing = "yes" THEN "closing" ELSE "open",
                               sock[s].closing)
      BY <2>2 DEF UnsubscribeFeed, StreamsInv, SharesInv, StreamsTypeOK
    <3>2. QED
      BY <1>1, <2>2, <3>1, HandlerTurns
  <2>3. QED
    BY <2>1, <2>2
<1>4. StreamsTypeOK'
  <2>1. sock' \in [Sockets -> Handler]
    BY <1>2, <1>3 DEF UnsubscribeFeed, StreamsInv, SharesInv, StreamsTypeOK
  <2>2. batch' \subseteq Symbols /\ entry' \subseteq Symbols
    BY DEF UnsubscribeFeed, DropBatch, flushVars, StreamsInv, SharesInv, StreamsTypeOK
  <2>3. sleeping' \in [Symbols -> Nat] /\ dying' \in [Symbols -> Nat]
    <3>1. y \in entry => sleeping[y] \in Nat /\ sleeping[y] > 0
      BY <1>1 DEF StreamsInv, SharesInv, StreamsTypeOK, TasksSleep
    <3>2. QED
      BY <1>1, <3>1 DEF UnsubscribeFeed, DropBatch, flushVars, StreamsInv, SharesInv, StreamsTypeOK
  <2>4. QED
    BY <1>2, <2>1, <2>2, <2>3 DEF StreamsInv, SharesInv, StreamsTypeOK
<1>5. HandlersAgree'
  BY <1>1, <1>2, <1>3 DEF StreamsInv, SharesInv, HandlersAgree
<1>6. \A r \in Sockets, z \in Symbols : Watches(r, z)' <=> Watches(r, z)
  BY <1>1, <1>2, <1>3 DEF Watches
<1>7. CountIsWatched'
  BY <1>2, <1>6 DEF StreamsInv, SharesInv, CountIsWatched, Watchers
<1>8. StreamedForSomebody'
  <2> SUFFICES ASSUME NEW z \in Stocks \ broken, NEW f \in Feeds, <<z, f>> \in live, <<z, f>> # <<y, g>>
               PROVE  \E r \in Sockets : Watches(r, z)' \/ GivesUp(r, z, f)'
    BY <1>2 DEF StreamedForSomebody
  <2>1. PICK r \in Sockets : Watches(r, z) \/ GivesUp(r, z, f)
    BY DEF StreamsInv, SharesInv, StreamedForSomebody
  <2>2. z \in Symbols
    BY DEF Symbols
  <2>3. CASE Watches(r, z)
    BY <1>6, <2>2, <2>3
  <2>4. CASE GivesUp(r, z, f) /\ r # s
    BY <1>2, <2>4 DEF GivesUp
  <2>5. CASE GivesUp(r, z, f) /\ r = s
    <3>1. z = y /\ g = "first" /\ f = "second"
      BY <1>1, <2>5 DEF GivesUp, Feeds
    <3>2. QED
      BY <1>3, <2>5, <3>1 DEF GivesUp
  <2>6. QED
    BY <2>1, <2>3, <2>4, <2>5
<1>9. QED
  BY <1>4, <1>5, <1>7, <1>8 DEF SharesInv

\* A call of the provider raises: whatever loses a watcher by that is broken.
LEMMA FailStep ==
  ASSUME SharesInv, NEW s \in Sockets, ProviderFails(s)
  PROVE  SharesInv'
<1>1. /\ sock[s].on \in Symbols /\ sock[s].at \in {"subscribing", "unsubscribing"}
      /\ \A r \in Sockets \ {s} : sock'[r] = sock[r]
      /\ broken \subseteq broken' /\ sock[s].on \in broken'
      /\ UNCHANGED <<asked, holds, refs, live, batch, entry, sleeping, dying>>
  BY DEF ProviderFails, SharesInv, StreamsTypeOK, HandlersAgree, flushVars
<1>2. sock'[s] \in Handler /\ sock'[s].at \in {"gone", "closing"}
  <2>1. sock'[s] = HandlerOn(NoSymbol, IF sock[s].closing = "yes" THEN "gone" ELSE "closing", "yes")
    BY DEF ProviderFails, SharesInv, StreamsTypeOK
  <2>2. QED
    BY <2>1, HandlerTurns
<1>3. StreamsTypeOK'
  <2>1. sock' \in [Sockets -> Handler]
    BY <1>1, <1>2 DEF ProviderFails, SharesInv, StreamsTypeOK
  <2>2. topic' \in [Symbols -> SUBSET Sockets]
    BY DEF ProviderFails, SharesInv, StreamsTypeOK
  <2>3. broken' \subseteq Symbols
    BY <1>1 DEF ProviderFails, SharesInv, StreamsTypeOK
  <2>4. QED
    BY <1>1, <2>1, <2>2, <2>3 DEF SharesInv, StreamsTypeOK
<1>4. HandlersAgree'
  BY <1>1, <1>2 DEF SharesInv, HandlersAgree
<1>5. \A r \in Sockets, z \in Symbols \ broken' : Watches(r, z)' <=> Watches(r, z)
  BY <1>1, <1>2 DEF Watches
<1>6. CountIsWatched'
  <2>1. \A z \in Symbols \ broken' : Watchers(z)' = Watchers(z)
    BY <1>5 DEF Watchers
  <2>2. QED
    BY <1>1, <2>1 DEF SharesInv, CountIsWatched
<1>7. \A r \in Sockets, z \in Symbols \ broken', f \in Feeds : GivesUp(r, z, f) => GivesUp(r, z, f)'
  BY <1>1 DEF GivesUp
<1>8. StreamedForSomebody'
  BY <1>1, <1>5, <1>7 DEF SharesInv, StreamedForSomebody, Symbols
<1>9. QED
  BY <1>3, <1>4, <1>6, <1>8 DEF SharesInv

\* Prints and their batches leave the shares alone.
LEMMA PrintStep ==
  ASSUME StreamsInv, NEW y \in Symbols, PrintArrives(y) \/ Flush(y) \/ FlushDies(y)
  PROVE  SharesInv'
<1>1. UNCHANGED <<sock, asked, holds, refs, live, topic, broken>>
  BY DEF PrintArrives, Flush, FlushDies
<1>2. StreamsTypeOK'
  BY <1>1 DEF PrintArrives, Flush, FlushDies, StreamsInv, SharesInv, StreamsTypeOK
<1>3. HandlersAgree' /\ CountIsWatched' /\ StreamedForSomebody'
  BY <1>1 DEF StreamsInv, SharesInv, HandlersAgree, CountIsWatched, StreamedForSomebody,
              Watchers, Watches, GivesUp
<1>4. QED
  BY <1>2, <1>3 DEF SharesInv

-----------------------------------------------------------------------------
(* The tasks.                                                              *)

LEMMA TasksStep ==
  ASSUME StreamsInv, [StreamsNext]_streamVars
  PROVE  TasksSleep'
<1> USE DEF StreamsInv, SharesInv, StreamsTypeOK, TasksSleep
<1>1. ASSUME UNCHANGED flushVars
      PROVE  TasksSleep'
  BY <1>1 DEF flushVars
<1>2. ASSUME NEW s \in Sockets, NEW y \in Symbols,
             Share(s, y) \/ TurnAway(s, y) \/ StartStream(s, y) \/ TakeBack(s, y) \/ CloseNext(s, y)
      PROVE  TasksSleep'
  BY <1>1, <1>2 DEF Share, TurnAway, StartStream, Ask, TakeBack, CloseNext
<1>3. ASSUME NEW s \in Sockets,
             SubscribeFeed(s) \/ Disconnect(s) \/ CloseDone(s) \/ ProviderFails(s)
      PROVE  TasksSleep'
  BY <1>1, <1>3 DEF SubscribeFeed, Disconnect, CloseDone, ProviderFails
<1>4. ASSUME NEW s \in Sockets, UnsubscribeFeed(s)
      PROVE  TasksSleep'
  BY <1>1, <1>4 DEF UnsubscribeFeed, DropBatch, flushVars
<1>5. ASSUME NEW y \in Symbols, PrintArrives(y)
      PROVE  TasksSleep'
  BY <1>5 DEF PrintArrives
<1>6. ASSUME NEW y \in Symbols, Flush(y)
      PROVE  TasksSleep'
  BY <1>6 DEF Flush
<1>7. ASSUME NEW y \in Symbols, FlushDies(y)
      PROVE  TasksSleep'
  BY <1>7 DEF FlushDies
<1>8. CASE UNCHANGED streamVars
  BY <1>1, <1>8 DEF streamVars, flushVars
<1>9. QED
  BY <1>2, <1>3, <1>4, <1>5, <1>6, <1>7, <1>8 DEF StreamsNext

-----------------------------------------------------------------------------

LEMMA InitStreamsInv == StreamsInit => StreamsInv
<1> SUFFICES ASSUME StreamsInit PROVE StreamsInv
  OBVIOUS
<1>1. StreamsTypeOK
  BY HandlerTurns DEF StreamsInit, StreamsTypeOK, Waiting
<1>2. \A s \in Sockets : sock[s].at = "open" /\ holds[s] = {}
  BY HandlerTurns DEF StreamsInit, Waiting
<1>3. HandlersAgree
  BY <1>2 DEF HandlersAgree
<1>4. CountIsWatched
  BY WatchersFinite, FS_CardinalityType DEF StreamsInit, CountIsWatched
<1>5. StreamedForSomebody /\ TasksSleep
  BY DEF StreamsInit, StreamedForSomebody, TasksSleep
<1>6. QED
  BY <1>1, <1>3, <1>4, <1>5 DEF StreamsInv, SharesInv

LEMMA StreamsStep ==
  ASSUME StreamsInv, [StreamsNext]_streamVars
  PROVE  StreamsInv'
<1>1. SharesInv
  BY DEF StreamsInv
<1>2. ASSUME NEW s \in Sockets, NEW y \in Symbols,
             Share(s, y) \/ TurnAway(s, y) \/ StartStream(s, y) \/ TakeBack(s, y) \/ CloseNext(s, y)
      PROVE  SharesInv'
  BY <1>1, <1>2, ShareStep, TurnAwayStep, StartStep, TakeBackStep, CloseNextStep
<1>3. ASSUME NEW s \in Sockets,
             \/ SubscribeFeed(s) \/ UnsubscribeFeed(s) \/ Disconnect(s) \/ CloseDone(s)
             \/ ProviderFails(s)
      PROVE  SharesInv'
  BY <1>1, <1>3, SubscribeStep, UnsubscribeStep, EndStep, FailStep
<1>4. ASSUME NEW y \in Symbols, PrintArrives(y) \/ Flush(y) \/ FlushDies(y)
      PROVE  SharesInv'
  BY <1>4, PrintStep
<1>5. ASSUME UNCHANGED streamVars
      PROVE  SharesInv'
  <2>1. UNCHANGED <<sock, asked, holds, refs, live, topic, broken, batch, entry, sleeping, dying>>
    BY <1>5 DEF streamVars
  <2>2. StreamsTypeOK'
    BY <1>1, <2>1 DEF SharesInv, StreamsTypeOK
  <2>3. HandlersAgree' /\ CountIsWatched' /\ StreamedForSomebody'
    BY <1>1, <2>1 DEF SharesInv, HandlersAgree, CountIsWatched, StreamedForSomebody,
                      Watchers, Watches, GivesUp
  <2>4. QED
    BY <2>2, <2>3 DEF SharesInv
<1>6. SharesInv'
  BY <1>2, <1>3, <1>4, <1>5 DEF StreamsNext
<1>7. QED
  BY <1>6, TasksStep DEF StreamsInv

LEMMA StreamsInvAlways == StreamsSpec => []StreamsInv
<1>1. StreamsInv /\ [StreamsNext]_streamVars => StreamsInv'
  BY StreamsStep
<1>2. QED
  BY InitStreamsInv, <1>1, PTL DEF StreamsSpec

\* Every variable of the live charts keeps its type; no flush task is
\* cancelled that is not there (unsubscribe, _flush_trades).
THEOREM StreamsTypeCorrect == StreamsSpec => []StreamsTypeOK
<1>1. StreamsInv => StreamsTypeOK
  BY DEF StreamsInv, SharesInv
<1>2. QED
  BY <1>1, StreamsInvAlways, PTL

\* For any tabs and caps, no stock is streamed that nobody watches and nobody
\* is about to give up (subscribe and unsubscribe, between their awaits).
THEOREM StocksAlwaysLetGo == StreamsSpec => []StreamsLetGo
<1>1. StreamsInv => StreamsLetGo
  BY DEF StreamsInv, SharesInv, StreamedForSomebody, StreamsLetGo, GivesUp
<1>2. QED
  BY <1>1, StreamsInvAlways, PTL

\* For any number of flush tasks, prints that wait have one that will send them,
\* whatever entries the cancelled ones clear (_flush_trades).
THEOREM BatchAlwaysFlushed == StreamsSpec => []BatchIsFlushed
<1>1. StreamsInv => BatchIsFlushed
  BY DEF StreamsInv, TasksSleep, BatchIsFlushed
<1>2. QED
  BY <1>1, StreamsInvAlways, PTL

-----------------------------------------------------------------------------
(***************************************************************************)
(* The scanner's day, for any symbols, tapes, days and troubles.  A loop   *)
(* that is up begins a tick in every phase, so the session it saw last is  *)
(* this phase's or the one before, whether it is in a tick or between two: *)
(* the bell finds it with the rows that this morning's ticks asked for,    *)
(* and a start after the bell with those of the morning's bars.            *)
(***************************************************************************)

\* The session of the phase before this one.
PhaseBefore == IF wall.phase = 1 THEN 5 ELSE wall.phase - 1
SessionBefore == CurrentSession([day |-> wall.day, phase |-> PhaseBefore])

\* Asked for by a tick of this morning's premarket.
OfThisMorning(row) == row.session = "premarket" /\ row.at.day = wall.day

\* Every row of the list is of this morning, or of a symbol not polled in it.
IsThisMorning(list) == \A r \in list : OfThisMorning(r.row) \/ r.symbol \in unanswered

LoopUp == tick \in {"polling", "asleep"}

PhasesAndTicks ==
  /\ wall \in Moment
  /\ tick \in {"down", "starting", "polling", "asleep"} /\ mayEnd \in BOOLEAN
  /\ rows \in [Universe -> PolledRow \cup {NoRow}] /\ unanswered \subseteq Universe

\* What the loop saw last.
SawThisPhaseOrTheLast ==
  /\ ~LoopUp => sessionNow = "closed"
  /\ LoopUp => sessionNow \in {CurrentSession(wall), SessionBefore}
  /\ LoopUp /\ mayEnd => sessionNow = CurrentSession(wall)

\* No tick of the premarket, no answer.
UnansweredUntilSeen ==
  /\ wall.phase = 1 => unanswered = Universe
  /\ LoopUp /\ wall.phase = 2 /\ sessionNow # "premarket" => unanswered = Universe

\* A process that starts has no rows.
StartsWithoutRows == ~LoopUp => rows = NoRows

\* The rows of the symbols the premarket's ticks have polled.
RowsAreThisMorning ==
  LoopUp /\ sessionNow = "premarket" =>
    \A s \in Universe \ unanswered : rows[s] # NoRow => OfThisMorning(rows[s])

\* A start before the bell has no list, one after it the morning's, until the
\* phase ends; it can end but once.
StartsWithThisMorning ==
  tick = "starting" /\ frozenList # NoList =>
    /\ wall.phase <= 2 => ~mayEnd
    /\ wall.phase >= 3 => IsThisMorning(frozenList)

ListIsThisMorning ==
  LoopUp /\ wall.phase \in {3, 4} /\ sessionNow \in {"regular", "afterhours"}
    /\ frozenList # NoList
    => IsThisMorning(frozenList)

ScannerInv ==
  /\ PhasesAndTicks /\ SawThisPhaseOrTheLast /\ UnansweredUntilSeen /\ StartsWithoutRows
  /\ RowsAreThisMorning /\ StartsWithThisMorning /\ ListIsThisMorning

-----------------------------------------------------------------------------

LEMMA SessionOfPhase ==
  ASSUME NEW m, m.phase \in Phases
  PROVE  /\ m.phase \in {1, 5} => CurrentSession(m) = "closed"
         /\ m.phase = 2 => CurrentSession(m) = "premarket"
         /\ m.phase = 3 => CurrentSession(m) = "regular"
         /\ m.phase = 4 => CurrentSession(m) = "afterhours"
BY DEF CurrentSession, Phases

\* The phase it is, of what the loop saw last.
LEMMA SessionNow ==
  ASSUME PhasesAndTicks
  PROVE  /\ wall.phase \in Phases
         /\ wall.phase \in {1, 5} => CurrentSession(wall) = "closed"
         /\ wall.phase = 2 => CurrentSession(wall) = "premarket"
         /\ wall.phase = 3 => CurrentSession(wall) = "regular"
         /\ wall.phase = 4 => CurrentSession(wall) = "afterhours"
         /\ wall.phase \in {1, 2} => SessionBefore = "closed"
         /\ wall.phase = 3 => SessionBefore = "premarket"
         /\ wall.phase = 4 => SessionBefore = "regular"
         /\ wall.phase = 5 => SessionBefore = "afterhours"
<1> DEFINE before == [day |-> wall.day, phase |-> PhaseBefore]
<1>1. wall.phase \in Phases /\ before.phase \in Phases /\ before.phase = PhaseBefore
  BY DEF PhasesAndTicks, Moment, Phases, PhaseBefore
<1>2. /\ wall.phase \in {1, 5} => CurrentSession(wall) = "closed"
      /\ wall.phase = 2 => CurrentSession(wall) = "premarket"
      /\ wall.phase = 3 => CurrentSession(wall) = "regular"
      /\ wall.phase = 4 => CurrentSession(wall) = "afterhours"
  BY <1>1, SessionOfPhase
<1>3. /\ before.phase \in {1, 5} => CurrentSession(before) = "closed"
      /\ before.phase = 2 => CurrentSession(before) = "premarket"
      /\ before.phase = 3 => CurrentSession(before) = "regular"
      /\ before.phase = 4 => CurrentSession(before) = "afterhours"
  BY <1>1, SessionOfPhase
<1>4. SessionBefore = CurrentSession(before)
  BY DEF SessionBefore
<1>5. QED
  BY <1>1, <1>2, <1>3, <1>4 DEF PhaseBefore, Phases

\* A list ranked off rows of this morning is of this morning.
LEMMA RankedOffThisMorning ==
  ASSUME NEW rs,
         \A s \in Universe : rs[s] # NoRow => OfThisMorning(rs[s]) \/ s \in unanswered
  PROVE  IsThisMorning(RankGainers(rs))
BY DEF IsThisMorning, RankGainers, Known

LEMMA InitScannerInv == ScannerInit => ScannerInv
<1> SUFFICES ASSUME ScannerInit
             PROVE  ScannerInv
  OBVIOUS
<1>1. /\ wall = [day |-> 1, phase |-> 1] /\ tick = "down" /\ mayEnd = TRUE
      /\ sessionNow = "closed" /\ rows = NoRows /\ unanswered = Universe
  BY DEF ScannerInit
<1>2. wall \in Moment
  BY <1>1, ScannerAssumption DEF Moment, Phases
<1>3. rows \in [Universe -> PolledRow \cup {NoRow}]
  BY <1>1 DEF NoRows
<1>4. PhasesAndTicks
  BY <1>1, <1>2, <1>3 DEF PhasesAndTicks
<1>5. QED
  BY <1>1, <1>4
     DEF ScannerInv, SawThisPhaseOrTheLast, UnansweredUntilSeen, StartsWithoutRows,
         RowsAreThisMorning, StartsWithThisMorning, ListIsThisMorning, LoopUp

LEMMA ScannerStartStep ==
  ASSUME ScannerInv, Start
  PROVE  ScannerInv'
<1>1. /\ tick' = "starting" /\ mayEnd' = TRUE /\ tick = "down"
      /\ UNCHANGED <<wall, sessionNow, rows, unanswered>>
  BY DEF Start
<1>2. PICK served : frozenList' = BackfillPremarket(served)
  BY DEF Start
<1>3. PhasesAndTicks'
  BY <1>1 DEF ScannerInv, PhasesAndTicks
<1>4. /\ SawThisPhaseOrTheLast' /\ UnansweredUntilSeen' /\ StartsWithoutRows'
      /\ RowsAreThisMorning' /\ ListIsThisMorning'
  BY <1>1 DEF ScannerInv, SawThisPhaseOrTheLast, UnansweredUntilSeen, StartsWithoutRows,
              RowsAreThisMorning, ListIsThisMorning, LoopUp, NoRows
<1>5. StartsWithThisMorning'
  <2> DEFINE bar == [at |-> [wall EXCEPT !.phase = 2], session |-> "premarket"]
             bars == [s \in Universe |-> IF s \in served THEN bar ELSE NoRow]
  <2>1. OfThisMorning(bar)
    BY DEF ScannerInv, PhasesAndTicks, Moment, OfThisMorning
  <2>2. IsThisMorning(RankGainers(bars))
    <3>1. \A s \in Universe : bars[s] # NoRow => OfThisMorning(bars[s])
      BY <2>1
    <3> HIDE DEF bars
    <3>2. QED
      BY <3>1, RankedOffThisMorning
  <2>3. CASE wall.phase < 3
    BY <1>1, <1>2, <2>3 DEF BackfillPremarket, StartsWithThisMorning, ScannerInv, PhasesAndTicks,
       Moment, Phases
  <2>4. CASE ~(wall.phase < 3)
    <3>1. frozenList' = RankGainers(bars)
      BY <1>2, <2>4 DEF BackfillPremarket
    <3>2. wall.phase >= 3 /\ ~(wall.phase <= 2)
      BY <2>4 DEF ScannerInv, PhasesAndTicks, Moment, Phases
    <3> HIDE DEF bars
    <3>3. QED
      BY <1>1, <2>2, <3>1, <3>2 DEF StartsWithThisMorning, IsThisMorning, OfThisMorning
  <2>5. QED
    BY <2>3, <2>4
<1>6. QED
  BY <1>3, <1>4, <1>5 DEF ScannerInv

\* The bell finds the rows that the morning's ticks asked for.
LEMMA WakeStep ==
  ASSUME ScannerInv, Wake
  PROVE  ScannerInv'
<1>1. /\ tick \in {"starting", "asleep"}
      /\ sessionNow' = CurrentSession(wall) /\ tick' = "polling" /\ mayEnd' = TRUE
      /\ UNCHANGED <<wall, rows, unanswered>>
  BY DEF Wake
<1>2. PhasesAndTicks'
  BY <1>1 DEF ScannerInv, PhasesAndTicks
<1>3. SawThisPhaseOrTheLast' /\ StartsWithoutRows'
  BY <1>1 DEF SawThisPhaseOrTheLast, StartsWithoutRows, CurrentSession, LoopUp
<1>4. UnansweredUntilSeen'
  <2>1. wall.phase = 2 => sessionNow' = "premarket"
    BY <1>1, SessionNow DEF ScannerInv
  <2>2. QED
    BY <1>1, <2>1 DEF ScannerInv, UnansweredUntilSeen
<1>5. RowsAreThisMorning'
  <2> SUFFICES ASSUME sessionNow' = "premarket", NEW s \in Universe \ unanswered,
                      rows[s] # NoRow
               PROVE  OfThisMorning(rows[s])
    BY <1>1 DEF RowsAreThisMorning, OfThisMorning
  <2>1. wall.phase = 2
    BY <1>1, SessionNow DEF ScannerInv, Phases
  <2>2. LoopUp
    BY <1>1 DEF ScannerInv, StartsWithoutRows, LoopUp, NoRows
  <2>3. sessionNow = "premarket"
    BY <2>1, <2>2 DEF ScannerInv, UnansweredUntilSeen
  <2>4. QED
    BY <2>2, <2>3 DEF ScannerInv, RowsAreThisMorning
<1>6. StartsWithThisMorning'
  BY <1>1 DEF StartsWithThisMorning
<1>7. ListIsThisMorning'
  <2> SUFFICES ASSUME wall.phase \in {3, 4}, frozenList' # NoList
               PROVE  IsThisMorning(frozenList')
    BY <1>1 DEF ListIsThisMorning, IsThisMorning, OfThisMorning
  <2>1. CurrentSession(wall) \in {"regular", "afterhours"}
    BY SessionNow DEF ScannerInv
  <2>2. CASE sessionNow = "premarket"
    <3>1. LoopUp
      BY <2>2 DEF ScannerInv, SawThisPhaseOrTheLast
    <3>2. \A s \in Universe : rows[s] # NoRow => OfThisMorning(rows[s]) \/ s \in unanswered
      BY <2>2, <3>1 DEF ScannerInv, RowsAreThisMorning
    <3>3. frozenList' = RankGainers(rows)
      BY <2>1, <2>2 DEF Wake, Frozen
    <3>4. QED
      BY <3>2, <3>3, RankedOffThisMorning
  <2>3. CASE sessionNow # "premarket"
    <3>1. frozenList' = frozenList
      BY <2>3 DEF Wake, Frozen
    <3>2. CASE tick = "starting"
      <4>1. wall.phase >= 3
        OBVIOUS
      <4>2. QED
        BY <3>1, <3>2, <4>1 DEF ScannerInv, StartsWithThisMorning
    <3>3. CASE tick = "asleep"
      <4>1. sessionNow \in {"regular", "afterhours"}
        BY <2>3, <3>3, SessionNow DEF ScannerInv, SawThisPhaseOrTheLast, LoopUp
      <4>2. QED
        BY <3>1, <3>3, <4>1 DEF ScannerInv, ListIsThisMorning, LoopUp
    <3>4. QED
      BY <1>1, <3>2, <3>3
  <2>4. QED
    BY <2>2, <2>3
<1>8. QED
  BY <1>2, <1>3, <1>4, <1>5, <1>6, <1>7 DEF ScannerInv

\* An answer is of the session that asked; a batch that fails leaves its symbols
\* as they were.
LEMMA PollStep ==
  ASSUME ScannerInv, NEW s \in Universe, PollBatch(s)
  PROVE  ScannerInv'
<1>1. tick = "polling" /\ UNCHANGED <<wall, tick, mayEnd, sessionNow, frozenList>>
  BY DEF PollBatch
<1>2. \/ /\ rows' = [rows EXCEPT ![s] = [at |-> wall, session |-> sessionNow]]
         /\ unanswered' = IF sessionNow = "premarket" THEN unanswered \ {s} ELSE unanswered
      \/ rows' = rows /\ unanswered' = unanswered
  BY DEF PollBatch
<1>3. sessionNow \in Sessions
  BY <1>1, SessionNow DEF ScannerInv, SawThisPhaseOrTheLast, LoopUp, Phases, Sessions
<1>4. PhasesAndTicks'
  <2>1. [at |-> wall, session |-> sessionNow] \in PolledRow
    BY <1>3 DEF ScannerInv, PhasesAndTicks, PolledRow
  <2>2. QED
    BY <1>1, <1>2, <2>1 DEF ScannerInv, PhasesAndTicks
<1>5. SawThisPhaseOrTheLast' /\ StartsWithoutRows' /\ StartsWithThisMorning'
  BY <1>1 DEF ScannerInv, SawThisPhaseOrTheLast, StartsWithoutRows, StartsWithThisMorning, LoopUp,
              CurrentSession, SessionBefore, PhaseBefore
<1>6. UnansweredUntilSeen'
  <2>1. wall.phase = 1 => sessionNow # "premarket"
    BY <1>1, SessionNow DEF ScannerInv, SawThisPhaseOrTheLast, LoopUp
  <2>2. QED
    BY <1>1, <1>2, <2>1 DEF ScannerInv, UnansweredUntilSeen, LoopUp
<1>7. RowsAreThisMorning'
  <2> SUFFICES ASSUME sessionNow = "premarket", NEW r \in Universe \ unanswered',
                      rows'[r] # NoRow
               PROVE  OfThisMorning(rows'[r])
    BY <1>1 DEF RowsAreThisMorning, LoopUp, OfThisMorning
  <2>1. \A q \in Universe \ unanswered : rows[q] # NoRow => OfThisMorning(rows[q])
    BY <1>1 DEF ScannerInv, RowsAreThisMorning, LoopUp
  <2>2. CASE r # s
    BY <1>2, <2>1, <2>2 DEF ScannerInv, PhasesAndTicks
  <2>3. CASE rows' = rows /\ unanswered' = unanswered
    BY <2>1, <2>3
  <2>4. CASE r = s /\ rows' = [rows EXCEPT ![s] = [at |-> wall, session |-> sessionNow]]
    <3>1. rows'[r] = [at |-> wall, session |-> sessionNow]
      BY <2>4 DEF ScannerInv, PhasesAndTicks
    <3>2. QED
      BY <3>1 DEF OfThisMorning
  <2>5. QED
    BY <1>2, <2>2, <2>3, <2>4
<1>8. ListIsThisMorning'
  BY <1>1, <1>2 DEF ScannerInv, ListIsThisMorning, IsThisMorning, OfThisMorning, LoopUp
<1>9. QED
  BY <1>4, <1>5, <1>6, <1>7, <1>8 DEF ScannerInv

\* A phase ends on a loop whose tick began in it, or on a process that is down or
\* starting, whose session is closed.
LEMMA PhaseStep ==
  ASSUME ScannerInv, PhaseEnds
  PROVE  ScannerInv'
<1>1. /\ mayEnd /\ mayEnd' = (tick = "down")
      /\ UNCHANGED <<tick, sessionNow, rows, frozenList>>
  BY DEF PhaseEnds, engineVars
<1>2. LoopUp' = LoopUp /\ StartsWithoutRows' /\ (LoopUp => ~mayEnd')
  BY <1>1 DEF ScannerInv, StartsWithoutRows, LoopUp, NoRows
<1>3. IF LoopUp THEN sessionNow = CurrentSession(wall) ELSE sessionNow = "closed"
  BY <1>1 DEF ScannerInv, SawThisPhaseOrTheLast
<1>4. CASE wall.phase < 5
  <2>1. /\ wall' = [day |-> wall.day, phase |-> wall.phase + 1] /\ unanswered' = unanswered
        /\ wall.phase \in Phases /\ wall.day \in 0..LastDay
    <3>1. wall' = [wall EXCEPT !.phase = wall.phase + 1] /\ unanswered' = unanswered
      BY <1>4 DEF PhaseEnds
    <3>2. QED
      BY <3>1 DEF ScannerInv, PhasesAndTicks, Moment
  <2>2. wall' \in Moment /\ wall'.phase = wall.phase + 1 /\ wall'.day = wall.day
    BY <1>4, <2>1 DEF Moment, Phases
  <2>3. PhasesAndTicks'
    BY <1>1, <2>1, <2>2 DEF ScannerInv, PhasesAndTicks
  <2>4. [day |-> wall'.day, phase |-> PhaseBefore'] = wall
    <3>1. PhaseBefore' = wall.phase
      BY <2>1, <2>2 DEF PhaseBefore, Phases
    <3>2. QED
      BY <2>2, <3>1 DEF ScannerInv, PhasesAndTicks, Moment
  <2>5. SawThisPhaseOrTheLast'
    <3>1. LoopUp => sessionNow = SessionBefore'
      BY <1>3, <2>4 DEF SessionBefore, CurrentSession
    <3>2. QED
      BY <1>1, <1>2, <1>3, <3>1 DEF SawThisPhaseOrTheLast
  <2>6. UnansweredUntilSeen' /\ RowsAreThisMorning'
    BY <1>1, <1>2, <2>1, <2>2
       DEF ScannerInv, UnansweredUntilSeen, RowsAreThisMorning, OfThisMorning, Phases
  <2>7. StartsWithThisMorning'
    <3> SUFFICES ASSUME tick = "starting", frozenList # NoList
                 PROVE  wall'.phase >= 3 => IsThisMorning(frozenList)'
      BY <1>1 DEF StartsWithThisMorning
    <3>1. wall.phase >= 3 /\ IsThisMorning(frozenList)
      BY <1>1, <2>1 DEF ScannerInv, StartsWithThisMorning, Phases
    <3>2. QED
      BY <1>1, <2>1, <2>2, <3>1 DEF IsThisMorning, OfThisMorning
  <2>8. ListIsThisMorning'
    <3> SUFFICES ASSUME LoopUp, wall'.phase \in {3, 4},
                        sessionNow \in {"regular", "afterhours"}, frozenList # NoList
                 PROVE  IsThisMorning(frozenList)'
      BY <1>1, <1>2 DEF ListIsThisMorning
    <3>1. wall.phase = 3
      BY <1>3, <2>1, <2>2, SessionNow DEF ScannerInv, Phases
    <3>2. IsThisMorning(frozenList)
      BY <3>1 DEF ScannerInv, ListIsThisMorning
    <3>3. QED
      BY <1>1, <2>1, <2>2, <3>2 DEF IsThisMorning, OfThisMorning
  <2>9. QED
    BY <1>2, <2>3, <2>5, <2>6, <2>7, <2>8 DEF ScannerInv
<1>5. CASE ~(wall.phase < 5)
  <2>1. /\ wall.day < LastDay /\ wall' = [day |-> wall.day + 1, phase |-> 1]
        /\ unanswered' = Universe
    BY <1>5 DEF PhaseEnds
  <2>2. wall.phase = 5 /\ wall.day \in 0..LastDay
    BY <1>5 DEF ScannerInv, PhasesAndTicks, Moment, Phases
  <2>3. wall' \in Moment /\ wall'.phase = 1
    BY <2>1, <2>2, ScannerAssumption DEF Moment, Phases
  <2>4. PhasesAndTicks' /\ UnansweredUntilSeen'
    BY <1>1, <2>1, <2>3 DEF ScannerInv, PhasesAndTicks, UnansweredUntilSeen
  <2>5. sessionNow = "closed"
    BY <1>3, <2>2, SessionNow DEF ScannerInv
  <2>6. CurrentSession([day |-> wall'.day, phase |-> PhaseBefore']) = "closed"
    <3>1. PhaseBefore' = 5
      BY <2>3 DEF PhaseBefore
    <3>2. QED
      BY <3>1, SessionOfPhase DEF Phases
  <2>7. SawThisPhaseOrTheLast'
    <3>1. SessionBefore' = "closed"
      BY <2>6 DEF SessionBefore, CurrentSession
    <3>2. QED
      BY <1>1, <1>2, <2>5, <3>1 DEF SawThisPhaseOrTheLast
  <2>8. RowsAreThisMorning' /\ ListIsThisMorning'
    BY <1>1, <2>5 DEF RowsAreThisMorning, ListIsThisMorning
  <2>9. StartsWithThisMorning'
    <3>1. tick' = "starting" => ~mayEnd'
      BY <1>1
    <3>2. ~(wall'.phase >= 3)
      BY <2>3
    <3>3. QED
      BY <3>1, <3>2 DEF StartsWithThisMorning
  <2>10. QED
    BY <1>2, <2>4, <2>7, <2>8, <2>9 DEF ScannerInv
<1>6. QED
  BY <1>4, <1>5

\* A restart forgets the rows and the list.
LEMMA EngineDiesStep ==
  ASSUME ScannerInv, EngineDies
  PROVE  ScannerInv'
<1>1. /\ tick' = "down" /\ mayEnd' = TRUE /\ sessionNow' = "closed" /\ rows' = NoRows
      /\ UNCHANGED <<wall, unanswered>>
  BY DEF EngineDies
<1>2. rows' \in [Universe -> PolledRow \cup {NoRow}]
  BY <1>1 DEF NoRows
<1>3. PhasesAndTicks'
  BY <1>1, <1>2 DEF ScannerInv, PhasesAndTicks
<1>4. StartsWithoutRows'
  BY <1>1 DEF StartsWithoutRows, NoRows
<1>5. /\ SawThisPhaseOrTheLast' /\ UnansweredUntilSeen' /\ RowsAreThisMorning'
      /\ StartsWithThisMorning' /\ ListIsThisMorning'
  BY <1>1 DEF ScannerInv, SawThisPhaseOrTheLast, UnansweredUntilSeen, RowsAreThisMorning,
              StartsWithThisMorning, ListIsThisMorning, LoopUp
<1>6. QED
  BY <1>3, <1>4, <1>5 DEF ScannerInv

\* The end of a tick, the pause, and no step: nothing the invariant speaks of.
LEMMA QuietStep ==
  ASSUME ScannerInv,
         RecordNewAppearances \/ SetScannerPause \/ KeepPause \/ UNCHANGED scannerVars
  PROVE  ScannerInv'
<1>1. /\ UNCHANGED <<wall, mayEnd, sessionNow, rows, frozenList, unanswered>>
      /\ tick' = tick \/ (tick = "polling" /\ tick' = "asleep")
  BY DEF RecordNewAppearances, SetScannerPause, KeepPause, scannerVars, engineVars
<1>2. LoopUp' = LoopUp /\ (tick' = "starting" => tick = "starting")
  BY <1>1 DEF LoopUp
<1>3. PhasesAndTicks'
  BY <1>1 DEF ScannerInv, PhasesAndTicks
<1>4. SawThisPhaseOrTheLast' /\ UnansweredUntilSeen' /\ StartsWithoutRows'
  BY <1>1, <1>2 DEF ScannerInv, SawThisPhaseOrTheLast, UnansweredUntilSeen, StartsWithoutRows,
              CurrentSession, SessionBefore, PhaseBefore, NoRows
<1>5. RowsAreThisMorning' /\ StartsWithThisMorning' /\ ListIsThisMorning'
  BY <1>1, <1>2 DEF ScannerInv, RowsAreThisMorning, StartsWithThisMorning, ListIsThisMorning,
              IsThisMorning, OfThisMorning
<1>6. QED
  BY <1>3, <1>4, <1>5 DEF ScannerInv

LEMMA ScannerStep == ScannerInv /\ [ScannerNext]_scannerVars => ScannerInv'
<1> SUFFICES ASSUME ScannerInv, [ScannerNext]_scannerVars
             PROVE  ScannerInv'
  OBVIOUS
<1>1. CASE Start
  BY <1>1, ScannerStartStep
<1>2. CASE Wake
  BY <1>2, WakeStep
<1>3. ASSUME NEW s \in Universe, PollBatch(s)
      PROVE  ScannerInv'
  BY <1>3, PollStep
<1>4. CASE PhaseEnds
  BY <1>4, PhaseStep
<1>5. CASE EngineDies
  BY <1>5, EngineDiesStep
<1>6. CASE RecordNewAppearances \/ SetScannerPause \/ KeepPause \/ UNCHANGED scannerVars
  BY <1>6, QuietStep
<1>7. QED
  BY <1>1, <1>2, <1>3, <1>4, <1>5, <1>6 DEF ScannerNext

\* What the view shows of the premarket, once there is a list, is the list.
LEMMA InvImpliesFrozen == ScannerInv => FrozenIsThisMorning
<1> SUFFICES ASSUME ScannerInv, sessionNow \in {"regular", "afterhours"},
                    wall.phase \in {3, 4}, frozenList # NoList
             PROVE  IsThisMorning(BuildViews.premarket_gainers)
  BY DEF FrozenIsThisMorning, IsThisMorning, OfThisMorning
<1>1. LoopUp
  BY DEF ScannerInv, SawThisPhaseOrTheLast
<1>2. BuildViews.premarket_gainers = frozenList
  BY DEF BuildViews
<1>3. QED
  BY <1>1, <1>2 DEF ScannerInv, ListIsThisMorning

\* Once the bell has rung, the premarket list shown is what the ticks of this
\* morning's premarket asked for, or the morning's bars: a symbol's row is older
\* only when none of those ticks polled it (run_loop, _poll_once and
\* backfill_premarket_snapshot).  Whatever batches fail, whenever the loop is
\* paused, whichever tick the bell falls into, whatever day and phase the process
\* was started in, and however often.
THEOREM FrozenAlwaysThisMorning == ScannerSpec => []FrozenIsThisMorning
<1>1. ScannerSpec => []ScannerInv
  BY InitScannerInv, ScannerStep, PTL DEF ScannerSpec
<1>2. QED
  BY <1>1, InvImpliesFrozen, PTL

-----------------------------------------------------------------------------
(***************************************************************************)
(* The replay clock, for any number of clients, replays, seeks, requests   *)
(* and restarts: the tasks keep their types, what the pacing loop and the  *)
(* live loop have under way when a session changes hands is the last they  *)
(* do to it, and a stopped replay stays stopped.                           *)
(***************************************************************************)

Assumptions ==
  /\ \A r \in Replays : r.first \in Int /\ r.last \in Int
  /\ Seeks \subseteq Int
  /\ NoSession \notin Session
  /\ NoEngine \notin Replays \cup {NoBars} /\ NoBars \notin Replays
  /\ LastMoment \in Int

LEMMA AssumptionsHold == Assumptions
  BY ReplaysAssumption, SeeksAssumption, LastMomentAssumption, NoneAssumption DEF Assumptions, Session

\* A row that is moved, or whose playing is set, is still a row.
LEMMA RowTypes ==
  ASSUME TypeOK, session # NoSession
  PROVE  /\ \A m \in Int, p \in BOOLEAN :
              /\ [session EXCEPT !.asOf = m, !.playing = p] \in Session
              /\ [session EXCEPT !.asOf = m, !.playing = p].playing = p
         /\ \A p \in BOOLEAN :
              /\ [session EXCEPT !.playing = p] \in Session
              /\ [session EXCEPT !.playing = p].playing = p
<1>1. session \in Session
  BY DEF TypeOK
<1> QED BY <1>1 DEF Session

\* MoveTo keeps the row's type, gone or not.
LEMMA MoveTypes ==
  ASSUME Assumptions, TypeOK, NEW m \in Int, NEW p \in BOOLEAN, MoveTo(m, p)
  PROVE  session' \in Session \cup {NoSession}
<1>1. CASE session = NoSession
  BY <1>1 DEF MoveTo
<1>2. CASE session # NoSession
  BY <1>2, RowTypes DEF MoveTo
<1> QED BY <1>1, <1>2

\* What the tick knows at each point it can have reached.
LEMMA TickShapes ==
  ASSUME TypeOK
  PROVE  /\ loop.at \in {"due", "load"} => loop.replay \in Replays /\ loop.asOf \in Int
         /\ loop.at = "advance" => loop.asOf \in Int
         /\ loop.at = "fill" => loop.asOf \in Int
BY DEF TypeOK, Tick

\* What a request knows at the points that write.
LEMMA RequestShapes ==
  ASSUME TypeOK, NEW c \in Clients
  PROVE  /\ request[c].at \in {"step", "fill", "start"} => request[c].asOf \in Int
         /\ request[c].at = "start" => request[c].replay \in Replays
         /\ request[c].at = "order" => request[c].price \in Int \cup {LivePrice}
<1>1. request[c] \in Request
  BY DEF TypeOK
<1> QED BY <1>1 DEF Request

\* The session of a clock that plays is a row, with a moment.
LEMMA SessionShape ==
  ASSUME TypeOK, session # NoSession
  PROVE  session \in Session /\ session.asOf \in Int /\ session.replay \in Replays /\ session.playing \in BOOLEAN
BY DEF TypeOK, Session

\* Where a request goes is what it may be.
LEMMA GoesTypes ==
  ASSUME TypeOK, NEW c \in Clients, NEW where \in Request, Goes(c, where)
  PROVE  request' \in [Clients -> Request]
BY DEF Goes, TypeOK

\* An engine at hand, with bars or without, lets the tick go on.
LEMMA AdvanceTypes ==
  ASSUME Assumptions, NEW bars \in Replays \cup {NoBars}, loop.asOf \in Int
  PROVE  Advance(bars) \in Tick
<1>1. EndOf(bars) \in Int \cup {NoBars}
  BY DEF EndOf, Assumptions
<1> QED BY <1>1 DEF Advance, Tick

\* Every step of the pacing loop keeps the types.
LEMMA TickTypes ==
  ASSUME Assumptions, TypeOK, TickStep
  PROVE  TypeOK'
<1>0. Idle \in Tick
  BY DEF Idle, Tick
<1>1. CASE TickReads
  <2>1. session # NoSession
    BY <1>1 DEF TickReads, PlayingRow, Playing
  <2>2. session.replay \in Replays /\ session.asOf \in Int
    BY <2>1, SessionShape
  <2>3. loop' \in Tick
    BY <1>1, <2>2 DEF TickReads, Tick
  <2> QED BY <1>1, <2>3 DEF TickReads, TypeOK, history, bounds
<1>2. CASE TickFindsEngine
  <2>1. loop.at = "due" /\ loop.replay \in Replays /\ loop.asOf \in Int
    BY <1>2, TickShapes DEF TickFindsEngine
  <2>2. loop \in [at : {"due", "load"}, replay : Replays, asOf : Int]
    BY <2>1 DEF TypeOK, Tick
  <2>3. CASE engine = NoEngine
    <3>1. loop' = [loop EXCEPT !.at = "load"]
      BY <1>2, <2>3 DEF TickFindsEngine
    <3>2. loop' \in Tick
      BY <3>1, <2>2 DEF Tick
    <3> QED BY <1>2, <3>2 DEF TickFindsEngine, TypeOK, history, bounds
  <2>4. CASE engine # NoEngine
    <3>1. engine \in Replays \cup {NoBars}
      BY <2>4 DEF TypeOK
    <3>2. loop' \in Tick
      BY <1>2, <2>1, <2>4, <3>1, AdvanceTypes DEF TickFindsEngine
    <3> QED BY <1>2, <3>2 DEF TickFindsEngine, TypeOK, history, bounds
  <2> QED BY <2>3, <2>4
<1>3. CASE TickLoads
  <2>1. loop.asOf \in Int
    BY <1>3, TickShapes DEF TickLoads
  <2>2. PICK bars \in Replays \cup {NoBars} : engine' = bars /\ loop' = Advance(bars)
    BY <1>3 DEF TickLoads
  <2>3. loop' \in Tick
    BY <2>1, <2>2, AdvanceTypes
  <2> QED BY <1>3, <2>2, <2>3 DEF TickLoads, TypeOK, history, bounds
<1>4. CASE TickLoadFails
  BY <1>0, <1>4 DEF TickLoadFails, TypeOK, history, bounds
<1>5. CASE TickWrites
  <2>1. NextMoment \in Int
    BY <1>5, TickShapes DEF TickWrites, NextMoment, Assumptions
  <2>2. CASE TickEnds
    <3>1. session' \in Session \cup {NoSession}
      <4>1. CASE session = NoSession
        BY <2>2, <4>1 DEF TickEnds
      <4>2. CASE session # NoSession
        BY <2>2, <4>2, <2>1, RowTypes DEF TickEnds
      <4> QED BY <4>1, <4>2
    <3> QED BY <1>0, <1>5, <2>2, <3>1 DEF TickWrites, TickEnds, TypeOK, bounds
  <2>3. CASE TickMoves
    <3>1. Playing \in BOOLEAN
      BY SessionShape DEF Playing
    <3>2. session' \in Session \cup {NoSession}
      BY <2>1, <2>3, <3>1, MoveTypes DEF TickMoves
    <3>3. loop' \in Tick
      BY <2>1, <2>3 DEF TickMoves, Tick
    <3>4. drift' \in Nat
      BY <2>3 DEF TickMoves, TypeOK
    <3> QED BY <1>5, <3>2, <3>3, <3>4 DEF TickWrites, TypeOK, bounds
  <2> QED BY <1>5, <2>2, <2>3 DEF TickWrites
<1>6. CASE TickFills
  <2>1. loop.asOf \in Int
    BY <1>6, TickShapes DEF TickFills
  <2> QED BY <1>0, <1>6, <2>1 DEF TickFills, TypeOK, history, bounds
<1> QED BY <1>1, <1>2, <1>3, <1>4, <1>5, <1>6 DEF TickStep

\* Every step of a request keeps the types.
LEMMA RequestTypes ==
  ASSUME Assumptions, TypeOK, NEW c \in Clients, RequestStep(c)
  PROVE  TypeOK'
<1>0. Idle \in Request
  BY DEF Idle, Request
<1>1. CASE Play(c)
  <2>1. session' \in Session
    BY <1>1, RowTypes DEF Play
  <2> QED BY <1>1, <2>1 DEF Play, Arrives, TypeOK, tasks
<1>2. CASE Pause(c)
  <2>1. session' \in Session
    BY <1>2, RowTypes DEF Pause
  <2> QED BY <1>2, <2>1 DEF Pause, Arrives, TypeOK, tasks, history
<1>3. CASE Seek(c)
  <2>1. PICK m \in Seeks : MoveTo(m, session.playing) /\ Goes(c, [at |-> "fill", asOf |-> m])
    BY <1>3 DEF Seek
  <2>2. m \in Int /\ session.playing \in BOOLEAN
    BY <1>3, SessionShape DEF Seek, Assumptions
  <2>3. [at |-> "fill", asOf |-> m] \in Request
    BY <2>2 DEF Request
  <2>4. session' \in Session \cup {NoSession} /\ request' \in [Clients -> Request]
    BY <2>1, <2>2, <2>3, MoveTypes, GoesTypes
  <2> QED BY <1>3, <2>4 DEF Seek, Arrives, TypeOK, history
<1>4. CASE StepReads(c)
  <2>1. PICK bar \in {-1, 1} : Goes(c, [at |-> "step", asOf |-> SteppedAsOf(session.asOf + bar)])
    BY <1>4 DEF StepReads
  <2>2. session.asOf + bar \in Int
    BY <1>4, SessionShape DEF StepReads
  <2>3. engine \in Replays => engine.first \in Int /\ engine.last \in Int
    BY DEF Assumptions
  <2>4. SteppedAsOf(session.asOf + bar) \in Int
    BY <2>2, <2>3 DEF SteppedAsOf
  <2>5. [at |-> "step", asOf |-> SteppedAsOf(session.asOf + bar)] \in Request
    BY <2>4 DEF Request
  <2>6. request' \in [Clients -> Request]
    BY <2>1, <2>5, GoesTypes
  <2> QED BY <1>4, <2>6 DEF StepReads, Arrives, TypeOK, history
<1>5. CASE StepWrites(c)
  <2>1. request[c].asOf \in Int
    BY <1>5, RequestShapes DEF StepWrites
  <2>2. session' \in Session \cup {NoSession}
    BY <1>5, <2>1, MoveTypes DEF StepWrites
  <2>3. [at |-> "fill", asOf |-> request[c].asOf] \in Request
    BY <2>1 DEF Request
  <2>4. request' \in [Clients -> Request]
    BY <1>0, <1>5, <2>3, GoesTypes DEF StepWrites
  <2> QED BY <1>5, <2>2, <2>4 DEF StepWrites, TypeOK, history, bounds
<1>6. CASE MoveFills(c)
  <2>1. request[c].asOf \in Int
    BY <1>6, RequestShapes DEF MoveFills
  <2>2. request' \in [Clients -> Request]
    BY <1>0, <1>6, GoesTypes DEF MoveFills
  <2> QED BY <1>6, <2>1, <2>2 DEF MoveFills, TypeOK, history, bounds
<1>7. CASE StartLoads(c)
  <2>0. PICK r \in Replays :
          \E m \in r.first..r.last :
            engine' = r /\ Goes(c, [at |-> "start", replay |-> r, asOf |-> m])
    BY <1>7 DEF StartLoads
  <2>1. PICK m \in r.first..r.last :
          engine' = r /\ Goes(c, [at |-> "start", replay |-> r, asOf |-> m])
    BY <2>0
  <2>2. m \in Int
    BY DEF Assumptions
  <2>3. [at |-> "start", replay |-> r, asOf |-> m] \in Request
    BY <2>2 DEF Request
  <2>4. request' \in [Clients -> Request]
    BY <2>1, <2>3, GoesTypes
  <2> QED BY <1>7, <2>1, <2>4 DEF StartLoads, Arrives, TypeOK, history
<1>8. CASE StartWrites(c)
  <2>1. request[c].replay \in Replays /\ request[c].asOf \in Int
    BY <1>8, RequestShapes DEF StartWrites
  <2>2. session' \in Session
    BY <1>8, <2>1 DEF StartWrites, Session
  <2>3. request' \in [Clients -> Request]
    BY <1>0, <1>8, GoesTypes DEF StartWrites
  <2> QED BY <1>8, <2>2, <2>3 DEF StartWrites, TypeOK, bounds
<1>9. CASE StopDeletes(c)
  <2>1. [at |-> "stop"] \in Request
    BY DEF Request
  <2>2. request' \in [Clients -> Request]
    BY <1>9, <2>1, GoesTypes DEF StopDeletes
  <2> QED BY <1>9, <2>2 DEF StopDeletes, Arrives, TypeOK
<1>10. CASE StopDiscards(c)
  <2>1. request' \in [Clients -> Request]
    BY <1>0, <1>10, GoesTypes DEF StopDiscards
  <2> QED BY <1>10, <2>1 DEF StopDiscards, TypeOK, history, bounds
<1>11. CASE OrderPriced(c)
  <2> DEFINE price == IF session # NoSession /\ engine # NoEngine THEN session.asOf ELSE LivePrice
  <2>1. price \in Int \cup {LivePrice}
    BY SessionShape
  <2>2. [at |-> "order", price |-> price] \in Request
    BY <2>1 DEF Request
  <2>3. Goes(c, [at |-> "order", price |-> price])
    BY <1>11 DEF OrderPriced
  <2>4. request' \in [Clients -> Request]
    BY <2>2, <2>3, GoesTypes
  <2> QED BY <1>11, <2>4 DEF OrderPriced, Arrives, TypeOK, history
<1>12. CASE OrderBooked(c)
  <2>1. request[c].price \in Int \cup {LivePrice}
    BY <1>12, RequestShapes DEF OrderBooked
  <2>2. request' \in [Clients -> Request]
    BY <1>0, <1>12, GoesTypes DEF OrderBooked
  <2> QED BY <1>12, <2>1, <2>2 DEF OrderBooked, TypeOK, history, bounds
<1> QED BY <1>1, <1>2, <1>3, <1>4, <1>5, <1>6, <1>7, <1>8, <1>9, <1>10, <1>11, <1>12
        DEF RequestStep

\* The session row, the engine and every task keep their types, whatever
\* requests, ticks and restarts interleave.
THEOREM ClockTypeCorrect == Spec => []TypeOK
<1>0. Assumptions
  BY AssumptionsHold
<1>1. Init => TypeOK
  BY DEF Init, TypeOK, Idle, Tick, Request
<1>2. ASSUME TypeOK, [Next]_vars
      PROVE  TypeOK'
  <2>1. CASE TickStep
    BY <1>0, <1>2, <2>1, TickTypes
  <2>2. CASE LiveStep
    BY <1>2, <2>2 DEF LiveStep, LiveReads, LiveFills, TypeOK, history, bounds
  <2>3. CASE \E c \in Clients : RequestStep(c)
    BY <1>0, <1>2, <2>3, RequestTypes
  <2>4. CASE Restart
    <3>1. Idle \in Tick /\ Idle \in Request
      BY DEF Idle, Tick, Request
    <3> QED BY <1>2, <2>4, <3>1 DEF Restart, TypeOK, history
  <2>5. CASE UNCHANGED vars
    BY <1>2, <2>5 DEF vars, TypeOK
  <2> QED BY <1>2, <2>1, <2>2, <2>3, <2>4, <2>5 DEF Next
<1> QED BY <1>1, <1>2, PTL DEF Spec

-----------------------------------------------------------------------------

\* The tick under way is the only one that can still move a paused clock: one
\* that has not written yet was begun on a clock that played, so none has
\* drifted; and it writes once.
TickInv ==
  /\ drift \in Nat /\ drift <= 1
  /\ session = NoSession \/ Playing => drift = 0
  /\ loop.at \in {"due", "load", "advance"} => drift = 0

\* The same of the pass of the live loop: one that has not filled yet read
\* the sessions when the user had none.
LiveInv ==
  /\ strays \in Nat /\ strays <= 1
  /\ session = NoSession \/ liveFill = "priced" => strays = 0

\* Every step keeps the account of the tick under way.
LEMMA TickInvStep ==
  ASSUME Assumptions, TypeOK, TickInv, [Next]_vars
  PROVE  TickInv'
<1>1. CASE TickReads
  BY <1>1 DEF TickReads, PlayingRow, Playing, TickInv, history
<1>2. CASE TickFindsEngine
  BY <1>2 DEF TickFindsEngine, Playing, TickInv, history
<1>3. CASE TickLoads
  BY <1>3 DEF TickLoads, Playing, TickInv, history
<1>4. CASE TickLoadFails
  BY <1>4 DEF TickLoadFails, Idle, Playing, TickInv, history
<1>5. CASE TickWrites
  <2>1. drift = 0
    BY <1>5 DEF TickWrites, TickInv
  <2>2. CASE TickEnds
    BY <2>1, <2>2 DEF TickEnds, Idle, TickInv
  <2>3. CASE TickMoves
    <3>1. CASE session = NoSession \/ Playing
      BY <2>1, <2>3, <3>1 DEF TickMoves, TickInv
    <3>2. CASE session # NoSession /\ ~Playing
      <4>1. drift' = 1 /\ loop'.at = "fill"
        BY <2>1, <2>3, <3>2 DEF TickMoves
      <4>2. session' = [session EXCEPT !.asOf = NextMoment, !.playing = Playing]
        BY <2>3, <3>2 DEF TickMoves, MoveTo
      <4>3. session \in Session /\ session' \in Session /\ ~session'.playing
        <5>1. session \in Session
          BY <3>2, SessionShape
        <5>2. NextMoment \in Int
          BY <1>5, TickShapes DEF TickWrites, NextMoment, Assumptions
        <5>3. Playing = FALSE
          BY <3>2, <5>1 DEF Playing, Session
        <5> QED BY <3>2, <4>2, <5>1, <5>2, <5>3, RowTypes
      <4>4. session' # NoSession /\ ~Playing'
        BY <4>3 DEF Assumptions, Playing
      <4> QED BY <4>1, <4>4 DEF TickInv
    <3> QED BY <3>1, <3>2
  <2> QED BY <1>5, <2>2, <2>3 DEF TickWrites
<1>6. CASE TickFills
  BY <1>6 DEF TickFills, Idle, Playing, TickInv, history
<1>7. CASE LiveStep
  BY <1>7 DEF LiveStep, LiveReads, LiveFills, Playing, TickInv, history
<1>8. ASSUME NEW c \in Clients, RequestStep(c)
      PROVE  TickInv'
  <2>1. CASE Play(c)
    BY <2>1 DEF Play, tasks, TickInv
  <2>2. CASE Pause(c)
    <3>1. session' \in Session /\ ~session'.playing
      BY <2>2, SessionShape DEF Pause, Session
    <3>2. session' # NoSession /\ ~Playing'
      BY <3>1 DEF Assumptions, Playing
    <3> QED BY <2>2, <3>2 DEF Pause, tasks, history, TickInv
  <2>3. CASE Seek(c)
    <3>1. PICK m \in Seeks : MoveTo(m, session.playing)
      BY <2>3 DEF Seek
    <3>2. session # NoSession /\ m \in Int
      BY <2>3 DEF Seek, Assumptions
    <3>3. session' \in Session /\ session'.playing = session.playing
      BY <3>1, <3>2, SessionShape DEF MoveTo, Session
    <3>4. session' # NoSession /\ Playing' = Playing
      BY <3>2, <3>3 DEF Assumptions, Playing
    <3> QED BY <2>3, <3>4 DEF Seek, history, TickInv
  <2>4. CASE StepWrites(c)
    <3>1. request[c].asOf \in Int
      BY <2>4, RequestShapes DEF StepWrites
    <3>2. CASE session = NoSession
      BY <2>4, <3>2 DEF StepWrites, MoveTo, Playing, history, TickInv
    <3>3. CASE session # NoSession
      <4>1. session' \in Session /\ ~session'.playing
        BY <2>4, <3>1, <3>3, SessionShape DEF StepWrites, MoveTo, Session
      <4>2. session' # NoSession /\ ~Playing'
        BY <4>1 DEF Assumptions, Playing
      <4> QED BY <2>4, <4>2 DEF StepWrites, history, TickInv
    <3> QED BY <3>2, <3>3
  <2>5. CASE StartWrites(c) \/ StopDeletes(c)
    BY <2>5 DEF StartWrites, StopDeletes, TickInv
  <2>6. CASE StepReads(c) \/ MoveFills(c) \/ StartLoads(c) \/ StopDiscards(c)
               \/ OrderPriced(c) \/ OrderBooked(c)
    BY <2>6 DEF StepReads, MoveFills, StartLoads, StopDiscards, OrderPriced, OrderBooked,
                Playing, history, TickInv
  <2> QED BY <1>8, <2>1, <2>2, <2>3, <2>4, <2>5, <2>6 DEF RequestStep
<1>9. CASE Restart
  BY <1>9 DEF Restart, Idle, Playing, history, TickInv
<1>10. CASE UNCHANGED vars
  BY <1>10 DEF vars, Playing, TickInv
<1> QED BY <1>1, <1>2, <1>3, <1>4, <1>5, <1>6, <1>7, <1>8, <1>9, <1>10 DEF Next, TickStep

\* A paused clock is moved at most once more by the pacing loop.
THEOREM PausedClockAlwaysSettles == Spec => []PausedClockSettles
<1>0. Assumptions
  BY AssumptionsHold
<1>1. Init => TickInv
  BY DEF Init, Idle, TickInv
<1>2. TypeOK /\ TickInv /\ [Next]_vars => TickInv'
  BY <1>0, TickInvStep
<1>3. TickInv => PausedClockSettles
  BY DEF TickInv, PausedClockSettles
<1> QED BY <1>1, <1>2, <1>3, ClockTypeCorrect, PTL DEF Spec

-----------------------------------------------------------------------------

\* A row is made only by the request that starts a replay.
LEMMA OnlyStartMakesRows ==
  ASSUME TypeOK, Next, session = NoSession, session' # NoSession
  PROVE  \E c \in Clients : StartWrites(c)
<1>1. ~TickStep
  BY DEF TickStep, TickReads, TickFindsEngine, TickLoads, TickLoadFails, TickWrites, TickEnds,
         TickMoves, TickFills, MoveTo
<1>2. ~LiveStep /\ ~Restart
  BY DEF LiveStep, LiveReads, LiveFills, Restart
<1>3. PICK c \in Clients : RequestStep(c)
  BY <1>1, <1>2 DEF Next
<1>4. ~(Play(c) \/ Pause(c) \/ Seek(c) \/ StepReads(c) \/ StepWrites(c) \/ MoveFills(c)
        \/ StartLoads(c) \/ StopDeletes(c) \/ StopDiscards(c) \/ OrderPriced(c) \/ OrderBooked(c))
  BY DEF Play, Pause, Seek, StepReads, StepWrites, MoveTo, MoveFills, StartLoads, StopDeletes,
         StopDiscards, OrderPriced, OrderBooked
<1> QED BY <1>3, <1>4 DEF RequestStep

\* A stopped replay is brought back by no task under way.
THEOREM StoppedReplayStaysStopped == Spec => StoppedStaysStopped
<1>1. TypeOK /\ [Next]_vars =>
        (session = NoSession /\ session' # NoSession => \E c \in Clients : StartWrites(c))
  BY OnlyStartMakesRows DEF vars
<1>2. TypeOK /\ [Next]_vars =>
        [session = NoSession /\ session' # NoSession => \E c \in Clients : StartWrites(c)]_vars
  BY <1>1
<1> QED BY <1>2, ClockTypeCorrect, PTL DEF Spec, StoppedStaysStopped

\* A row goes only by the request that stops the replay.
LEMMA OnlyStopDeletesRows ==
  ASSUME Assumptions, TypeOK, Next, session # NoSession, session' = NoSession
  PROVE  \E c \in Clients : StopDeletes(c)
<1>1. session \in Session /\ session.playing \in BOOLEAN
  BY SessionShape
<1>2. \A m \in Int, p \in BOOLEAN : ~MoveTo(m, p)
  <2> SUFFICES ASSUME NEW m \in Int, NEW p \in BOOLEAN, MoveTo(m, p)
               PROVE  FALSE
    OBVIOUS
  <2>1. session' \in Session
    BY RowTypes DEF MoveTo
  <2> QED BY <2>1 DEF Assumptions
<1>3. \A p \in BOOLEAN : session' # [session EXCEPT !.playing = p]
  BY RowTypes DEF Assumptions
<1>4. ~TickStep
  <2>1. ~(TickReads \/ TickFindsEngine \/ TickLoads \/ TickLoadFails \/ TickFills)
    BY DEF TickReads, TickFindsEngine, TickLoads, TickLoadFails, TickFills
  <2>2. ~TickWrites
    <3> SUFFICES ASSUME TickWrites PROVE FALSE
      OBVIOUS
    <3>1. NextMoment \in Int
      BY TickShapes DEF TickWrites, NextMoment, Assumptions
    <3>2. ~TickMoves
      BY <1>1, <1>2, <3>1 DEF TickMoves, Playing
    <3>3. ~TickEnds
      BY <1>3 DEF TickEnds
    <3> QED BY <3>2, <3>3 DEF TickWrites
  <2> QED BY <2>1, <2>2 DEF TickStep
<1>5. ~LiveStep /\ ~Restart
  BY DEF LiveStep, LiveReads, LiveFills, Restart
<1>6. PICK c \in Clients : RequestStep(c)
  BY <1>4, <1>5 DEF Next
<1>7. ~Play(c) /\ ~Pause(c)
  BY <1>3 DEF Play, Pause
<1>8. ~Seek(c)
  BY <1>1, <1>2 DEF Seek, Assumptions
<1>9. ~StepWrites(c)
  BY <1>2, RequestShapes DEF StepWrites
<1>10. ~StartWrites(c)
  <2> SUFFICES ASSUME StartWrites(c) PROVE FALSE
    OBVIOUS
  <2>1. session' \in Session
    BY RequestShapes DEF StartWrites, Session
  <2> QED BY <2>1 DEF Assumptions
<1>11. ~(StepReads(c) \/ MoveFills(c) \/ StartLoads(c) \/ StopDiscards(c)
         \/ OrderPriced(c) \/ OrderBooked(c))
  BY DEF StepReads, MoveFills, StartLoads, StopDiscards, OrderPriced, OrderBooked
<1> QED BY <1>6, <1>7, <1>8, <1>9, <1>10, <1>11 DEF RequestStep

\* Only the live loop counts strays, and only a stop takes them back.
LEMMA LiveInvStep ==
  ASSUME Assumptions, TypeOK, LiveInv, [Next]_vars
  PROVE  LiveInv'
<1>1. CASE LiveReads
  BY <1>1 DEF LiveReads, Replaying, LiveInv, history
<1>2. CASE LiveFills
  BY <1>2 DEF LiveFills, LiveInv
<1>3. CASE Restart
  BY <1>3 DEF Restart, LiveInv, history
<1>4. CASE \E c \in Clients : StopDeletes(c)
  BY <1>4 DEF StopDeletes, LiveInv
<1>5. CASE UNCHANGED vars
  BY <1>5 DEF vars, LiveInv
<1>6. CASE TickStep \/ \E c \in Clients : RequestStep(c) /\ ~StopDeletes(c)
  <2>1. strays' = strays /\ liveFill' = liveFill
    <3>1. CASE TickStep
      BY <3>1 DEF TickStep, TickReads, TickFindsEngine, TickLoads, TickLoadFails, TickWrites,
                  TickFills, history
    <3>2. ASSUME NEW c \in Clients, RequestStep(c), ~StopDeletes(c)
          PROVE  strays' = strays /\ liveFill' = liveFill
      BY <3>2 DEF RequestStep, Play, Pause, Seek, StepReads, StepWrites, MoveFills, StartLoads,
                  StartWrites, StopDiscards, OrderPriced, OrderBooked, history, tasks
    <3> QED BY <1>6, <3>1, <3>2
  <2>2. CASE session' = NoSession /\ session # NoSession
    <3>1. \E c \in Clients : StopDeletes(c)
      BY <1>6, <2>2, OnlyStopDeletesRows DEF Next
    <3> QED BY <3>1, <1>4
  <2>3. CASE session' # NoSession \/ session = NoSession
    BY <2>1, <2>3 DEF LiveInv
  <2> QED BY <2>2, <2>3
<1> QED BY <1>1, <1>2, <1>3, <1>4, <1>5, <1>6 DEF Next, LiveStep

\* The live loop fills a user who has a session at most once more.
THEOREM LiveLoopAlwaysLetsGo == Spec => []LiveLoopLetsGo
<1>0. Assumptions
  BY AssumptionsHold
<1>1. Init => LiveInv
  BY DEF Init, LiveInv
<1>2. TypeOK /\ LiveInv /\ [Next]_vars => LiveInv'
  BY <1>0, LiveInvStep
<1>3. LiveInv => LiveLoopLetsGo
  BY DEF LiveInv, LiveLoopLetsGo
<1> QED BY <1>1, <1>2, <1>3, ClockTypeCorrect, PTL DEF Spec
-----------------------------------------------------------------------------
(***************************************************************************)
(* The walks, for any bars and any number of them.  A backtest is a fold   *)
(* over the bars, so it is the last of its states, one to each bar.  Over  *)
(* one bar more, each bar's state is what it was: levels, averages and     *)
(* alerts are read of the bars up to it, and only what follows a bar,      *)
(* whether it can be measured, may be more.  The screen reads the session  *)
(* so far, and the relative volume days that are over, as bars come in     *)
(* the order of their time.                                                *)
(*                                                                         *)
(* The live side reads the bars up to one.  A walk carries what that       *)
(* reading would be: the average, the range of the days before, the levels *)
(* of the day's first bar, and whether the reading before it held.  The    *)
(* alarm reads the last few bars where the cache reads the day, which is   *)
(* enough as each bar is a slot later at least.                            *)
(***************************************************************************)

(* The walk of a strategy over the bars.                                   *)

TapeBar == [day : Nat, slot : Nat, low : Nat, high : Nat, close : Nat, paid : Nat, green : BOOLEAN]
Vwaps == [day : Nat, paid : Nat, prints : Nat]

\* The total of a day stays one.
LEMMA UpdateStays ==
  ASSUME NEW v \in Vwaps, NEW b \in TapeBar
  PROVE  Update(v, b) \in Vwaps
<1>1. PICK today : today = IF v.day = b.day THEN v ELSE [NoPrints EXCEPT !.day = b.day]
  OBVIOUS
<1>2. today \in Vwaps
  <2>1. [NoPrints EXCEPT !.day = b.day] \in Vwaps
    BY DEF NoPrints, Vwaps, TapeBar
  <2> QED BY <1>1, <2>1
<1>3. [today EXCEPT !.paid = @ + b.paid, !.prints = @ + 1] \in Vwaps
  <2>1. PICK p \in Nat, q \in Nat : p = today.paid + b.paid /\ q = today.prints + 1
    BY <1>2 DEF Vwaps, TapeBar
  <2>2. [today EXCEPT !.paid = p, !.prints = q] \in Vwaps
    BY <1>2 DEF Vwaps
  <2> QED BY <2>1, <2>2, Zenon
<1> QED BY <1>1, <1>2, <1>3, Zenon DEF Update

\* What the walk over these bars may be in the middle of.
BarsBefore(bars, i) == SubSeq(bars, 1, i - 1)
LevelSets(bars) == {MorningLevels(BarsBefore(bars, i), bars[i].day) : i \in DOMAIN bars} \cup {{}}
Atrs(bars) == {DailyAtr(BarsBefore(bars, i), bars[i].day) : i \in DOMAIN bars} \cup {NoAtr}
Signals(bars, rule) ==
  {Evaluate(bars, i, v, l, a, rule) :
     i \in DOMAIN bars, v \in Vwaps, l \in LevelSets(bars), a \in Atrs(bars)}
PicksOf(bars, rule) == [at : DOMAIN bars, signal : Signals(bars, rule)]
Walks(bars, rule) ==
  [vwap : Vwaps, levels : LevelSets(bars), atr : Atrs(bars), day : Nat, active : BOOLEAN,
   picks : SUBSET PicksOf(bars, rule)]

\* A walk begins as one.
LEMMA NoWalkIs == \A bars, rule : NoWalk \in Walks(bars, rule)
BY DEF NoWalk, Walks, LevelSets, Atrs, NoPrints, Vwaps

\* The parts of a bar of the walk.
LevelsAt(bars, walk, i) ==
  IF NewSession(walk, bars[i]) THEN MorningLevels(BarsBefore(bars, i), bars[i].day) ELSE walk.levels
AtrAt(bars, walk, i) ==
  IF NewSession(walk, bars[i]) THEN DailyAtr(BarsBefore(bars, i), bars[i].day) ELSE walk.atr
SignalAt(bars, walk, i, rule) ==
  Evaluate(bars, i, Update(walk.vwap, bars[i]), LevelsAt(bars, walk, i), AtrAt(bars, walk, i), rule)
PickedAt(bars, walk, i, rule) ==
  /\ SignalAt(bars, walk, i, rule) # NoSignal
  /\ ~(walk.active /\ ~NewSession(walk, bars[i]))
  /\ ForwardSessionBars(bars, i) # {}

\* A bar of the walk, part by part.
LEMMA StrategyBarIs ==
  ASSUME NEW bars, NEW walk, NEW i, NEW rule
  PROVE  StrategyBar(bars, walk, i, rule) =
           [vwap |-> Update(walk.vwap, bars[i]), levels |-> LevelsAt(bars, walk, i),
            atr |-> AtrAt(bars, walk, i), day |-> bars[i].day,
            active |-> SignalAt(bars, walk, i, rule) # NoSignal,
            picks |-> walk.picks \cup
              IF PickedAt(bars, walk, i, rule)
              THEN {[at |-> i, signal |-> SignalAt(bars, walk, i, rule)]} ELSE {}]
BY Zenon DEF StrategyBar, LevelsAt, AtrAt, SignalAt, PickedAt, BarsBefore

\* A bar takes a walk to a walk.
LEMMA StrategyBarStays ==
  ASSUME NEW bars \in Seq(TapeBar), NEW rule, NEW walk \in Walks(bars, rule), NEW i \in DOMAIN bars
  PROVE  StrategyBar(bars, walk, i, rule) \in Walks(bars, rule)
<1>1. bars[i] \in TapeBar
  BY Indices
<1>2. PICK v \in Vwaps : v = Update(walk.vwap, bars[i])
  BY <1>1, UpdateStays DEF Walks
<1>3. PICK l \in LevelSets(bars) : l = LevelsAt(bars, walk, i)
  <2>1. walk.levels \in LevelSets(bars)
    BY DEF Walks
  <2>2. MorningLevels(BarsBefore(bars, i), bars[i].day) \in LevelSets(bars)
    BY DEF LevelSets
  <2> QED BY <2>1, <2>2, Zenon DEF LevelsAt
<1>t. PICK t \in Atrs(bars) : t = AtrAt(bars, walk, i)
  <2>1. walk.atr \in Atrs(bars)
    BY DEF Walks
  <2>2. DailyAtr(BarsBefore(bars, i), bars[i].day) \in Atrs(bars)
    BY DEF Atrs
  <2> QED BY <2>1, <2>2, Zenon DEF AtrAt
<1>4. PICK s \in Signals(bars, rule) : s = SignalAt(bars, walk, i, rule)
  <2>1. Evaluate(bars, i, v, l, t, rule) \in Signals(bars, rule)
    BY DEF Signals
  <2> QED BY <1>2, <1>3, <1>t, <2>1 DEF SignalAt
<1>5. PICK p : p = walk.picks \cup IF PickedAt(bars, walk, i, rule) THEN {[at |-> i, signal |-> s]} ELSE {}
  OBVIOUS
<1>6. p \in SUBSET PicksOf(bars, rule)
  <2>1. walk.picks \in SUBSET PicksOf(bars, rule)
    BY DEF Walks
  <2>2. [at |-> i, signal |-> s] \in PicksOf(bars, rule)
    BY DEF PicksOf
  <2> QED BY <1>5, <2>1, <2>2
<1>7. bars[i].day \in Nat
  BY <1>1 DEF TapeBar
<1>8. PICK a \in BOOLEAN : a = (s # NoSignal)
  OBVIOUS
<1>9. StrategyBar(bars, walk, i, rule) =
        [vwap |-> v, levels |-> l, atr |-> t, day |-> bars[i].day, active |-> a, picks |-> p]
  BY <1>2, <1>3, <1>t, <1>4, <1>5, <1>8, StrategyBarIs, Zenon
<1> QED BY <1>6, <1>7, <1>9 DEF Walks

StrategyBy(bars, rule) ==
  [p \in Walks(bars, rule) \X DOMAIN bars |-> StrategyBar(bars, p[1], p[2], rule)]
StrategyEnd(bars, rule) ==
  FoldLeft(LAMBDA walk, i : StrategyBar(bars, walk, i, rule), NoWalk, Places(bars))

\* The model's fold is a fold of this function.
LEMMA StrategyIsFold ==
  ASSUME NEW bars \in Seq(TapeBar), NEW rule
  PROVE  StrategyEnd(bars, rule) = FoldBy(StrategyBy(bars, rule), NoWalk, Places(bars))
<1> DEFINE D == DOMAIN Places(bars)
           F == StrategyBy(bars, rule)
           A == Walks(bars, rule)
           seq == Places(bars)
           base == NoWalk
           step(t, i) == StrategyBar(bars, t, i, rule)
           Own(h) == h = [s \in SUBSET D |->
                            IF s = {} THEN base ELSE step(h[s \ {Max(s)}], seq[Max(s)])]
<1>0. D = DOMAIN bars /\ \A i \in D : seq[i] = i
  BY DEF Places
<1>1. Numbers(D) /\ IsFiniteSet(D) /\ Typed(seq, D, D) /\ base \in A
  BY <1>0, Indices, NoWalkIs DEF Typed
<1>2. \A a \in A, x \in D : F[<<a, x>>] = step(a, x)
  BY <1>0 DEF StrategyBy
<1>s. Stays(F, A, D)
  <2>1. ASSUME NEW a \in A, NEW x \in D PROVE step(a, x) \in A
    BY <1>0, StrategyBarStays
  <2> QED BY <1>2, <2>1, Zenon DEF Stays
<1> HIDE DEF A
<1>3. PICK g : Folded(g, F, base, seq, D)
  BY <1>1, FoldedExist
<1>4. \A s \in SUBSET D : g[s] \in A
  <2> HIDE DEF base, F, seq, D
  <2> QED BY <1>1, <1>s, <1>3, FoldedIn
<1>5. \A s \in SUBSET D : s # {} => s \ {Max(s)} \in SUBSET D /\ Max(s) \in D
  BY <1>1, FS_Subset, MaxIsIn DEF Numbers
<1>6. Own(g)
  <2>1. ASSUME NEW s \in SUBSET D, s # {}
        PROVE  F[<<g[s \ {Max(s)}], seq[Max(s)]>>] = step(g[s \ {Max(s)}], seq[Max(s)])
    <3>1. g[s \ {Max(s)}] \in A /\ seq[Max(s)] \in D
      BY <1>1, <1>4, <1>5, <2>1 DEF Typed
    <3> QED BY <1>2, <3>1, Zenon
  <2>2. g = [s \in SUBSET D |-> IF s = {} THEN base ELSE F[<<g[s \ {Max(s)}], seq[Max(s)]>>]]
    BY <1>3, Zenon DEF Folded
  <2>3. \A s \in SUBSET D : (IF s = {} THEN base ELSE F[<<g[s \ {Max(s)}], seq[Max(s)]>>])
                            = (IF s = {} THEN base ELSE step(g[s \ {Max(s)}], seq[Max(s)]))
    BY <2>1, Zenon
  <2> HIDE DEF F, seq, base, step, D
  <2>4. [s \in SUBSET D |-> IF s = {} THEN base ELSE F[<<g[s \ {Max(s)}], seq[Max(s)]>>]]
        = [s \in SUBSET D |-> IF s = {} THEN base ELSE step(g[s \ {Max(s)}], seq[Max(s)])]
    BY <2>3
  <2> QED BY <2>2, <2>4, Zenon
<1> DEFINE h == CHOOSE h : Own(h)
<1>7. Own(h)
  BY <1>6, Zenon
<1>8. StrategyEnd(bars, rule) = h[D]
  BY Zenon DEF StrategyEnd, FoldLeft, MapThenFoldSet
<1> HIDE DEF h
<1>9. TakesSteps(h, F, A, base, seq, D)
  <2>1. ASSUME NEW s \in SUBSET D
        PROVE  h[s] = IF s = {} THEN base ELSE step(h[s \ {Max(s)}], seq[Max(s)])
    BY <1>7, Zenon
  <2>2. h[{}] = base
    <3>1. {} \in SUBSET D
      OBVIOUS
    <3> QED BY <2>1, <3>1, Zenon
  <2>3. ASSUME NEW s \in SUBSET D, s # {}, h[s \ {Max(s)}] \in A
        PROVE  h[s] = F[<<h[s \ {Max(s)}], seq[Max(s)]>>]
    <3>1. seq[Max(s)] \in D
      BY <1>1, <1>5, <2>3 DEF Typed
    <3>2. h[s] = step(h[s \ {Max(s)}], seq[Max(s)])
      BY <2>1, <2>3, Zenon
    <3> QED BY <1>2, <2>3, <3>1, <3>2, Zenon
  <2> QED BY <2>2, <2>3 DEF TakesSteps
<1>10. FoldBy(F, base, seq) = h[D]
  <2>1. D = DOMAIN seq
    OBVIOUS
  <2> HIDE DEF D, F, base, seq
  <2> QED BY <1>1, <1>s, <1>9, <2>1, FoldBySteps
<1> QED BY <1>8, <1>10, Zenon

\* WalksBars(h, bars, rule): h[i] is the walk after i bars.
WalksBars(h, bars, rule) ==
  /\ h[0] = NoWalk
  /\ \A i \in 1..Len(bars) : h[i] = StrategyBar(bars, h[i - 1], i, rule)
  /\ \A i \in 0..Len(bars) : h[i] \in Walks(bars, rule)
  /\ SimulateStrategy(bars, rule) = h[Len(bars)].picks

\* The backtest is the last of the walks, one to each bar.
LEMMA WalkExists ==
  ASSUME NEW bars \in Seq(TapeBar), NEW rule
  PROVE  \E h : WalksBars(h, bars, rule)
<1> DEFINE F == StrategyBy(bars, rule)
<1>1. PICK n \in Nat : n = Len(bars) /\ DOMAIN bars = 1..n
  BY Indices
<1>2. Counts(Places(bars), n) /\ \A i \in 1..n : Places(bars)[i] = i
  BY <1>1 DEF Counts, Places
<1>3. PICK h : /\ h[0] = NoWalk
               /\ \A i \in 1..n : h[i] = F[<<h[i - 1], Places(bars)[i]>>]
               /\ FoldBy(F, NoWalk, Places(bars)) = h[n]
  <2> HIDE DEF F
  <2>1. PICK base : base = NoWalk
    OBVIOUS
  <2> QED BY <1>2, <2>1, FoldByPrefixes
<1>4. \A a \in Walks(bars, rule), i \in 1..n : F[<<a, i>>] = StrategyBar(bars, a, i, rule)
  BY <1>1 DEF StrategyBy
<1> HIDE DEF F
<1> DEFINE P == {i \in 0..n : h[i] \in Walks(bars, rule)}
<1>5. 0 \in P
  BY <1>3, NoWalkIs
<1>6. ASSUME NEW i \in 1..n, i - 1 \in P
      PROVE  i \in P
  <2>1. h[i - 1] \in Walks(bars, rule)
    BY <1>6
  <2>2. h[i] = StrategyBar(bars, h[i - 1], i, rule)
    BY <1>2, <1>3, <1>4, <2>1
  <2>3. h[i] \in Walks(bars, rule)
    BY <1>1, <2>1, <2>2, StrategyBarStays
  <2> QED BY <2>3
<1>7. \A i \in 0..n : h[i] \in Walks(bars, rule)
  <2>1. 0..n \subseteq P
    <3> HIDE DEF P
    <3> QED BY <1>5, <1>6, UpTo
  <2> QED BY <2>1
<1>8. \A i \in 1..n : h[i] = StrategyBar(bars, h[i - 1], i, rule)
  <2> TAKE i \in 1..n
  <2>1. i - 1 \in 0..n
    OBVIOUS
  <2>2. h[i - 1] \in Walks(bars, rule)
    BY <1>7, <2>1
  <2> QED BY <1>2, <1>3, <1>4, <2>2
<1>9. StrategyEnd(bars, rule) = h[n]
  BY <1>3, StrategyIsFold DEF F
<1>10. SimulateStrategy(bars, rule) = StrategyEnd(bars, rule).picks
  BY Zenon DEF SimulateStrategy, StrategyEnd, NoWalk
<1>11. WalksBars(h, bars, rule)
  BY <1>1, <1>3, <1>7, <1>8, <1>9, <1>10, Zenon DEF WalksBars
<1> QED BY <1>11

-----------------------------------------------------------------------------
(* One bar more.                                                           *)

\* More(bars, more): more is bars and one bar that is later.
More(bars, more) ==
  /\ bars \in Seq(TapeBar) /\ more \in Seq(TapeBar) /\ Len(more) = Len(bars) + 1
  /\ \A i \in 1..Len(bars) : more[i] = bars[i]

\* What the two have in common.
LEMMA MoreIs ==
  ASSUME NEW bars, NEW more, More(bars, more)
  PROVE  /\ Len(bars) \in Nat /\ DOMAIN bars = 1..Len(bars) /\ DOMAIN more = 1..(Len(bars) + 1)
         /\ bars \in Seq(TapeBar) /\ more \in Seq(TapeBar) /\ Len(more) = Len(bars) + 1
         /\ \A i \in 1..Len(bars) : more[i] = bars[i] /\ bars[i] \in TapeBar
<1>1. bars \in Seq(TapeBar) /\ more \in Seq(TapeBar) /\ Len(more) = Len(bars) + 1
  BY DEF More
<1>2. Len(bars) \in Nat /\ DOMAIN bars = 1..Len(bars) /\ \A i \in DOMAIN bars : bars[i] \in TapeBar
  BY <1>1, Indices
<1>3. DOMAIN more = 1..Len(more)
  BY <1>1, Indices
<1> QED BY <1>1, <1>2, <1>3 DEF More

\* The bars before one are the same bars.
LEMMA BeforeIs ==
  ASSUME NEW bars, NEW more, More(bars, more), NEW m \in 0..Len(bars)
  PROVE  SubSeq(more, 1, m) = SubSeq(bars, 1, m)
<1>1. /\ Len(bars) \in Nat /\ m \in Int /\ 1 \in Int
      /\ \A i \in 1..m : more[i] = bars[i] /\ bars[i] \in TapeBar /\ more[i] \in TapeBar
  BY MoreIs
<1>2. PICK s \in Seq(TapeBar) : s = SubSeq(more, 1, m)
  BY <1>1, SubSeqProperties
<1>3. PICK t \in Seq(TapeBar) : t = SubSeq(bars, 1, m)
  BY <1>1, SubSeqProperties
<1>4. Len(s) = m /\ \A i \in 1..m : s[i] = more[i]
  <2>1. /\ Len(SubSeq(more, 1, m)) = IF 1 <= m THEN m - 1 + 1 ELSE 0
        /\ \A i \in 1..(m - 1 + 1) : SubSeq(more, 1, m)[i] = more[1 + i - 1]
    BY <1>1, SubSeqProperties
  <2> QED BY <1>1, <1>2, <2>1
<1>5. Len(t) = m /\ \A i \in 1..m : t[i] = bars[i]
  <2>1. /\ Len(SubSeq(bars, 1, m)) = IF 1 <= m THEN m - 1 + 1 ELSE 0
        /\ \A i \in 1..(m - 1 + 1) : SubSeq(bars, 1, m)[i] = bars[1 + i - 1]
    BY <1>1, SubSeqProperties
  <2> QED BY <1>1, <1>3, <2>1
<1>6. s = t
  BY <1>1, <1>4, <1>5, SeqEqual
<1> QED BY <1>2, <1>3, <1>6

\* What a rule makes of a bar is a matter of the bars up to it.
LEMMA EvaluateIsKept ==
  ASSUME NEW bars, NEW more, NEW i \in Nat, \A j \in 1..i : j \in DOMAIN bars /\ more[j] = bars[j],
         i > 0, NEW v, NEW l, NEW a, NEW rule
  PROVE  Evaluate(more, i, v, l, a, rule) = Evaluate(bars, i, v, l, a, rule)
<1>1. more[i] = bars[i]
  OBVIOUS
<1>2. PICK box : box = Box(bars, i, rule) /\ box = Box(more, i, rule) /\ box \subseteq 1..i
  <2>1. PICK from : from = IF rule = "opening_range" THEN OpenSlot ELSE 0
    OBVIOUS
  <2>2. PICK slots : slots = from..(ReadyAt(rule) - 1)
    OBVIOUS
  <2>3. Box(bars, i, rule) = {j \in 1..i : SameDay(bars[j], bars[i]) /\ bars[j].slot \in slots}
    BY <2>1, <2>2, Zenon DEF Box
  <2>4. Box(more, i, rule) = {j \in 1..i : SameDay(more[j], more[i]) /\ more[j].slot \in slots}
    BY <2>1, <2>2, Zenon DEF Box
  <2>5. {j \in 1..i : SameDay(more[j], more[i]) /\ more[j].slot \in slots}
        = {j \in 1..i : SameDay(bars[j], bars[i]) /\ bars[j].slot \in slots}
    BY <1>1 DEF SameDay
  <2> QED BY <2>3, <2>4, <2>5
<1>3. HighsAt(more, box) = HighsAt(bars, box) /\ LowsAt(more, box) = LowsAt(bars, box)
  <2>1. \A j \in box : more[j] = bars[j]
    BY <1>2
  <2> QED BY <2>1 DEF HighsAt, LowsAt
<1> QED BY <1>1, <1>2, <1>3, Zenon DEF Evaluate

\* The picks of a strategy stay.
LEMMA StrategyStays ==
  ASSUME NEW bars, NEW more, More(bars, more), NEW rule
  PROVE  SimulateStrategy(bars, rule) \subseteq SimulateStrategy(more, rule)
<1>1. PICK n \in Nat : n = Len(bars)
  BY MoreIs
<1>2. /\ Len(more) = n + 1 /\ DOMAIN bars = 1..n /\ DOMAIN more = 1..(n + 1)
      /\ \A i \in 1..n : more[i] = bars[i]
  BY <1>1, MoreIs
<1>3. PICK h : WalksBars(h, bars, rule)
  BY MoreIs, WalkExists
<1>4. PICK k : WalksBars(k, more, rule)
  BY MoreIs, WalkExists
<1> DEFINE same(i) == /\ h[i].vwap = k[i].vwap /\ h[i].levels = k[i].levels
                      /\ h[i].atr = k[i].atr /\ h[i].day = k[i].day
                      /\ h[i].active = k[i].active /\ h[i].picks \subseteq k[i].picks
           P == {i \in 0..n : same(i)}
<1>5. 0 \in P
  BY <1>3, <1>4 DEF WalksBars
<1>6. ASSUME NEW i \in 1..n, i - 1 \in P
      PROVE  i \in P
  <2>1. PICK a : a = h[i - 1]
    OBVIOUS
  <2>2. PICK b : b = k[i - 1]
    OBVIOUS
  <2>3. /\ a.vwap = b.vwap /\ a.levels = b.levels /\ a.atr = b.atr /\ a.day = b.day
        /\ a.active = b.active /\ a.picks \subseteq b.picks
    BY <1>6, <2>1, <2>2
  <2>4. h[i] = StrategyBar(bars, a, i, rule) /\ k[i] = StrategyBar(more, b, i, rule)
    BY <1>1, <1>2, <1>3, <1>4, <2>1, <2>2 DEF WalksBars
  <2>5. more[i] = bars[i] /\ BarsBefore(more, i) = BarsBefore(bars, i)
    BY <1>1, <1>2, BeforeIs DEF BarsBefore
  <2>s. NewSession(b, more[i]) <=> NewSession(a, bars[i])
    BY <2>3, <2>5 DEF NewSession
  <2>6. LevelsAt(more, b, i) = LevelsAt(bars, a, i) /\ AtrAt(more, b, i) = AtrAt(bars, a, i)
    BY <2>3, <2>5, <2>s, Zenon DEF LevelsAt, AtrAt
  <2>7. SignalAt(more, b, i, rule) = SignalAt(bars, a, i, rule)
    <3>1. PICK v : v = Update(a.vwap, bars[i]) /\ v = Update(b.vwap, more[i])
      BY <2>3, <2>5
    <3>2. PICK l, t : /\ l = LevelsAt(bars, a, i) /\ l = LevelsAt(more, b, i)
                      /\ t = AtrAt(bars, a, i) /\ t = AtrAt(more, b, i)
      BY <2>6
    <3>3. Evaluate(more, i, v, l, t, rule) = Evaluate(bars, i, v, l, t, rule)
      <4>1. i \in Nat /\ \A j \in 1..i : j \in 1..n
        OBVIOUS
      <4> QED BY <1>2, <4>1, EvaluateIsKept
    <3> QED BY <3>1, <3>2, <3>3, Zenon DEF SignalAt
  <2>8. ForwardSessionBars(bars, i) \subseteq ForwardSessionBars(more, i)
    BY <1>2, <2>5 DEF ForwardSessionBars
  <2>9. PickedAt(bars, a, i, rule) => PickedAt(more, b, i, rule)
    BY <2>3, <2>s, <2>7, <2>8 DEF PickedAt
  <2>10. PICK x : x = StrategyBar(bars, a, i, rule)
    OBVIOUS
  <2>11. PICK y : y = StrategyBar(more, b, i, rule)
    OBVIOUS
  <2>12. /\ x.vwap = Update(a.vwap, bars[i]) /\ x.levels = LevelsAt(bars, a, i)
         /\ x.atr = AtrAt(bars, a, i) /\ x.day = bars[i].day
         /\ x.active = (SignalAt(bars, a, i, rule) # NoSignal)
         /\ x.picks = a.picks \cup
              IF PickedAt(bars, a, i, rule) THEN {[at |-> i, signal |-> SignalAt(bars, a, i, rule)]} ELSE {}
    BY <2>10, StrategyBarIs
  <2>13. /\ y.vwap = Update(b.vwap, more[i]) /\ y.levels = LevelsAt(more, b, i)
         /\ y.atr = AtrAt(more, b, i) /\ y.day = more[i].day
         /\ y.active = (SignalAt(more, b, i, rule) # NoSignal)
         /\ y.picks = b.picks \cup
              IF PickedAt(more, b, i, rule) THEN {[at |-> i, signal |-> SignalAt(more, b, i, rule)]} ELSE {}
    BY <2>11, StrategyBarIs
  <2>14. x.picks \subseteq y.picks
    BY <2>3, <2>7, <2>9, <2>12, <2>13
  <2>15. /\ x.vwap = y.vwap /\ x.levels = y.levels /\ x.atr = y.atr /\ x.day = y.day /\ x.active = y.active
    BY <2>3, <2>5, <2>6, <2>7, <2>12, <2>13, Zenon
  <2> QED BY <2>4, <2>10, <2>11, <2>14, <2>15
<1>7. h[n].picks \subseteq k[n].picks
  <2>1. 0..n \subseteq P
    <3> HIDE DEF P
    <3> QED BY <1>5, <1>6, UpTo
  <2> QED BY <2>1
<1>8. k[n].picks \subseteq k[n + 1].picks
  <2>1. n + 1 \in 1..(n + 1) /\ n + 1 - 1 = n
    OBVIOUS
  <2>2. k[n + 1] = StrategyBar(more, k[n], n + 1, rule)
    <3>1. \A i \in 1..Len(more) : k[i] = StrategyBar(more, k[i - 1], i, rule)
      BY <1>4, Zenon DEF WalksBars
    <3>2. PICK j \in 1..Len(more) : j = n + 1 /\ j - 1 = n
      BY <1>2, <2>1
    <3>3. k[j] = StrategyBar(more, k[j - 1], j, rule)
      BY <3>1
    <3> QED BY <3>2, <3>3
  <2>3. PICK y : y = StrategyBar(more, k[n], n + 1, rule)
    OBVIOUS
  <2>4. k[n].picks \subseteq y.picks
    BY <2>3, StrategyBarIs
  <2> QED BY <2>2, <2>3, <2>4
<1> QED BY <1>1, <1>2, <1>3, <1>4, <1>7, <1>8 DEF WalksBars

-----------------------------------------------------------------------------
(* The walk of the momentum alarm.                                         *)

\* The bars that are followed by as many as an alarm is followed for.
Followed(bars) == [i \in 1..(Len(bars) - Horizon) |-> i]
LastFollowed(bars) == IF Len(bars) >= Horizon THEN Len(bars) - Horizon ELSE 0
FollowedTo(bars) == 1..LastFollowed(bars)

\* The bars an alarm is asked at are the first ones.
LEMMA FollowedIs ==
  ASSUME NEW bars \in Seq(TapeBar)
  PROVE  /\ LastFollowed(bars) \in Nat /\ FollowedTo(bars) = 1..LastFollowed(bars)
         /\ DOMAIN Followed(bars) = FollowedTo(bars) /\ FollowedTo(bars) \subseteq DOMAIN bars
         /\ Numbers(DOMAIN Followed(bars)) /\ IsFiniteSet(DOMAIN Followed(bars))
         /\ \A i \in FollowedTo(bars) : Followed(bars)[i] = i /\ i + Horizon \in DOMAIN bars
<1>1. PICK n \in Nat, f \in Nat : n = Len(bars) /\ f = Horizon /\ f > 0 /\ DOMAIN bars = 1..n
  BY WalkAssumption, Indices
<1>2. PICK m \in Nat : m = LastFollowed(bars)
  <2>1. (IF n >= f THEN n - f ELSE 0) \in Nat
    BY ONLY n \in Nat, f \in Nat
  <2> QED BY <1>1, <2>1, Zenon DEF LastFollowed
<1>3. DOMAIN Followed(bars) = 1..m /\ \A i \in 1..m : Followed(bars)[i] = i
  <2>1. 1..(n - f) = 1..m
    BY <1>1, <1>2 DEF LastFollowed
  <2> QED BY <1>1, <2>1 DEF Followed
<1>4. 1..m \subseteq 1..n /\ \A i \in 1..m : i + f \in 1..n
  BY <1>1, <1>2 DEF LastFollowed
<1>5. IsFiniteSet(1..m) /\ Numbers(1..m)
  BY FS_Interval DEF Numbers
<1> QED BY <1>1, <1>2, <1>3, <1>4, <1>5 DEF FollowedTo

\* What the walk over these bars may be in the middle of.
NoneActive == [k \in Kinds |-> FALSE]
AlertsOver(bars) ==
  {Alert(bars, i, Trailing(bars, i), v) : i \in DOMAIN bars, v \in Vwaps} \cup {NoneActive}
Alarms(bars) ==
  [vwap : Vwaps, active : AlertsOver(bars), picks : SUBSET [at : DOMAIN bars, kind : Kinds]]

NoAlarms == [vwap |-> NoPrints, active |-> [k \in Kinds |-> FALSE], picks |-> {}]

\* A walk of the alarm begins as one.
LEMMA NoAlarmsAre == \A bars : NoAlarms \in Alarms(bars)
BY DEF NoAlarms, Alarms, AlertsOver, NoneActive, NoPrints, Vwaps

\* The parts of a bar of the walk.
AlertAt(bars, walk, i) == Alert(bars, i, Trailing(bars, i), Update(walk.vwap, bars[i]))
EdgesAt(bars, walk, i) == {k \in Kinds : AlertAt(bars, walk, i)[k] /\ ~walk.active[k]}

\* A bar of the alarm, part by part.
LEMMA MomentumBarIs ==
  ASSUME NEW bars, NEW walk, NEW i
  PROVE  MomentumBar(bars, walk, i) =
           [vwap |-> Update(walk.vwap, bars[i]), active |-> AlertAt(bars, walk, i),
            picks |-> walk.picks \cup
              IF Measurable(bars, i) THEN {[at |-> i, kind |-> k] : k \in EdgesAt(bars, walk, i)} ELSE {}]
BY Zenon DEF MomentumBar, AlertAt, EdgesAt

\* A bar takes a walk of the alarm to one.
LEMMA MomentumBarStays ==
  ASSUME NEW bars \in Seq(TapeBar), NEW walk \in Alarms(bars), NEW i \in FollowedTo(bars)
  PROVE  MomentumBar(bars, walk, i) \in Alarms(bars)
<1>1. i \in DOMAIN bars /\ bars[i] \in TapeBar
  BY Indices, FollowedIs
<1>2. PICK v \in Vwaps : v = Update(walk.vwap, bars[i])
  BY <1>1, UpdateStays DEF Alarms
<1>3. PICK a \in AlertsOver(bars) : a = AlertAt(bars, walk, i)
  BY <1>1, <1>2 DEF AlertsOver, AlertAt
<1>4. PICK p : p = walk.picks \cup
                IF Measurable(bars, i) THEN {[at |-> i, kind |-> k] : k \in EdgesAt(bars, walk, i)} ELSE {}
  OBVIOUS
<1>5. p \in SUBSET [at : DOMAIN bars, kind : Kinds]
  <2>1. walk.picks \in SUBSET [at : DOMAIN bars, kind : Kinds]
    BY DEF Alarms
  <2>2. \A k \in EdgesAt(bars, walk, i) : [at |-> i, kind |-> k] \in [at : DOMAIN bars, kind : Kinds]
    BY <1>1 DEF EdgesAt
  <2> QED BY <1>4, <2>1, <2>2
<1>6. MomentumBar(bars, walk, i) = [vwap |-> v, active |-> a, picks |-> p]
  BY <1>2, <1>3, <1>4, MomentumBarIs, Zenon
<1> QED BY <1>5, <1>6 DEF Alarms

MomentumBy(bars) == [p \in Alarms(bars) \X FollowedTo(bars) |-> MomentumBar(bars, p[1], p[2])]
MomentumEnd(bars) == FoldLeft(LAMBDA walk, i : MomentumBar(bars, walk, i), NoAlarms, Followed(bars))

\* The model's fold is a fold of this function.
LEMMA MomentumIsFold ==
  ASSUME NEW bars \in Seq(TapeBar)
  PROVE  MomentumEnd(bars) = FoldBy(MomentumBy(bars), NoAlarms, Followed(bars))
<1> DEFINE D == DOMAIN Followed(bars)
           F == MomentumBy(bars)
           A == Alarms(bars)
           seq == Followed(bars)
           base == NoAlarms
           step(t, i) == MomentumBar(bars, t, i)
           Own(h) == h = [s \in SUBSET D |->
                            IF s = {} THEN base ELSE step(h[s \ {Max(s)}], seq[Max(s)])]
<1>0. /\ Numbers(D) /\ IsFiniteSet(D) /\ \A i \in D : seq[i] = i /\ i \in FollowedTo(bars)
  BY FollowedIs
<1>1. Numbers(D) /\ IsFiniteSet(D) /\ Typed(seq, D, D) /\ base \in A
  BY <1>0, NoAlarmsAre DEF Typed
<1>2. \A a \in A, x \in D : F[<<a, x>>] = step(a, x)
  BY <1>0 DEF MomentumBy
<1>s. Stays(F, A, D)
  <2>1. ASSUME NEW a \in A, NEW x \in D PROVE step(a, x) \in A
    BY <1>0, MomentumBarStays
  <2> QED BY <1>2, <2>1, Zenon DEF Stays
<1> HIDE DEF A
<1>3. PICK g : Folded(g, F, base, seq, D)
  BY <1>1, FoldedExist
<1>4. \A s \in SUBSET D : g[s] \in A
  <2> HIDE DEF base, F, seq, D
  <2> QED BY <1>1, <1>s, <1>3, FoldedIn
<1>5. \A s \in SUBSET D : s # {} => s \ {Max(s)} \in SUBSET D /\ Max(s) \in D
  BY <1>1, FS_Subset, MaxIsIn DEF Numbers
<1>6. Own(g)
  <2>1. ASSUME NEW s \in SUBSET D, s # {}
        PROVE  F[<<g[s \ {Max(s)}], seq[Max(s)]>>] = step(g[s \ {Max(s)}], seq[Max(s)])
    <3>1. g[s \ {Max(s)}] \in A /\ seq[Max(s)] \in D
      BY <1>1, <1>4, <1>5, <2>1 DEF Typed
    <3> QED BY <1>2, <3>1, Zenon
  <2>2. g = [s \in SUBSET D |-> IF s = {} THEN base ELSE F[<<g[s \ {Max(s)}], seq[Max(s)]>>]]
    BY <1>3, Zenon DEF Folded
  <2>3. \A s \in SUBSET D : (IF s = {} THEN base ELSE F[<<g[s \ {Max(s)}], seq[Max(s)]>>])
                            = (IF s = {} THEN base ELSE step(g[s \ {Max(s)}], seq[Max(s)]))
    BY <2>1, Zenon
  <2> HIDE DEF F, seq, base, step, D
  <2>4. [s \in SUBSET D |-> IF s = {} THEN base ELSE F[<<g[s \ {Max(s)}], seq[Max(s)]>>]]
        = [s \in SUBSET D |-> IF s = {} THEN base ELSE step(g[s \ {Max(s)}], seq[Max(s)])]
    BY <2>3
  <2> QED BY <2>2, <2>4, Zenon
<1> DEFINE h == CHOOSE h : Own(h)
<1>7. Own(h)
  BY <1>6, Zenon
<1>8. MomentumEnd(bars) = h[D]
  BY Zenon DEF MomentumEnd, FoldLeft, MapThenFoldSet
<1> HIDE DEF h
<1>9. TakesSteps(h, F, A, base, seq, D)
  <2>1. ASSUME NEW s \in SUBSET D
        PROVE  h[s] = IF s = {} THEN base ELSE step(h[s \ {Max(s)}], seq[Max(s)])
    BY <1>7, Zenon
  <2>2. h[{}] = base
    <3>1. {} \in SUBSET D
      OBVIOUS
    <3> QED BY <2>1, <3>1, Zenon
  <2>3. ASSUME NEW s \in SUBSET D, s # {}, h[s \ {Max(s)}] \in A
        PROVE  h[s] = F[<<h[s \ {Max(s)}], seq[Max(s)]>>]
    <3>1. seq[Max(s)] \in D
      BY <1>1, <1>5, <2>3 DEF Typed
    <3>2. h[s] = step(h[s \ {Max(s)}], seq[Max(s)])
      BY <2>1, <2>3, Zenon
    <3> QED BY <1>2, <2>3, <3>1, <3>2, Zenon
  <2> QED BY <2>2, <2>3 DEF TakesSteps
<1>10. FoldBy(F, base, seq) = h[D]
  <2>1. D = DOMAIN seq
    OBVIOUS
  <2> HIDE DEF D, F, base, seq
  <2> QED BY <1>1, <1>s, <1>9, <2>1, FoldBySteps
<1> QED BY <1>8, <1>10, Zenon

\* AlarmsOver(h, bars): h[i] is the walk after i bars.
AlarmsOver(h, bars) ==
  /\ h[0] = NoAlarms
  /\ \A i \in 1..LastFollowed(bars) : h[i] = MomentumBar(bars, h[i - 1], i)
  /\ \A i \in 0..LastFollowed(bars) : h[i] \in Alarms(bars)
  /\ SimulateMomentumAlerts(bars) = h[LastFollowed(bars)].picks

\* The backtest is the last of the walks of the alarm.
LEMMA AlarmsExist ==
  ASSUME NEW bars \in Seq(TapeBar)
  PROVE  \E h : AlarmsOver(h, bars)
<1> DEFINE F == MomentumBy(bars)
<1>1. PICK n \in Nat : n = LastFollowed(bars) /\ FollowedTo(bars) = 1..n
  BY FollowedIs
<1>2. Counts(Followed(bars), n) /\ \A i \in 1..n : Followed(bars)[i] = i
  BY <1>1, FollowedIs DEF Counts
<1>3. PICK h : /\ h[0] = NoAlarms
               /\ \A i \in 1..n : h[i] = F[<<h[i - 1], Followed(bars)[i]>>]
               /\ FoldBy(F, NoAlarms, Followed(bars)) = h[n]
  <2> HIDE DEF F
  <2>1. PICK base : base = NoAlarms
    OBVIOUS
  <2> QED BY <1>2, <2>1, FoldByPrefixes
<1>4. \A a \in Alarms(bars), i \in 1..n : F[<<a, i>>] = MomentumBar(bars, a, i)
  BY <1>1 DEF MomentumBy
<1> HIDE DEF F
<1> DEFINE P == {i \in 0..n : h[i] \in Alarms(bars)}
<1>5. 0 \in P
  BY <1>3, NoAlarmsAre
<1>6. ASSUME NEW i \in 1..n, i - 1 \in P
      PROVE  i \in P
  <2>1. h[i - 1] \in Alarms(bars)
    BY <1>6
  <2>2. h[i] = MomentumBar(bars, h[i - 1], i)
    BY <1>2, <1>3, <1>4, <2>1
  <2>3. h[i] \in Alarms(bars)
    BY <1>1, <2>1, <2>2, MomentumBarStays
  <2> QED BY <2>3
<1>7. \A i \in 0..n : h[i] \in Alarms(bars)
  <2>1. 0..n \subseteq P
    <3> HIDE DEF P
    <3> QED BY <1>5, <1>6, UpTo
  <2> QED BY <2>1
<1>8. \A i \in 1..n : h[i] = MomentumBar(bars, h[i - 1], i)
  <2> TAKE i \in 1..n
  <2>1. i - 1 \in 0..n
    OBVIOUS
  <2>2. h[i - 1] \in Alarms(bars)
    BY <1>7, <2>1
  <2> QED BY <1>2, <1>3, <1>4, <2>2
<1>9. MomentumEnd(bars) = h[n]
  BY <1>3, MomentumIsFold DEF F
<1>10. SimulateMomentumAlerts(bars) = MomentumEnd(bars).picks
  BY Zenon DEF SimulateMomentumAlerts, MomentumEnd, NoAlarms, Followed
<1>11. AlarmsOver(h, bars)
  BY <1>1, <1>3, <1>7, <1>8, <1>9, <1>10, Zenon DEF AlarmsOver
<1> QED BY <1>11

-----------------------------------------------------------------------------
(* One bar more.                                                           *)

\* An alert is a matter of the bars up to its own.
LEMMA AlertIsKept ==
  ASSUME NEW bars, NEW more, More(bars, more), NEW i \in 1..Len(bars), NEW v
  PROVE  /\ Trailing(more, i) = Trailing(bars, i)
         /\ Alert(more, i, Trailing(more, i), v) = Alert(bars, i, Trailing(bars, i), v)
<1>1. PICK n \in Nat : n = Len(bars)
  BY MoreIs
<1>2. /\ DOMAIN bars = 1..n /\ DOMAIN more = 1..(n + 1) /\ i \in 1..n
      /\ \A j \in 1..n : more[j] = bars[j]
  BY <1>1, MoreIs
<1>3. Trailing(more, i) = Trailing(bars, i)
  <2>1. PICK t : t = i - TrailingBars
    OBVIOUS
  <2>2. Trailing(more, i) = {j \in 1..(n + 1) : t <= j /\ j <= i /\ SameDay(more[j], more[i])}
    BY <1>2, <2>1, Zenon DEF Trailing
  <2>3. Trailing(bars, i) = {j \in 1..n : t <= j /\ j <= i /\ SameDay(bars[j], bars[i])}
    BY <1>2, <2>1, Zenon DEF Trailing
  <2>4. ASSUME NEW j \in 1..(n + 1)
        PROVE  j <= i <=> j \in 1..n /\ j <= i
    BY <1>2
  <2>5. ASSUME NEW j \in 1..n PROVE j \in 1..(n + 1) /\ more[j] = bars[j]
    BY <1>2
  <2> QED BY <1>2, <2>2, <2>3, <2>4, <2>5, Zenon
<1>4. PICK among : among = Trailing(bars, i) /\ among \subseteq 1..n
  BY <1>2 DEF Trailing
<1>5. Moves(more, i, among) <=> Moves(bars, i, among)
  <2>1. PICK before : before = {j \in among : bars[j].slot <= bars[i].slot - Window}
    OBVIOUS
  <2>2. before = {j \in among : more[j].slot <= more[i].slot - Window}
    BY <1>2, <1>4, <2>1
  <2>3. before # {} => more[Max(before)] = bars[Max(before)]
    <3>1. before \subseteq 1..n
      BY <1>4, <2>1
    <3>2. Numbers(before) /\ IsFiniteSet(before)
      <4>1. IsFiniteSet(1..n)
        BY FS_Interval
      <4>2. \A j \in 1..n : j \in Nat
        OBVIOUS
      <4> QED BY <3>1, <4>1, <4>2, FS_Subset DEF Numbers
    <3>3. before # {} => Max(before) \in before
      BY <3>2, MaxIsIn
    <3> QED BY <1>2, <3>1, <3>3
  <2> QED BY <1>2, <2>1, <2>2, <2>3, Zenon DEF Moves
<1> QED BY <1>2, <1>3, <1>4, <1>5, Zenon DEF Alert

\* ... so that a bar of the walk is the same, but for picks that can be measured now.
LEMMA AlarmBarIsKept ==
  ASSUME NEW bars, NEW more, More(bars, more), NEW i \in FollowedTo(bars), NEW walk
  PROVE  MomentumBar(more, walk, i) = MomentumBar(bars, walk, i)
<1>1. PICK n \in Nat : n = Len(bars)
  BY MoreIs
<1>2. i \in 1..n /\ i + Horizon \in 1..n /\ \A j \in 1..n : more[j] = bars[j]
  BY <1>1, MoreIs, FollowedIs
<1>3. AlertAt(more, walk, i) = AlertAt(bars, walk, i)
  BY <1>1, <1>2, AlertIsKept DEF AlertAt
<1>4. Measurable(more, i) <=> Measurable(bars, i)
  BY <1>2, Zenon DEF Measurable
<1>5. EdgesAt(more, walk, i) = EdgesAt(bars, walk, i)
  BY <1>3, Zenon DEF EdgesAt
<1> QED BY <1>2, <1>3, <1>4, <1>5, MomentumBarIs, Zenon

\* The picks of the alarm stay.
LEMMA MomentumStays ==
  ASSUME NEW bars, NEW more, More(bars, more)
  PROVE  SimulateMomentumAlerts(bars) \subseteq SimulateMomentumAlerts(more)
<1>1. PICK m \in Nat : m = LastFollowed(bars) /\ FollowedTo(bars) = 1..m
  BY MoreIs, FollowedIs
<1>2. PICK l \in {m, m + 1} : l = LastFollowed(more)
  <2>1. PICK n \in Nat, f \in Nat : n = Len(bars) /\ f = Horizon /\ f > 0 /\ Len(more) = n + 1
    BY WalkAssumption, MoreIs
  <2>2. m = IF n >= f THEN n - f ELSE 0
    BY <1>1, <2>1 DEF LastFollowed
  <2>3. LastFollowed(more) = IF n + 1 >= f THEN n + 1 - f ELSE 0
    BY <2>1 DEF LastFollowed
  <2> QED BY <2>1, <2>2, <2>3
<1>3. PICK h : AlarmsOver(h, bars)
  BY MoreIs, AlarmsExist
<1>4. PICK k : AlarmsOver(k, more)
  BY MoreIs, AlarmsExist
<1>h. /\ h[0] = NoAlarms /\ \A i \in 1..m : h[i] = MomentumBar(bars, h[i - 1], i)
      /\ SimulateMomentumAlerts(bars) = h[m].picks
  BY <1>1, <1>3 DEF AlarmsOver
<1>k. /\ k[0] = NoAlarms /\ \A i \in 1..l : k[i] = MomentumBar(more, k[i - 1], i)
      /\ SimulateMomentumAlerts(more) = k[l].picks
  BY <1>2, <1>4 DEF AlarmsOver
<1> DEFINE P == {i \in 0..m : h[i] = k[i]}
<1>5. 0 \in P
  BY <1>h, <1>k
<1>6. ASSUME NEW i \in 1..m, i - 1 \in P
      PROVE  i \in P
  <2>1. h[i - 1] = k[i - 1] /\ i \in 1..l /\ i \in FollowedTo(bars)
    BY <1>1, <1>2, <1>6
  <2>2. h[i] = MomentumBar(bars, k[i - 1], i) /\ k[i] = MomentumBar(more, k[i - 1], i)
    BY <1>h, <1>k, <2>1
  <2>3. MomentumBar(more, k[i - 1], i) = MomentumBar(bars, k[i - 1], i)
    BY <2>1, AlarmBarIsKept
  <2> QED BY <2>2, <2>3
<1>7. h[m] = k[m]
  <2>1. 0..m \subseteq P
    <3> HIDE DEF P
    <3> QED BY <1>5, <1>6, UpTo
  <2> QED BY <2>1
<1>8. CASE l = m + 1
  <2>1. PICK j \in 1..l : j = l /\ j - 1 = m
    BY <1>8
  <2>2. k[l] = MomentumBar(more, k[m], l)
    BY <1>k, <2>1
  <2>3. PICK y : y = MomentumBar(more, k[m], l)
    OBVIOUS
  <2>4. k[m].picks \subseteq y.picks
    BY <2>3, MomentumBarIs
  <2> QED BY <1>h, <1>k, <1>7, <2>2, <2>3, <2>4
<1> QED BY <1>2, <1>h, <1>k, <1>7, <1>8

-----------------------------------------------------------------------------
(* The screen and the relative volume.                                     *)

\* A bar of the same day in a later slot, or of a later day.
Before(b, c) == b.day < c.day \/ (b.day = c.day /\ b.slot < c.slot)
Ordered(bars) == \A i, j \in DOMAIN bars : i < j => Before(bars[i], bars[j])

\* What is read of the bars up to one.
LEMMA SessionIsKept ==
  ASSUME NEW bars, NEW more, More(bars, more), NEW day
  PROVE  /\ RegularBars(bars, day) = RegularBars(more, day) \cap 1..Len(bars)
         /\ DaysOf(bars) \subseteq DaysOf(more)
         /\ DaysBefore(bars, day) \subseteq DaysBefore(more, day)
         /\ \A S : S \subseteq 1..Len(bars) => HighsAt(more, S) = HighsAt(bars, S)
<1>1. PICK n \in Nat : n = Len(bars)
  BY MoreIs
<1>2. /\ DOMAIN bars = 1..n /\ DOMAIN more = 1..(n + 1) /\ 1..n \subseteq 1..(n + 1)
      /\ \A j \in 1..n : more[j] = bars[j]
  BY <1>1, MoreIs
<1>3. \A d : RegularBars(bars, d) = RegularBars(more, d) \cap 1..n
  BY <1>2 DEF RegularBars
<1>4. DaysOf(bars) \subseteq DaysOf(more)
  BY <1>2 DEF DaysOf
<1>5. DaysBefore(bars, day) \subseteq DaysBefore(more, day)
  BY <1>3, <1>4 DEF DaysBefore
<1>6. ASSUME NEW S, S \subseteq 1..n PROVE HighsAt(more, S) = HighsAt(bars, S)
  <2>1. \A i \in S : more[i].high = bars[i].high
    BY <1>2, <1>6
  <2> QED BY <2>1 DEF HighsAt
<1> QED BY <1>1, <1>3, <1>4, <1>5, <1>6

\* Days are numbers, finitely many.
LEMMA DaysAre ==
  ASSUME NEW bars \in Seq(TapeBar), NEW day
  PROVE  /\ Numbers(DaysBefore(bars, day)) /\ IsFiniteSet(DaysBefore(bars, day))
         /\ DaysBefore(bars, day) # {} =>
              Max(DaysBefore(bars, day)) \in DaysBefore(bars, day)
<1>1. IsFiniteSet(DOMAIN bars) /\ \A i \in DOMAIN bars : bars[i].day \in Nat
  <2>1. IsFiniteSet(DOMAIN bars) /\ \A i \in DOMAIN bars : bars[i] \in TapeBar
    BY Indices
  <2>2. \A b \in TapeBar : b.day \in Nat
    BY DEF TapeBar
  <2> QED BY <2>1, <2>2
<1>2. IsFiniteSet(DaysOf(bars)) /\ Numbers(DaysOf(bars))
  <2>1. PICK f : f = [i \in DOMAIN bars |-> bars[i].day]
    OBVIOUS
  <2>2. IsFiniteSet({f[i] : i \in DOMAIN bars})
    BY <1>1, ImageIsFinite
  <2>3. DaysOf(bars) = {f[i] : i \in DOMAIN bars}
    BY <2>1 DEF DaysOf
  <2> QED BY <1>1, <2>2, <2>3 DEF DaysOf, Numbers
<1>3. DaysBefore(bars, day) \subseteq DaysOf(bars)
  BY DEF DaysBefore
<1>4. Numbers(DaysBefore(bars, day)) /\ IsFiniteSet(DaysBefore(bars, day))
  BY <1>2, <1>3, FS_Subset DEF Numbers
<1> QED BY <1>4, MaxIsIn

\* A day that has begun is measured by the days before, which are over.
LEMMA UsualIsKept ==
  ASSUME NEW bars, NEW more, More(bars, more), Ordered(more), NEW i \in 1..Len(bars)
  PROVE  DaysBefore(bars, bars[i].day) # {} =>
           UsualVolume(more, bars[i].day) = UsualVolume(bars, bars[i].day)
<1>1. PICK n \in Nat, day \in Nat : n = Len(bars) /\ day = bars[i].day
  BY MoreIs DEF TapeBar
<1>2. /\ DOMAIN bars = 1..n /\ DOMAIN more = 1..(n + 1) /\ \A j \in 1..n : more[j] = bars[j]
      /\ \A j \in 1..(n + 1) : more[j].day \in Nat
  <2>1. /\ DOMAIN bars = 1..n /\ DOMAIN more = 1..(n + 1)
        /\ \A j \in 1..n : more[j] = bars[j]
    BY <1>1, MoreIs
  <2>2. PICK seq \in Seq(TapeBar) : seq = more
    BY MoreIs
  <2>3. \A j \in DOMAIN seq : seq[j] \in TapeBar
    BY Indices
  <2>4. \A b \in TapeBar : b.day \in Nat
    BY DEF TapeBar
  <2>5. \A j \in DOMAIN more : more[j].day \in Nat
    BY <2>2, <2>3, <2>4
  <2> QED BY <2>1, <2>5
<1>3. more[n + 1].day >= day
  <2>1. n + 1 \in 1..(n + 1) /\ i \in 1..(n + 1) /\ i < n + 1
    BY <1>1
  <2>2. Before(more[i], more[n + 1])
    BY <1>2, <2>1 DEF Ordered
  <2>3. more[i].day = day
    BY <1>1, <1>2
  <2>4. more[n + 1].day \in Nat
    BY <1>2, <2>1
  <2> QED BY <2>2, <2>3, <2>4 DEF Before
<1>4. ASSUME NEW d \in Nat, d < day
      PROVE  RegularBars(more, d) = RegularBars(bars, d)
  <2>1. more[n + 1].day # d
    BY <1>2, <1>3, <1>4
  <2>2. \A j \in RegularBars(more, d) : j \in 1..(n + 1) /\ j # n + 1
    BY <1>2, <2>1 DEF RegularBars
  <2>3. RegularBars(more, d) \subseteq 1..n
    BY <2>2
  <2>4. RegularBars(bars, d) = RegularBars(more, d) \cap 1..n
    BY <1>1, SessionIsKept
  <2> QED BY <2>3, <2>4
<1>5. DaysBefore(more, day) = DaysBefore(bars, day)
  <2>1. ASSUME NEW d \in DaysBefore(more, day) PROVE d \in DaysBefore(bars, day)
    <3>1. d \in DaysOf(more) /\ d < day /\ RegularBars(more, d) # {}
      BY <2>1 DEF DaysBefore
    <3>2. d \in Nat
      BY <1>2, <3>1 DEF DaysOf
    <3>3. PICK j : j \in RegularBars(bars, d)
      BY <1>4, <3>1, <3>2
    <3>4. d \in DaysOf(bars)
      BY <3>3 DEF RegularBars, DaysOf
    <3> QED BY <3>1, <3>3, <3>4 DEF DaysBefore
  <2>2. DaysBefore(bars, day) \subseteq DaysBefore(more, day)
    BY SessionIsKept
  <2> QED BY <2>1, <2>2
<1>6. ASSUME DaysBefore(bars, day) # {}
      PROVE  UsualVolume(more, day) = UsualVolume(bars, day)
  <2>1. PICK d : d = Max(DaysBefore(bars, day)) /\ d \in DaysBefore(bars, day)
    BY <1>6, MoreIs, DaysAre
  <2>2. d \in Nat /\ d < day
    <3>1. Numbers(DaysBefore(bars, day))
      BY MoreIs, DaysAre
    <3> QED BY <2>1, <3>1 DEF Numbers, DaysBefore
  <2>3. RegularBars(more, d) = RegularBars(bars, d)
    BY <1>4, <2>2
  <2> QED BY <1>5, <2>1, <2>3, Zenon DEF UsualVolume
<1> QED BY <1>1, <1>6

\* What a row of a bar shows is a matter of the bars up to it.
LEMMA RowIsKept ==
  ASSUME NEW bars, NEW more, More(bars, more), Ordered(more), NEW i \in 1..Len(bars), NEW curve
  PROVE  /\ RowHigh(more, i) = RowHigh(bars, i)
         /\ DaysBefore(bars, bars[i].day) # {} => Rvol1h(more, i, curve) = Rvol1h(bars, i, curve)
<1>1. PICK n \in Nat : n = Len(bars)
  BY MoreIs
<1>2. /\ DOMAIN bars = 1..n /\ DOMAIN more = 1..(n + 1) /\ \A j \in 1..n : more[j] = bars[j]
      /\ i \in 1..n /\ more[i] = bars[i]
  BY <1>1, MoreIs
<1>3. PICK S : S = {j \in RegularBars(bars, bars[i].day) : j <= i}
  OBVIOUS
<1>4. S = {j \in RegularBars(more, more[i].day) : j <= i}
  <2>1. RegularBars(bars, bars[i].day) = RegularBars(more, bars[i].day) \cap 1..n
    BY <1>1, SessionIsKept
  <2>2. \A j \in RegularBars(more, bars[i].day) : j \in 1..(n + 1)
    BY <1>2 DEF RegularBars
  <2>3. \A j \in 1..(n + 1) : j <= i => j \in 1..n
    BY <1>2
  <2> QED BY <1>2, <1>3, <2>1, <2>2, <2>3
<1>5. RowHigh(more, i) = RowHigh(bars, i)
  <2>1. S \subseteq 1..n
    BY <1>2, <1>3 DEF RegularBars
  <2>2. HighsAt(more, S) = HighsAt(bars, S)
    BY <1>1, <2>1, SessionIsKept
  <2> QED BY <1>3, <1>4, <2>2, Zenon DEF RowHigh
<1>6. ASSUME DaysBefore(bars, bars[i].day) # {}
      PROVE  Rvol1h(more, i, curve) = Rvol1h(bars, i, curve)
  <2>1. UsualVolume(more, bars[i].day) = UsualVolume(bars, bars[i].day)
    BY <1>6, UsualIsKept
  <2> QED BY <1>2, <1>3, <1>4, <2>1, Zenon DEF Rvol1h
<1> QED BY <1>5, <1>6

\* The picks of the screen stay.
LEMMA ScreenStays ==
  ASSUME NEW bars, NEW more, More(bars, more), Ordered(more), NEW aside
  PROVE  SimulateScreen(bars, aside) \subseteq SimulateScreen(more, aside)
<1>1. PICK n \in Nat : n = Len(bars)
  BY MoreIs
<1>2. /\ DOMAIN bars = 1..n /\ DOMAIN more = 1..(n + 1) /\ \A j \in 1..n : more[j] = bars[j]
  BY <1>1, MoreIs
<1>3. PICK curve : curve = aside.curve
  OBVIOUS
<1> DEFINE row(bs, i) == [at |-> i, high |-> RowHigh(bs, i), rvol_1h |-> Rvol1h(bs, i, curve)]
           picked(bs, i) == /\ IsRegularBar(bs[i]) /\ DaysBefore(bs, bs[i].day) # {}
                            /\ bs[i].close >= RowHigh(bs, i) /\ aside.passes
<1>4. ASSUME NEW i \in 1..n, picked(bars, i)
      PROVE  i \in DOMAIN more /\ picked(more, i) /\ row(more, i) = row(bars, i)
  <2>1. more[i] = bars[i] /\ i \in DOMAIN more
    BY <1>2
  <2>2. RowHigh(more, i) = RowHigh(bars, i) /\ Rvol1h(more, i, curve) = Rvol1h(bars, i, curve)
    BY <1>1, <1>4, RowIsKept
  <2>3. DaysBefore(bars, bars[i].day) \subseteq DaysBefore(more, bars[i].day)
    BY SessionIsKept
  <2>4. picked(more, i)
    BY <1>4, <2>1, <2>2, <2>3
  <2>5. row(more, i) = row(bars, i)
    BY <2>2, Zenon
  <2> QED BY <2>1, <2>4, <2>5, Zenon
<1>5. SimulateScreen(bars, aside) = {row(bars, i) : i \in {j \in DOMAIN bars : picked(bars, j)}}
  BY <1>3, Zenon DEF SimulateScreen
<1>6. SimulateScreen(more, aside) = {row(more, i) : i \in {j \in DOMAIN more : picked(more, j)}}
  BY <1>3, Zenon DEF SimulateScreen
<1> HIDE DEF row, picked
<1> QED BY <1>2, <1>4, <1>5, <1>6

\* Observed(bars, day, i): the bar can be compared, and its outcome measured.
Observed(bars, day, i) ==
  /\ i \in RegularBars(bars, day) /\ DaysBefore(bars, day) # {}
  /\ \E later \in RegularBars(bars, day) : later > i
Observation(bars, day, curve, i) ==
  [at |-> i, volume |-> Cardinality({j \in RegularBars(bars, day) : j <= i}),
   usual |-> UsualVolume(bars, day), fraction |-> FractionAt(curve, bars[i].slot)]

\* What is observed of a day, bar by bar.
LEMMA ObserveIs ==
  ASSUME NEW bars, NEW day, NEW curve, NEW r
  PROVE  r \in ObserveRvol(bars, day, curve) <=>
           \E i : Observed(bars, day, i) /\ r = Observation(bars, day, curve, i)
BY Zenon DEF ObserveRvol, Observed, Observation

\* What is observed stays, and what is new was the last bar of its day.
LEMMA ObservedStays ==
  ASSUME NEW bars, NEW more, More(bars, more), Ordered(more), NEW day, NEW curve, NEW i
  PROVE  /\ Observed(bars, day, i) =>
              Observed(more, day, i) /\ Observation(more, day, curve, i) = Observation(bars, day, curve, i)
         /\ Observed(more, day, i) /\ ~Observed(bars, day, i) /\ DaysBefore(bars, day) # {} =>
              i \in Nat /\ \A j \in RegularBars(bars, day) : j <= i
<1>1. PICK n \in Nat : n = Len(bars)
  BY MoreIs
<1>2. /\ DOMAIN bars = 1..n /\ DOMAIN more = 1..(n + 1) /\ \A j \in 1..n : more[j] = bars[j]
  BY <1>1, MoreIs
<1>3. PICK A : A = RegularBars(bars, day)
  OBVIOUS
<1>4. PICK B : B = RegularBars(more, day)
  OBVIOUS
<1>a. A \subseteq 1..n /\ \A j \in A : bars[j].day = day
  BY <1>2, <1>3 DEF RegularBars
<1>b. B \subseteq 1..(n + 1)
  BY <1>2, <1>4 DEF RegularBars
<1>5. A = B \cap 1..n
  BY <1>1, <1>3, <1>4, <1>a, SessionIsKept
<1>6. DaysBefore(bars, day) \subseteq DaysBefore(more, day)
  BY SessionIsKept
<1>7. ASSUME Observed(bars, day, i)
      PROVE  Observed(more, day, i) /\ Observation(more, day, curve, i) = Observation(bars, day, curve, i)
  <2>1. i \in A /\ DaysBefore(bars, day) # {} /\ \E later \in A : later > i
    BY <1>3, <1>7 DEF Observed
  <2>2. Observed(more, day, i)
    BY <1>4, <1>5, <1>6, <2>1 DEF Observed
  <2>3. {j \in B : j <= i} = {j \in A : j <= i}
    <3>1. \A j \in B : j <= i => j \in 1..n
      BY <1>3, <1>4, <1>a, <1>b, <2>1
    <3> QED BY <1>5, <3>1
  <2>4. UsualVolume(more, day) = UsualVolume(bars, day)
    <3>1. i \in 1..Len(bars) /\ bars[i].day = day
      BY <1>1, <1>3, <1>a, <2>1
    <3> QED BY <2>1, <3>1, UsualIsKept
  <2>5. Observation(more, day, curve, i) = Observation(bars, day, curve, i)
    <3>1. more[i] = bars[i]
      BY <1>2, <1>a, <2>1
    <3> QED BY <1>3, <1>4, <2>3, <2>4, <3>1, Zenon DEF Observation
  <2> QED BY <2>2, <2>5
<1>8. ASSUME Observed(more, day, i), ~Observed(bars, day, i), DaysBefore(bars, day) # {}
      PROVE  i \in Nat /\ \A j \in A : j <= i
  <2>1. i \in B /\ \E later \in B : later > i
    BY <1>4, <1>8 DEF Observed
  <2>2. i \in 1..n
    BY <1>b, <2>1
  <2>3. ~ \E later \in A : later > i
    BY <1>3, <1>5, <1>8, <2>1, <2>2 DEF Observed
  <2> QED BY <1>3, <1>a, <2>2, <2>3
<1> QED BY <1>3, <1>7, <1>8

\* First(bars, day, curve, definition, r): the first that crosses on a day.
First(bars, day, curve, definition, r) ==
  /\ r \in ObserveRvol(bars, day, curve) /\ CrossesRvol(r, definition)
  /\ \A s \in ObserveRvol(bars, day, curve) : CrossesRvol(s, definition) => r.at <= s.at

\* The crossings that are first on their day.
LEMMA FirstIs ==
  ASSUME NEW bars, NEW curve, NEW definition, NEW r
  PROVE  r \in FirstCrossings(bars, curve, definition) <=>
           \E day \in DaysOf(bars) : First(bars, day, curve, definition, r)
BY DEF FirstCrossings, First

\* The first crossing of a day stays the first.
LEMMA CrossingsStay ==
  ASSUME NEW bars, NEW more, More(bars, more), Ordered(more), NEW curve, NEW definition
  PROVE  FirstCrossings(bars, curve, definition) \subseteq FirstCrossings(more, curve, definition)
<1>1. ASSUME NEW day \in DaysOf(bars), NEW r, First(bars, day, curve, definition, r)
      PROVE  First(more, day, curve, definition, r)
  <2>1. PICK i : Observed(bars, day, i) /\ r = Observation(bars, day, curve, i)
    BY <1>1, ObserveIs DEF First
  <2>2. Observed(more, day, i) /\ r = Observation(more, day, curve, i)
    BY <2>1, ObservedStays
  <2>3. r \in ObserveRvol(more, day, curve)
    BY <2>2, ObserveIs
  <2>4. ASSUME NEW s \in ObserveRvol(more, day, curve), CrossesRvol(s, definition)
        PROVE  r.at <= s.at
    <3>1. PICK j : Observed(more, day, j) /\ s = Observation(more, day, curve, j)
      BY <2>4, ObserveIs
    <3>2. CASE Observed(bars, day, j)
      <4>1. s = Observation(bars, day, curve, j)
        BY <3>1, <3>2, ObservedStays
      <4>2. s \in ObserveRvol(bars, day, curve)
        BY <3>2, <4>1, ObserveIs
      <4> QED BY <1>1, <2>4, <4>2 DEF First
    <3>3. CASE ~Observed(bars, day, j)
      <4>1. DaysBefore(bars, day) # {} /\ i \in RegularBars(bars, day)
        BY <2>1 DEF Observed
      <4>2. i <= j
        BY <3>1, <3>3, <4>1, ObservedStays
      <4>3. r.at = i /\ s.at = j
        BY <2>1, <3>1 DEF Observation
      <4> QED BY <4>2, <4>3
    <3> QED BY <3>2, <3>3
  <2>5. CrossesRvol(r, definition)
    BY <1>1 DEF First
  <2> QED BY <2>3, <2>4, <2>5 DEF First
<1>2. DaysOf(bars) \subseteq DaysOf(more)
  BY SessionIsKept
<1>3. ASSUME NEW r \in FirstCrossings(bars, curve, definition)
      PROVE  r \in FirstCrossings(more, curve, definition)
  <2>1. PICK day \in DaysOf(bars) : First(bars, day, curve, definition, r)
    BY <1>3, FirstIs
  <2> QED BY <1>1, <1>2, <2>1, FirstIs
<1> QED BY <1>3

\* One bar more takes no entry away.
LEMMA EntriesGrow ==
  ASSUME NEW bars, NEW more, More(bars, more), Ordered(more)
  PROVE  /\ Entries(bars) \subseteq Entries(more)
         /\ \A aside \in Asides : AidedEntries(bars, aside) \subseteq AidedEntries(more, aside)
<1>1. Entries(bars) \subseteq Entries(more)
  <2>1. \A rule \in Rules : SimulateStrategy(bars, rule) \subseteq SimulateStrategy(more, rule)
    BY StrategyStays
  <2>2. SimulateMomentumAlerts(bars) \subseteq SimulateMomentumAlerts(more)
    BY MomentumStays
  <2>3. ASSUME NEW rule \in Rules, NEW p \in SimulateStrategy(bars, rule)
        PROVE  p \in SimulateStrategy(more, rule)
    BY <2>1, <2>3
  <2>4. ASSUME NEW e \in UNION {{<<r, p>> : p \in SimulateStrategy(bars, r)} : r \in Rules}
        PROVE  e \in UNION {{<<r, p>> : p \in SimulateStrategy(more, r)} : r \in Rules}
    <3>1. PICK r \in Rules : e \in {<<r, p>> : p \in SimulateStrategy(bars, r)}
      BY <2>4
    <3>2. PICK p \in SimulateStrategy(bars, r) : e = <<r, p>>
      BY <3>1
    <3>3. e \in {<<r, q>> : q \in SimulateStrategy(more, r)}
      BY <2>3, <3>2
    <3> QED BY <3>3
  <2>5. {<<"momentum", p>> : p \in SimulateMomentumAlerts(bars)}
        \subseteq {<<"momentum", p>> : p \in SimulateMomentumAlerts(more)}
    BY <2>2
  <2> QED BY <2>4, <2>5 DEF Entries
<1>2. ASSUME NEW aside PROVE AidedEntries(bars, aside) \subseteq AidedEntries(more, aside)
  <2>1. SimulateScreen(bars, aside) \subseteq SimulateScreen(more, aside)
    BY ScreenStays
  <2>2. \A d \in Definitions :
          FirstCrossings(bars, aside.curve, d) \subseteq FirstCrossings(more, aside.curve, d)
    BY CrossingsStay
  <2> QED BY <2>1, <2>2 DEF AidedEntries
<1> QED BY <1>1, <1>2

-----------------------------------------------------------------------------
(* The tape.                                                               *)

\* The bars on the tape are of one time after the other, and stamped with a day.
TapeInv == tape \in Seq(TapeBar) /\ Ordered(tape) /\ \A i \in DOMAIN tape : tape[i].day # 0

\* A bar that closes is one bar more, in order.
LEMMA BarAppends ==
  ASSUME TapeInv, NEW b \in Prints, BarCloses(b)
  PROVE  More(tape, tape') /\ Ordered(tape') /\ \A i \in DOMAIN tape' : tape'[i].day # 0
<1>1. PICK n \in Nat : n = Len(tape) /\ DOMAIN tape = 1..n
  BY Indices DEF TapeInv
<1>2. b \in TapeBar /\ b.day # 0
  BY WalkAssumption DEF TapeBar
<1>3. b.day \in Nat /\ b.slot \in Nat
  BY <1>2 DEF TapeBar
<1>4. PICK more : more = tape' /\ more = Append(tape, b)
  BY DEF BarCloses
<1>5. /\ more \in Seq(TapeBar) /\ Len(more) = n + 1 /\ more[n + 1] = b
      /\ \A i \in 1..n : more[i] = tape[i]
      /\ DOMAIN more = 1..(n + 1)
  <2>1. PICK bars \in Seq(TapeBar) : bars = tape
    BY DEF TapeInv
  <2> QED BY <1>1, <1>2, <1>4, <2>1, AppendIs
<1>6. More(tape, more)
  BY <1>1, <1>5 DEF More, TapeInv
<1>7. ASSUME NEW i \in 1..n PROVE Before(tape[i], b)
  <2>1. Last(tape) = tape[n] /\ tape # <<>>
    BY <1>1, <1>7 DEF Last
  <2>2. Later(b, tape[n])
    BY <2>1 DEF BarCloses
  <2>3. n \in 1..n /\ tape[n].day \in Nat /\ tape[n].slot \in Nat /\ tape[i].day \in Nat /\ tape[i].slot \in Nat
    <3>1. tape[n] \in TapeBar /\ tape[i] \in TapeBar /\ n \in 1..n
      BY <1>1, <1>7, Indices DEF TapeInv
    <3> QED BY <3>1 DEF TapeBar
  <2>4. Before(tape[n], b)
    BY <1>3, <2>2, <2>3 DEF Later, Before
  <2>5. i = n \/ Before(tape[i], tape[n])
    BY <1>1, <2>3 DEF TapeInv, Ordered
  <2> QED BY <1>3, <2>3, <2>4, <2>5 DEF Before
<1>8. Ordered(more)
  <2> SUFFICES ASSUME NEW i \in 1..(n + 1), NEW j \in 1..(n + 1), i < j
               PROVE  Before(more[i], more[j])
    BY <1>5 DEF Ordered
  <2>1. CASE j \in 1..n
    BY <1>1, <1>5, <2>1 DEF TapeInv, Ordered
  <2>2. CASE j = n + 1
    BY <1>5, <1>7, <2>2
  <2> QED BY <2>1, <2>2
<1>9. \A i \in DOMAIN more : more[i].day # 0
  BY <1>1, <1>2, <1>5 DEF TapeInv
<1> QED BY <1>4, <1>6, <1>8, <1>9

\* The bars stay in the order of their time.
LEMMA TapeStays == TapeInv /\ [TapeNext]_tape => TapeInv'
<1>1. ASSUME TapeInv, UNCHANGED tape PROVE TapeInv'
  BY <1>1 DEF TapeInv, Ordered, Before
<1>2. ASSUME TapeInv, NEW b \in Prints, BarCloses(b) PROVE TapeInv'
  <2>1. More(tape, tape') /\ Ordered(tape') /\ \A i \in DOMAIN tape' : tape'[i].day # 0
    BY <1>2, BarAppends
  <2> QED BY <2>1 DEF More, TapeInv, Ordered, Before
<1> QED BY <1>1, <1>2 DEF TapeNext

\* The tape begins empty.
LEMMA TapeBegins == TapeInit => TapeInv
<1>1. ASSUME tape = <<>> PROVE TapeInv
  BY <1>1 DEF TapeInv, Ordered
<1> QED BY <1>1 DEF TapeInit

\* No replay looks ahead on its tape: whatever is printed next, for any bars, any
\* number of them and any curve and verdict of the fundamentals held beside it, every
\* entry found so far is found again (levels_as_of, daily_atr, the trailing window,
\* the running high, the first crossing of the day).
THEOREM NoLookAhead == TapeSpec => EntriesStay
<1>1. TapeInv /\ [TapeNext]_tape =>
        [/\ Entries(tape) \subseteq Entries(tape')
         /\ \A aside \in Asides : AidedEntries(tape, aside) \subseteq AidedEntries(tape', aside)]_tape
  <2>1. ASSUME TapeInv, NEW b \in Prints, BarCloses(b)
        PROVE  /\ Entries(tape) \subseteq Entries(tape')
               /\ \A aside \in Asides : AidedEntries(tape, aside) \subseteq AidedEntries(tape', aside)
    BY <2>1, BarAppends, EntriesGrow
  <2> QED BY <2>1 DEF TapeNext
<1> QED BY <1>1, TapeBegins, TapeStays, PTL DEF TapeSpec, EntriesStay

-----------------------------------------------------------------------------
(* The walks beside the live readings.                                     *)

SoFarOf(bars, i) == SubSeq(bars, 1, i)

\* The bars up to one.
LEMMA SoFarIs ==
  ASSUME NEW bars \in Seq(TapeBar), NEW n, n = Len(bars), NEW m \in 0..n
  PROVE  /\ SoFarOf(bars, m) \in Seq(TapeBar) /\ Len(SoFarOf(bars, m)) = m
         /\ DOMAIN SoFarOf(bars, m) = 1..m
         /\ \A j \in 1..m : SoFarOf(bars, m)[j] = bars[j]
         /\ SoFarOf(SoFarOf(bars, m), m) = SoFarOf(bars, m)
<1>1. n \in Nat /\ m \in Nat /\ m \in Int /\ 1 \in Int /\ \A i \in 1..m : bars[i] \in TapeBar
  <2>1. n \in Nat /\ \A i \in 1..n : bars[i] \in TapeBar
    BY Indices
  <2> QED BY <2>1
<1>2. PICK s \in Seq(TapeBar) : s = SubSeq(bars, 1, m)
  BY <1>1, SubSeqProperties
<1>3. Len(s) = m /\ \A i \in 1..m : s[i] = bars[i]
  <2>1. /\ Len(SubSeq(bars, 1, m)) = IF 1 <= m THEN m - 1 + 1 ELSE 0
        /\ \A i \in 1..(m - 1 + 1) : SubSeq(bars, 1, m)[i] = bars[1 + i - 1]
    BY <1>1, SubSeqProperties
  <2> QED BY <1>1, <1>2, <2>1
<1>4. PICK t \in Seq(TapeBar) : t = SubSeq(s, 1, m)
  <2>1. m \in Int /\ 1 \in Int /\ \A i \in 1..m : s[i] \in TapeBar
    BY <1>1, <1>3
  <2> QED BY <2>1, SubSeqProperties
<1>5. Len(t) = m /\ \A i \in 1..m : t[i] = s[i]
  <2>1. \A i \in 1..m : s[i] \in TapeBar
    BY <1>1, <1>3
  <2>2. /\ Len(SubSeq(s, 1, m)) = IF 1 <= m THEN m - 1 + 1 ELSE 0
        /\ \A i \in 1..(m - 1 + 1) : SubSeq(s, 1, m)[i] = s[1 + i - 1]
    BY <1>1, <2>1, SubSeqProperties
  <2> QED BY <1>1, <1>4, <2>2
<1>6. t = s
  BY <1>1, <1>3, <1>5, SeqEqual
<1>7. DOMAIN s = 1..m
  BY <1>3, Indices
<1> QED BY <1>2, <1>3, <1>4, <1>6, <1>7 DEF SoFarOf

\* ... are the bars up to the one before and this one.
LEMMA SoFarGrows ==
  ASSUME NEW bars \in Seq(TapeBar), NEW n, n = Len(bars), NEW i \in 1..n
  PROVE  /\ More(SoFarOf(bars, i - 1), SoFarOf(bars, i))
         /\ Len(SoFarOf(bars, i - 1)) + 1 = i
<1>1. n \in Nat
  BY Indices
<1>2. PICK m \in 0..n : m = i - 1
  BY <1>1
<1>3. i \in 0..n /\ i = m + 1
  BY <1>1, <1>2
<1>4. /\ SoFarOf(bars, m) \in Seq(TapeBar) /\ Len(SoFarOf(bars, m)) = m
      /\ \A j \in 1..m : SoFarOf(bars, m)[j] = bars[j]
  BY SoFarIs
<1>5. /\ SoFarOf(bars, i) \in Seq(TapeBar) /\ Len(SoFarOf(bars, i)) = m + 1
      /\ \A j \in 1..m : SoFarOf(bars, i)[j] = bars[j]
  BY <1>3, SoFarIs
<1> QED BY <1>2, <1>3, <1>4, <1>5 DEF More

UpdateBy == [p \in Vwaps \X TapeBar |-> Update(p[1], p[2])]

\* The model's fold is a fold of this function.
LEMMA SeededIsFold ==
  ASSUME NEW bars \in Seq(TapeBar)
  PROVE  SeededFrom(bars) = FoldBy(UpdateBy, NoPrints, bars)
<1> DEFINE D == DOMAIN bars
           F == UpdateBy
           A == Vwaps
           T == TapeBar
           base == NoPrints
           step(t, b) == Update(t, b)
           Own(h) == h = [s \in SUBSET D |->
                            IF s = {} THEN base ELSE step(h[s \ {Max(s)}], bars[Max(s)])]
<1>1. Numbers(D) /\ IsFiniteSet(D) /\ Typed(bars, D, T) /\ base \in A
  <2>1. Numbers(D) /\ IsFiniteSet(D) /\ Typed(bars, D, T)
    BY Indices DEF Typed
  <2>2. base \in A
    BY DEF NoPrints, Vwaps
  <2> QED BY <2>1, <2>2
<1>2. \A a \in A, x \in T : F[<<a, x>>] = step(a, x)
  BY DEF UpdateBy
<1>s. Stays(F, A, T)
  <2>1. ASSUME NEW a \in A, NEW x \in T PROVE step(a, x) \in A
    BY UpdateStays
  <2> QED BY <1>2, <2>1, Zenon DEF Stays
<1> HIDE DEF A, T
<1>3. PICK g : Folded(g, F, base, bars, D)
  BY <1>1, FoldedExist
<1>4. \A s \in SUBSET D : g[s] \in A
  <2> HIDE DEF base, F, D
  <2> QED BY <1>1, <1>s, <1>3, FoldedIn
<1>5. \A s \in SUBSET D : s # {} => s \ {Max(s)} \in SUBSET D /\ Max(s) \in D
  BY <1>1, FS_Subset, MaxIsIn DEF Numbers
<1>6. Own(g)
  <2>1. ASSUME NEW s \in SUBSET D, s # {}
        PROVE  F[<<g[s \ {Max(s)}], bars[Max(s)]>>] = step(g[s \ {Max(s)}], bars[Max(s)])
    <3>1. g[s \ {Max(s)}] \in A /\ bars[Max(s)] \in T
      BY <1>1, <1>4, <1>5, <2>1 DEF Typed
    <3> QED BY <1>2, <3>1, Zenon
  <2>2. g = [s \in SUBSET D |-> IF s = {} THEN base ELSE F[<<g[s \ {Max(s)}], bars[Max(s)]>>]]
    BY <1>3, Zenon DEF Folded
  <2>3. \A s \in SUBSET D : (IF s = {} THEN base ELSE F[<<g[s \ {Max(s)}], bars[Max(s)]>>])
                            = (IF s = {} THEN base ELSE step(g[s \ {Max(s)}], bars[Max(s)]))
    BY <2>1, Zenon
  <2> HIDE DEF F, base, step, D
  <2>4. [s \in SUBSET D |-> IF s = {} THEN base ELSE F[<<g[s \ {Max(s)}], bars[Max(s)]>>]]
        = [s \in SUBSET D |-> IF s = {} THEN base ELSE step(g[s \ {Max(s)}], bars[Max(s)])]
    BY <2>3
  <2> QED BY <2>2, <2>4, Zenon
<1> DEFINE h == CHOOSE h : Own(h)
<1>7. Own(h)
  BY <1>6, Zenon
<1>8. SeededFrom(bars) = h[D]
  BY Zenon DEF SeededFrom, FoldLeft, MapThenFoldSet
<1> HIDE DEF h
<1>9. TakesSteps(h, F, A, base, bars, D)
  <2>1. ASSUME NEW s \in SUBSET D
        PROVE  h[s] = IF s = {} THEN base ELSE step(h[s \ {Max(s)}], bars[Max(s)])
    BY <1>7, Zenon
  <2>2. h[{}] = base
    <3>1. {} \in SUBSET D
      OBVIOUS
    <3> QED BY <2>1, <3>1, Zenon
  <2>3. ASSUME NEW s \in SUBSET D, s # {}, h[s \ {Max(s)}] \in A
        PROVE  h[s] = F[<<h[s \ {Max(s)}], bars[Max(s)]>>]
    <3>1. bars[Max(s)] \in T
      BY <1>1, <1>5, <2>3 DEF Typed
    <3>2. h[s] = step(h[s \ {Max(s)}], bars[Max(s)])
      BY <2>1, <2>3, Zenon
    <3> QED BY <1>2, <2>3, <3>1, <3>2, Zenon
  <2> QED BY <2>2, <2>3 DEF TakesSteps
<1>10. FoldBy(F, base, bars) = h[D]
  <2> HIDE DEF F, base
  <2> QED BY <1>1, <1>s, <1>9, FoldBySteps
<1> QED BY <1>8, <1>10, Zenon

\* The average of one bar more is updated with it.
LEMMA SeededIs ==
  /\ SeededFrom(<<>>) = NoPrints
  /\ \A bars, more : More(bars, more) =>
       SeededFrom(more) = Update(SeededFrom(bars), more[Len(bars) + 1])
<1>1. SeededFrom(<<>>) = NoPrints
  <2>1. <<>> \in Seq(TapeBar)
    OBVIOUS
  <2>2. SeededFrom(<<>>) = FoldBy(UpdateBy, NoPrints, <<>>)
    BY <2>1, SeededIsFold
  <2> QED BY <2>2, FoldByNothing
<1>2. ASSUME NEW bars, NEW more, More(bars, more)
      PROVE  SeededFrom(more) = Update(SeededFrom(bars), more[Len(bars) + 1])
  <2>1. PICK n \in Nat : n = Len(bars)
    BY <1>2, MoreIs
  <2>2. PICK x \in TapeBar : x = more[n + 1]
    <3>1. more \in Seq(TapeBar) /\ n + 1 \in DOMAIN more
      BY <1>2, <2>1, MoreIs
    <3> QED BY <3>1, Indices
  <2>3. bars \in Seq(TapeBar) /\ more \in Seq(TapeBar) /\ Len(more) = n + 1
        /\ \A i \in 1..n : more[i] = bars[i]
    BY <1>2, <2>1, MoreIs
  <2>4. PICK apart : apart = Append(bars, x)
    OBVIOUS
  <2>5. apart \in Seq(TapeBar) /\ Len(apart) = n + 1 /\ apart[n + 1] = x /\ \A i \in 1..n : apart[i] = bars[i]
    BY <2>1, <2>3, <2>4, AppendIs
  <2>6. \A i \in 1..(n + 1) : apart[i] = more[i]
    BY <2>1, <2>2, <2>3, <2>5
  <2>7. apart = more
    BY <2>1, <2>3, <2>5, <2>6, SeqEqual
  <2>8. FoldBy(UpdateBy, NoPrints, apart) = UpdateBy[<<FoldBy(UpdateBy, NoPrints, bars), x>>]
    BY <2>3, <2>4, FoldByAppend
  <2>9. SeededFrom(more) = UpdateBy[<<SeededFrom(bars), x>>]
    BY <2>3, <2>7, <2>8, SeededIsFold
  <2>10. SeededFrom(bars) \in Vwaps
    <3>1. PICK F : F = UpdateBy
      OBVIOUS
    <3>2. \A a \in Vwaps, b \in TapeBar : F[<<a, b>>] \in Vwaps
      BY <3>1, UpdateStays DEF UpdateBy
    <3>3. Counts(bars, n) /\ \A i \in 1..n : bars[i] \in TapeBar
      BY <2>1, <2>3, Indices DEF Counts
    <3>4. NoPrints \in Vwaps
      BY DEF NoPrints, Vwaps
    <3>5. PICK base \in Vwaps : base = NoPrints
      BY <3>4
    <3>6. FoldBy(F, base, bars) \in Vwaps
      BY <3>2, <3>3, FoldByIn
    <3> QED BY <2>3, <3>1, <3>5, <3>6, SeededIsFold
  <2>11. UpdateBy[<<SeededFrom(bars), x>>] = Update(SeededFrom(bars), x)
    BY <2>10 DEF UpdateBy
  <2> QED BY <2>1, <2>2, <2>9, <2>11
<1> QED BY <1>1, <1>2

-----------------------------------------------------------------------------
(* The strategies beside the live walk.                                    *)

\* What the days before one are measured by does not change with a bar of it.
LEMMA AtrIsKept ==
  ASSUME NEW bars, NEW more, More(bars, more), NEW day, ~(more[Len(bars) + 1].day < day)
  PROVE  DailyAtr(more, day) = DailyAtr(bars, day)
<1>1. PICK n \in Nat : n = Len(bars)
  BY MoreIs
<1>2. /\ DOMAIN bars = 1..n /\ DOMAIN more = 1..(n + 1) /\ \A j \in 1..n : more[j] = bars[j]
      /\ \A j \in 1..(n + 1) : j = n + 1 \/ j \in 1..n
      /\ \A j \in 1..n : j \in 1..(n + 1)
  BY <1>1, MoreIs
<1> DEFINE Past(x) == x.day < day /\ InHours(x)
<1>3. PICK E : E = {j \in 1..n : Past(bars[j])}
  OBVIOUS
<1>4. {j \in 1..(n + 1) : Past(more[j])} = E
  BY <1>1, <1>2, <1>3, Zenon
<1>5. \A j \in E : more[j] = bars[j]
  BY <1>2, <1>3
<1>6. EarlierBars(bars, day) = {bars[i] : i \in E}
  BY <1>2, <1>3, Zenon DEF EarlierBars
<1>7. EarlierBars(more, day) = {more[i] : i \in E}
  BY <1>2, <1>4, Zenon DEF EarlierBars
<1>8. {more[i] : i \in E} = {bars[i] : i \in E}
  BY <1>5
<1> QED BY <1>6, <1>7, <1>8, Zenon DEF DailyAtr

\* FixedLevels(bars, day): the levels a replay of these bars fixes on a day.
FirstOf(bars, day) == Min({i \in DOMAIN bars : bars[i].day = day})
FixedLevels(bars, day) == MorningLevels(SubSeq(bars, 1, FirstOf(bars, day) - 1), day)

\* A bar whose day is not that of the one before is the first of its day.
LEMMA FirstIsNew ==
  ASSUME NEW bars \in Seq(TapeBar), Ordered(bars), NEW n, n = Len(bars), NEW i \in 1..n,
         i > 1 => bars[i].day # bars[i - 1].day
  PROVE  FirstOf(bars, bars[i].day) = i
<1>1. n \in Nat /\ DOMAIN bars = 1..n /\ \A j \in 1..n : bars[j] \in TapeBar
  BY Indices
<1>2. \A j \in 1..n : bars[j].day \in Nat
  BY <1>1 DEF TapeBar
<1>3. PICK S : S = {j \in DOMAIN bars : bars[j].day = bars[i].day}
  OBVIOUS
<1>4. i \in S /\ S \subseteq 1..n
  BY <1>1, <1>3
<1>5. ASSUME NEW j \in S, j < i PROVE FALSE
  <2>1. j \in 1..n /\ bars[j].day = bars[i].day /\ i > 1
    BY <1>3, <1>4, <1>5
  <2>2. PICK m \in 1..n : m = i - 1 /\ j <= m /\ m < i
    BY <1>1, <1>5, <2>1
  <2>3. PICK d \in Nat, e \in Nat : d = bars[i].day /\ e = bars[m].day
    BY <1>2, <2>2
  <2>4. e # d
    BY <2>1, <2>2, <2>3
  <2>5. e < d
    BY <1>1, <2>2, <2>3, <2>4 DEF Ordered, Before
  <2>6. j = m \/ d <= e
    BY <1>1, <2>1, <2>2, <2>3 DEF Ordered, Before
  <2> QED BY <2>1, <2>3, <2>5, <2>6
<1>6. \A j \in S : i <= j
  BY <1>4, <1>5
<1>7. Min(S) = i
  <2>1. Min(S) \in S /\ \A y \in S : Min(S) <= y
    BY <1>4, <1>6, Zenon DEF Min
  <2>2. Min(S) \in 1..n
    BY <1>4, <2>1
  <2> QED BY <1>4, <1>6, <2>1, <2>2
<1> QED BY <1>3, <1>7 DEF FirstOf

\* What the live walk shows at the last of the bars up to one.
LiveAt(bars, i, rule) == WalkLatestSession(SoFarOf(bars, i), FixedLevels(bars, bars[i].day), rule)[i]

\* ... is the rule asked about that bar, of the bars up to it.
LEMMA LiveIs ==
  ASSUME NEW bars \in Seq(TapeBar), NEW n, n = Len(bars), NEW i \in 1..n, NEW rule
  PROVE  LiveAt(bars, i, rule) =
           Evaluate(bars, i, SeededFrom(SoFarOf(bars, i)), FixedLevels(bars, bars[i].day),
                    DailyAtr(SoFarOf(bars, i), bars[i].day), rule)
<1>1. n \in Nat /\ i \in 0..n /\ i \in 1..i /\ i \in Nat /\ i > 0
  <2>1. n \in Nat
    BY Indices
  <2> QED BY <2>1
<1>2. PICK s \in Seq(TapeBar) : s = SoFarOf(bars, i)
  BY <1>1, SoFarIs
<1>3. Len(s) = i /\ DOMAIN s = 1..i /\ \A j \in 1..i : s[j] = bars[j]
  BY <1>1, <1>2, SoFarIs
<1>4. SubSeq(s, 1, i) = s
  BY <1>1, <1>2, SoFarIs DEF SoFarOf
<1>5. Last(s) = bars[i] /\ s[i] = bars[i]
  BY <1>1, <1>3 DEF Last
<1>6. PICK today : today = bars[i].day
  OBVIOUS
<1>7. PICK levels : levels = FixedLevels(bars, today)
  OBVIOUS
<1>8. PICK atr : atr = DailyAtr(s, today)
  OBVIOUS
<1>9. WalkLatestSession(s, levels, rule) =
        [k \in {j \in DOMAIN s : s[j].day = today} |->
           Evaluate(s, k, SeededFrom(SubSeq(s, 1, k)), levels, atr, rule)]
  BY <1>5, <1>6, <1>8, Zenon DEF WalkLatestSession
<1>10. i \in {j \in DOMAIN s : s[j].day = today}
  BY <1>1, <1>3, <1>5, <1>6
<1>11. WalkLatestSession(s, levels, rule)[i] = Evaluate(s, i, SeededFrom(SubSeq(s, 1, i)), levels, atr, rule)
  BY <1>9, <1>10, Zenon
<1>12. PICK v : v = SeededFrom(s)
  OBVIOUS
<1>13. Evaluate(bars, i, v, levels, atr, rule) = Evaluate(s, i, v, levels, atr, rule)
  <2>1. \A j \in 1..i : j \in DOMAIN s /\ bars[j] = s[j]
    BY <1>3
  <2> QED BY <1>1, <2>1, EvaluateIsKept
<1> QED BY <1>2, <1>4, <1>6, <1>7, <1>8, <1>11, <1>12, <1>13, Zenon DEF LiveAt

\* Days on the tape are not the day a walk begins with.
Stamped(bars) == \A i \in DOMAIN bars : bars[i].day # 0

\* Beside(a, bars, i, rule): a walk after i bars knows what the live side does.
Beside(a, bars, i, rule) ==
  /\ a.vwap = SeededFrom(SoFarOf(bars, i))
  /\ i = 0 => a.day = 0 /\ ~a.active
  /\ i # 0 => /\ a.day = bars[i].day
              /\ a.levels = FixedLevels(bars, bars[i].day)
              /\ a.atr = DailyAtr(SoFarOf(bars, i), bars[i].day)
              /\ a.active <=> LiveAt(bars, i, rule) # NoSignal

\* At the next bar it reads what the live side reads.
LEMMA BesideSignal ==
  ASSUME NEW bars \in Seq(TapeBar), Ordered(bars), Stamped(bars), NEW n, n = Len(bars), NEW i \in 1..n,
         NEW rule, NEW a, Beside(a, bars, i - 1, rule)
  PROVE  /\ Update(a.vwap, bars[i]) = SeededFrom(SoFarOf(bars, i))
         /\ LevelsAt(bars, a, i) = FixedLevels(bars, bars[i].day)
         /\ AtrAt(bars, a, i) = DailyAtr(SoFarOf(bars, i), bars[i].day)
         /\ SignalAt(bars, a, i, rule) = LiveAt(bars, i, rule)
<1>1. n \in Nat /\ DOMAIN bars = 1..n /\ bars[i] \in TapeBar
  BY Indices
<1>2. PICK m \in 0..n : m = i - 1 /\ i = m + 1
  BY <1>1
<1>3. PICK s : s = SoFarOf(bars, m)
  OBVIOUS
<1>4. PICK t : t = SoFarOf(bars, i)
  OBVIOUS
<1>5. More(s, t) /\ Len(s) + 1 = i
  BY <1>2, <1>3, <1>4, SoFarGrows
<1>6. t[i] = bars[i]
  <2>1. i \in 0..n /\ i \in 1..i
    BY <1>1
  <2> QED BY <1>4, <2>1, SoFarIs
<1>7. SeededFrom(t) = Update(SeededFrom(s), bars[i])
  BY <1>5, <1>6, SeededIs
<1>8. Beside(a, bars, m, rule)
  BY <1>2
<1>9. Update(a.vwap, bars[i]) = SeededFrom(t)
  BY <1>3, <1>7, <1>8 DEF Beside
<1>10. PICK day \in Nat : day = bars[i].day
  BY <1>1 DEF TapeBar
<1>11. DailyAtr(t, day) = DailyAtr(s, day)
  <2>1. ~(t[Len(s) + 1].day < day)
    BY <1>5, <1>6, <1>10
  <2> QED BY <1>5, <2>1, AtrIsKept
<1>12. BarsBefore(bars, i) = s
  BY <1>2, <1>3 DEF SoFarOf, BarsBefore
<1>13. LevelsAt(bars, a, i) = FixedLevels(bars, day) /\ AtrAt(bars, a, i) = DailyAtr(t, day)
  <2>1. CASE day # a.day
    <3>1. NewSession(a, bars[i])
      BY <1>10, <2>1 DEF NewSession
    <3>2. i > 1 => bars[i].day # bars[i - 1].day
      <4>1. ASSUME i > 1 PROVE bars[m].day = a.day
        <5>1. m # 0
          BY <1>2, <4>1
        <5> QED BY <1>8, <5>1 DEF Beside
      <4> QED BY <1>2, <1>10, <2>1, <4>1
    <3>3. FirstOf(bars, bars[i].day) = i
      BY <3>2, FirstIsNew
    <3>4. FixedLevels(bars, day) = MorningLevels(BarsBefore(bars, i), day)
      BY <1>10, <3>3, Zenon DEF FixedLevels, BarsBefore
    <3>5. LevelsAt(bars, a, i) = MorningLevels(BarsBefore(bars, i), day)
      BY <1>10, <3>1, Zenon DEF LevelsAt
    <3>6. AtrAt(bars, a, i) = DailyAtr(s, day)
      BY <1>10, <1>12, <3>1, Zenon DEF AtrAt
    <3> QED BY <1>11, <3>4, <3>5, <3>6
  <2>2. CASE day = a.day
    <3>1. ~NewSession(a, bars[i])
      BY <1>10, <2>2 DEF NewSession
    <3>2. m # 0
      BY <1>1, <1>8, <1>10, <2>2 DEF Beside, Stamped
    <3>3. a.levels = FixedLevels(bars, day) /\ a.atr = DailyAtr(s, day)
      BY <1>3, <1>8, <2>2, <3>2 DEF Beside
    <3>4. LevelsAt(bars, a, i) = a.levels /\ AtrAt(bars, a, i) = a.atr
      BY <3>1, Zenon DEF LevelsAt, AtrAt
    <3> QED BY <1>11, <3>3, <3>4
  <2> QED BY <2>1, <2>2
<1>14. SignalAt(bars, a, i, rule) = LiveAt(bars, i, rule)
  <2>1. LiveAt(bars, i, rule) =
          Evaluate(bars, i, SeededFrom(t), FixedLevels(bars, day), DailyAtr(t, day), rule)
    BY <1>4, <1>10, LiveIs
  <2> QED BY <1>9, <1>13, <2>1, Zenon DEF SignalAt
<1> QED BY <1>4, <1>9, <1>10, <1>13, <1>14

\* ... and is a walk beside the live side again.
LEMMA BesideStays ==
  ASSUME NEW bars \in Seq(TapeBar), Ordered(bars), Stamped(bars), NEW n, n = Len(bars), NEW i \in 1..n,
         NEW rule, NEW a, Beside(a, bars, i - 1, rule)
  PROVE  Beside(StrategyBar(bars, a, i, rule), bars, i, rule)
<1>1. PICK x : x = StrategyBar(bars, a, i, rule)
  OBVIOUS
<1>2. /\ x.vwap = Update(a.vwap, bars[i]) /\ x.levels = LevelsAt(bars, a, i)
      /\ x.atr = AtrAt(bars, a, i) /\ x.day = bars[i].day
      /\ x.active = (SignalAt(bars, a, i, rule) # NoSignal)
  BY <1>1, StrategyBarIs
<1>3. n \in Nat /\ i # 0
  <2>1. n \in Nat
    BY Indices
  <2> QED BY <2>1
<1>4. /\ x.vwap = SeededFrom(SoFarOf(bars, i))
      /\ x.levels = FixedLevels(bars, bars[i].day)
      /\ x.atr = DailyAtr(SoFarOf(bars, i), bars[i].day)
      /\ x.active = (LiveAt(bars, i, rule) # NoSignal)
  BY <1>2, BesideSignal
<1> QED BY <1>1, <1>2, <1>3, <1>4, Zenon DEF Beside

\* The picks of a walk, bar by bar.
PicksTo(h, bars, m, rule) ==
  {[at |-> i, signal |-> SignalAt(bars, h[i - 1], i, rule)] :
     i \in {j \in 1..m : PickedAt(bars, h[j - 1], j, rule)}}

\* ... are what the backtest answers.
LEMMA PicksAre ==
  ASSUME NEW bars \in Seq(TapeBar), NEW rule, NEW h, WalksBars(h, bars, rule), NEW n, n = Len(bars)
  PROVE  SimulateStrategy(bars, rule) = PicksTo(h, bars, n, rule)
<1>1. n \in Nat
  BY Indices
<1>2. /\ h[0] = NoWalk /\ SimulateStrategy(bars, rule) = h[n].picks
      /\ \A i \in 1..n : h[i] = StrategyBar(bars, h[i - 1], i, rule)
  BY Zenon DEF WalksBars
<1> DEFINE P == {m \in 0..n : h[m].picks = PicksTo(h, bars, m, rule)}
<1>3. 0 \in P
  <2>1. 1..0 = {}
    OBVIOUS
  <2>2. PicksTo(h, bars, 0, rule) = {}
    BY <2>1 DEF PicksTo
  <2>3. h[0].picks = {}
    BY <1>2 DEF NoWalk
  <2>4. h[0].picks = PicksTo(h, bars, 0, rule)
    BY <2>2, <2>3
  <2>5. 0 \in 0..n
    BY <1>1
  <2> QED BY <2>4, <2>5, Zenon
<1>4. ASSUME NEW i \in 1..n, i - 1 \in P
      PROVE  i \in P
  <2>1. PICK a : a = h[i - 1]
    OBVIOUS
  <2>2. PICK m \in Nat : m = i - 1
    OBVIOUS
  <2>3. PICK x : x = StrategyBar(bars, a, i, rule)
    OBVIOUS
  <2>4. x.picks = a.picks \cup
          IF PickedAt(bars, a, i, rule) THEN {[at |-> i, signal |-> SignalAt(bars, a, i, rule)]} ELSE {}
    BY <2>3, StrategyBarIs
  <2>5. \A j : j \in 1..i <=> j \in 1..m \/ j = i
    BY <2>2
  <2>6. PicksTo(h, bars, i, rule) = PicksTo(h, bars, m, rule) \cup
          IF PickedAt(bars, a, i, rule) THEN {[at |-> i, signal |-> SignalAt(bars, a, i, rule)]} ELSE {}
    <3>1. CASE PickedAt(bars, a, i, rule)
      <4>1. {j \in 1..i : PickedAt(bars, h[j - 1], j, rule)} = {j \in 1..m : PickedAt(bars, h[j - 1], j, rule)} \cup {i}
        BY <2>1, <2>5, <3>1, Zenon
      <4>2. PicksTo(h, bars, i, rule) = PicksTo(h, bars, m, rule) \cup {[at |-> i, signal |-> SignalAt(bars, a, i, rule)]}
        BY <2>1, <4>1, Zenon DEF PicksTo
      <4> QED BY <3>1, <4>2, Zenon
    <3>2. CASE ~PickedAt(bars, a, i, rule)
      <4>1. {j \in 1..i : PickedAt(bars, h[j - 1], j, rule)} = {j \in 1..m : PickedAt(bars, h[j - 1], j, rule)}
        BY <2>1, <2>5, <3>2, Zenon
      <4> QED BY <3>2, <4>1 DEF PicksTo
    <3> QED BY <3>1, <3>2
  <2>7. a.picks = PicksTo(h, bars, m, rule)
    BY <1>4, <2>1, <2>2
  <2>8. h[i] = x
    BY <1>2, <2>1, <2>3
  <2>9. h[i].picks = PicksTo(h, bars, i, rule)
    BY <2>4, <2>6, <2>7, <2>8
  <2>10. i \in 0..n
    BY <1>1
  <2> QED BY <2>9, <2>10, Zenon
<1>5. 0..n \subseteq P
  <2> HIDE DEF P
  <2> QED BY <1>1, <1>3, <1>4, UpTo
<1> QED BY <1>1, <1>2, <1>5

\* LiveEdge(bars, i, rule): the live side turned at a bar that can be followed.
LiveEdge(bars, i, rule) ==
  /\ LiveAt(bars, i, rule) # NoSignal
  /\ ~(i > 1 /\ SameDay(bars[i - 1], bars[i]) /\ LiveAt(bars, i - 1, rule) # NoSignal)
  /\ ForwardSessionBars(bars, i) # {}

\* The two pick the same bars.
LEMMA PickedIsLive ==
  ASSUME NEW bars \in Seq(TapeBar), Ordered(bars), Stamped(bars), NEW n, n = Len(bars), NEW i \in 1..n,
         NEW rule, NEW a, Beside(a, bars, i - 1, rule)
  PROVE  PickedAt(bars, a, i, rule) <=> LiveEdge(bars, i, rule)
<1>1. n \in Nat /\ DOMAIN bars = 1..n
  BY Indices
<1>2. PICK m \in 0..n : m = i - 1 /\ (m # 0 <=> i > 1)
  BY <1>1
<1>3. SignalAt(bars, a, i, rule) = LiveAt(bars, i, rule)
  BY BesideSignal
<1>4. a.active /\ bars[i].day = a.day <=>
        m # 0 /\ SameDay(bars[m], bars[i]) /\ LiveAt(bars, m, rule) # NoSignal
  <2>1. Beside(a, bars, m, rule)
    BY <1>2
  <2>2. CASE m = 0
    BY <2>1, <2>2 DEF Beside
  <2>3. CASE m # 0
    <3>1. a.day = bars[m].day
      BY <2>1, <2>3 DEF Beside
    <3>2. a.active <=> LiveAt(bars, m, rule) # NoSignal
      BY <2>1, <2>3 DEF Beside
    <3>3. SameDay(bars[m], bars[i]) <=> bars[m].day = bars[i].day
      BY DEF SameDay
    <3> QED BY <2>3, <3>1, <3>2, <3>3, Zenon
  <2> QED BY <2>2, <2>3
<1>5. a.active /\ ~NewSession(a, bars[i]) <=> a.active /\ bars[i].day = a.day
  BY Zenon DEF NewSession
<1>6. PickedAt(bars, a, i, rule) <=>
        /\ LiveAt(bars, i, rule) # NoSignal
        /\ ~(m # 0 /\ SameDay(bars[m], bars[i]) /\ LiveAt(bars, m, rule) # NoSignal)
        /\ ForwardSessionBars(bars, i) # {}
  BY <1>3, <1>4, <1>5, Zenon DEF PickedAt
<1>7. LiveEdge(bars, i, rule) <=>
        /\ LiveAt(bars, i, rule) # NoSignal
        /\ ~(m # 0 /\ SameDay(bars[m], bars[i]) /\ LiveAt(bars, m, rule) # NoSignal)
        /\ ForwardSessionBars(bars, i) # {}
  BY <1>2, Zenon DEF LiveEdge
<1> QED BY <1>6, <1>7, Zenon

LiveEntries(bars, rule) ==
  {[at |-> i, signal |-> LiveAt(bars, i, rule)] : i \in {j \in DOMAIN bars : LiveEdge(bars, j, rule)}}

\* Strategies: every day is walked as it was seen.
LEMMA StrategyIsLive ==
  ASSUME NEW bars \in Seq(TapeBar), Ordered(bars), Stamped(bars), NEW rule
  PROVE  SimulateStrategy(bars, rule) = LiveEntries(bars, rule)
<1>1. PICK n \in Nat : n = Len(bars) /\ DOMAIN bars = 1..n
  BY Indices
<1>2. PICK h : WalksBars(h, bars, rule)
  BY WalkExists
<1>3. /\ h[0] = NoWalk
      /\ \A i \in 1..n : h[i] = StrategyBar(bars, h[i - 1], i, rule)
  BY <1>1, <1>2, Zenon DEF WalksBars
<1> DEFINE P == {m \in 0..n : Beside(h[m], bars, m, rule)}
<1>4. 0 \in P
  <2>1. SoFarOf(bars, 0) = <<>>
    BY SubSeqEmpty DEF SoFarOf
  <2>2. Beside(NoWalk, bars, 0, rule)
    BY <2>1, SeededIs DEF Beside, NoWalk
  <2> QED BY <1>3, <2>2
<1>5. ASSUME NEW i \in 1..n, i - 1 \in P
      PROVE  i \in P
  <2>1. Beside(h[i - 1], bars, i - 1, rule)
    BY <1>5
  <2>2. Beside(StrategyBar(bars, h[i - 1], i, rule), bars, i, rule)
    BY <1>1, <2>1, BesideStays
  <2> QED BY <1>3, <2>2
<1>6. 0..n \subseteq P
  <2> HIDE DEF P
  <2> QED BY <1>4, <1>5, UpTo
<1>7. ASSUME NEW i \in 1..n
      PROVE  /\ SignalAt(bars, h[i - 1], i, rule) = LiveAt(bars, i, rule)
             /\ PickedAt(bars, h[i - 1], i, rule) <=> LiveEdge(bars, i, rule)
  <2>1. i - 1 \in 0..n
    OBVIOUS
  <2>2. Beside(h[i - 1], bars, i - 1, rule)
    BY <1>6, <2>1
  <2> QED BY <1>1, <2>2, BesideSignal, PickedIsLive
<1>8. SimulateStrategy(bars, rule) = PicksTo(h, bars, n, rule)
  BY <1>1, <1>2, PicksAre
<1>9. {j \in 1..n : PickedAt(bars, h[j - 1], j, rule)} = {j \in 1..n : LiveEdge(bars, j, rule)}
  BY <1>7
<1>10. PICK picked : picked = {j \in 1..n : LiveEdge(bars, j, rule)} /\ picked \subseteq 1..n
  OBVIOUS
<1>11. PicksTo(h, bars, n, rule) = {[at |-> i, signal |-> SignalAt(bars, h[i - 1], i, rule)] : i \in picked}
  BY <1>9, <1>10, Zenon DEF PicksTo
<1>12. LiveEntries(bars, rule) = {[at |-> i, signal |-> LiveAt(bars, i, rule)] : i \in picked}
  BY <1>1, <1>10, Zenon DEF LiveEntries
<1>13. \A i \in picked : [at |-> i, signal |-> SignalAt(bars, h[i - 1], i, rule)]
                          = [at |-> i, signal |-> LiveAt(bars, i, rule)]
  BY <1>7, <1>10
<1> QED BY <1>8, <1>11, <1>12, <1>13, Zenon

-----------------------------------------------------------------------------
(* The momentum alarm beside the cache.                                    *)

\* Within a day, a bar later on the tape is as many slots later at least.
LEMMA SlotsRise ==
  ASSUME NEW bars \in Seq(TapeBar), Ordered(bars), NEW n, n = Len(bars), NEW i \in 1..n, NEW k \in 1..n,
         i <= k, bars[k].day = bars[i].day
  PROVE  bars[k].slot - bars[i].slot >= k - i
<1>1. n \in Nat /\ DOMAIN bars = 1..n /\ \A j \in 1..n : bars[j] \in TapeBar
  BY Indices
<1>2. \A j \in 1..n : bars[j].day \in Nat /\ bars[j].slot \in Nat
  BY <1>1 DEF TapeBar
<1>3. \A j, l \in 1..n : j < l => Before(bars[j], bars[l])
  BY <1>1 DEF Ordered
<1> DEFINE P == {m \in 0..n : (m >= i /\ bars[m].day = bars[i].day) => bars[m].slot - bars[i].slot >= m - i}
<1>4. 0 \in P
  BY <1>1
<1>5. ASSUME NEW m \in 1..n, m - 1 \in P
      PROVE  m \in P
  <2>1. SUFFICES ASSUME m >= i, bars[m].day = bars[i].day
                 PROVE  bars[m].slot - bars[i].slot >= m - i
    BY <1>1
  <2>2. CASE m = i
    <3>1. bars[i].slot \in Nat
      BY <1>2
    <3> QED BY <2>2, <3>1
  <2>3. CASE m > i
    <3>1. PICK l \in 1..n : l = m - 1 /\ l >= i /\ m = l + 1
      BY <1>1, <2>3
    <3>2. Before(bars[l], bars[m]) /\ (l = i \/ Before(bars[i], bars[l]))
      BY <1>3, <3>1
    <3>3. PICK d \in Nat, s \in Nat, t \in Nat : d = bars[i].day /\ s = bars[l].slot /\ t = bars[m].slot
      BY <1>2
    <3>4. PICK e \in Nat : e = bars[l].day
      BY <1>2
    <3>5. e = d /\ s < t
      <4>1. e < d \/ (e = d /\ s < t)
        BY <2>1, <3>2, <3>3, <3>4 DEF Before
      <4>2. e = d \/ d < e
        BY <3>2, <3>3, <3>4 DEF Before
      <4> QED BY <4>1, <4>2
    <3>6. bars[l].slot - bars[i].slot >= l - i
      BY <1>5, <3>1, <3>3, <3>4, <3>5
    <3>7. PICK z \in Nat : z = bars[i].slot
      BY <1>2
    <3>8. s - z >= l - i
      BY <3>3, <3>6, <3>7
    <3>9. t - z >= l + 1 - i
      BY <3>5, <3>8
    <3> QED BY <3>1, <3>3, <3>7, <3>9
  <2> QED BY <2>1, <2>2, <2>3
<1>6. 0..n \subseteq P
  <2> HIDE DEF P
  <2> QED BY <1>1, <1>4, <1>5, UpTo
<1>7. k \in P
  BY <1>1, <1>6
<1> QED BY <1>7

\* Between two bars of a day there are bars of that day.
LEMMA DaysAreWhole ==
  ASSUME NEW bars \in Seq(TapeBar), Ordered(bars), NEW n, n = Len(bars),
         NEW i \in 1..n, NEW j \in 1..n, NEW k \in 1..n, i <= j, j <= k, bars[i].day = bars[k].day
  PROVE  bars[j].day = bars[k].day
<1>1. DOMAIN bars = 1..n /\ \A m \in 1..n : bars[m] \in TapeBar
  BY Indices
<1>2. PICK d \in Nat, e \in Nat : d = bars[i].day /\ d = bars[k].day /\ e = bars[j].day
  BY <1>1 DEF TapeBar
<1>3. i = j \/ d <= e
  BY <1>1, <1>2 DEF Ordered, Before
<1>4. j = k \/ e <= d
  BY <1>1, <1>2 DEF Ordered, Before
<1> QED BY <1>2, <1>3, <1>4

DayTo(bars, i) == {j \in 1..i : SameDay(bars[j], bars[i])}
BackAWindow(bars, i, among) == {j \in among : bars[j].slot <= bars[i].slot - Window}

\* The last bar a window ago is among the trailing ones.
LEMMA WindowIsTrailing ==
  ASSUME NEW bars \in Seq(TapeBar), Ordered(bars), NEW n, n = Len(bars), NEW i \in 1..n
  PROVE  LET all == BackAWindow(bars, i, DayTo(bars, i))
             few == BackAWindow(bars, i, Trailing(bars, i))
         IN  (all = {} <=> few = {}) /\ (few # {} => Max(all) = Max(few))
<1>1. n \in Nat /\ DOMAIN bars = 1..n /\ \A j \in 1..n : bars[j] \in TapeBar
  BY Indices
<1>2. \A j \in 1..n : bars[j].slot \in Nat
  BY <1>1 DEF TapeBar
<1>3. PICK w \in Nat : w = Window /\ w > 0
  BY WalkAssumption
<1>4. PICK all : all = BackAWindow(bars, i, DayTo(bars, i))
  OBVIOUS
<1>5. PICK few : few = BackAWindow(bars, i, Trailing(bars, i))
  OBVIOUS
<1>6. \A j : j \in all <=> j \in 1..i /\ bars[j].day = bars[i].day /\ bars[j].slot <= bars[i].slot - w
  BY <1>3, <1>4, Zenon DEF BackAWindow, DayTo, SameDay
<1>7. \A j : j \in few <=> /\ j \in 1..n /\ i - 2 * w <= j /\ j <= i
                           /\ bars[j].day = bars[i].day /\ bars[j].slot <= bars[i].slot - w
  <2>1. TrailingBars = 2 * w
    BY <1>3 DEF TrailingBars
  <2> QED BY <1>1, <1>3, <1>5, <2>1, Zenon DEF BackAWindow, Trailing, SameDay
<1>8. \A j : j \in few => j \in all
  <2>1. \A j \in 1..n : j <= i => j \in 1..i
    OBVIOUS
  <2> QED BY <1>6, <1>7, <2>1, Zenon
<1>9. all \subseteq 1..n /\ few \subseteq 1..n
  <2>1. 1..i \subseteq 1..n
    BY <1>1
  <2> QED BY <1>6, <1>7, <2>1
<1>10. Numbers(all) /\ IsFiniteSet(all) /\ Numbers(few) /\ IsFiniteSet(few)
  <2>1. IsFiniteSet(1..n)
    BY <1>1, FS_Interval
  <2>2. \A j \in 1..n : j \in Nat
    OBVIOUS
  <2> QED BY <1>9, <2>1, <2>2, FS_Subset DEF Numbers
<1>11. ASSUME all # {}
       PROVE  Max(all) \in few
  <2>1. Max(all) \in all /\ \A y \in all : Max(all) >= y
    BY <1>10, <1>11, MaxIsIn
  <2>2. PICK m \in 1..n : m = Max(all)
    BY <1>9, <2>1
  <2>3. m \in 1..i /\ bars[m].day = bars[i].day /\ bars[m].slot <= bars[i].slot - w
    BY <1>6, <2>1, <2>2
  <2>4. ASSUME m < i - w
        PROVE  FALSE
    <3>1. PICK k \in 1..n : k = i - w /\ k \in 1..i /\ m < k /\ k < i
      BY <1>1, <1>3, <2>3, <2>4
    <3>2. bars[k].day = bars[i].day
      BY <2>3, <3>1, DaysAreWhole
    <3>3. bars[i].slot - bars[k].slot >= i - k
      BY <3>1, <3>2, SlotsRise
    <3>4. PICK s \in Nat, t \in Nat : s = bars[i].slot /\ t = bars[k].slot
      BY <1>2
    <3>5. bars[k].slot <= bars[i].slot - w
      BY <1>3, <3>1, <3>3, <3>4
    <3>6. k \in all
      BY <1>6, <3>1, <3>2, <3>5
    <3> QED BY <2>1, <2>2, <3>1, <3>6
  <2>5. i - 2 * w <= m /\ m <= i
    BY <1>3, <2>3, <2>4
  <2> QED BY <1>7, <2>2, <2>3, <2>5
<1>12. ASSUME few # {}
       PROVE  Max(all) = Max(few)
  <2>1. all # {}
    BY <1>8, <1>12
  <2>2. Max(all) \in few /\ Max(few) \in few /\ \A y \in few : Max(few) >= y
    BY <1>10, <1>11, <1>12, <2>1, MaxIsIn
  <2>3. Max(few) \in all /\ \A y \in all : Max(all) >= y
    BY <1>8, <1>10, <2>1, <2>2, MaxIsIn
  <2>4. PICK x \in Nat : x = Max(all)
    BY <1>10, <2>2 DEF Numbers
  <2>5. PICK y \in Nat : y = Max(few)
    BY <1>10, <2>2 DEF Numbers
  <2> QED BY <2>2, <2>3, <2>4, <2>5
<1> QED BY <1>4, <1>5, <1>8, <1>11, <1>12, Zenon

\* AlarmAt(bars, i): the alert of the walk's trailing bars, with the average of
\* all bars up to its own.
AlarmAt(bars, i) == Alert(bars, i, Trailing(bars, i), SeededFrom(SoFarOf(bars, i)))

\* ... is that of the cache.
LEMMA AlarmIsLive ==
  ASSUME NEW bars \in Seq(TapeBar), Ordered(bars), NEW n, n = Len(bars), NEW i \in 1..n
  PROVE  LiveAlert(SoFarOf(bars, i)) = AlarmAt(bars, i)
<1>1. n \in Nat /\ DOMAIN bars = 1..n /\ i \in 0..n /\ i \in 1..i
  <2>1. n \in Nat /\ DOMAIN bars = 1..n
    BY Indices
  <2> QED BY <2>1
<1>2. PICK s : s = SoFarOf(bars, i)
  OBVIOUS
<1>3. Len(s) = i /\ \A j \in 1..i : s[j] = bars[j]
  BY <1>1, <1>2, SoFarIs
<1>4. PICK v : v = SeededFrom(s)
  OBVIOUS
<1>5. LiveAlert(s) = Alert(s, i, {j \in 1..i : SameDay(s[j], s[i])}, v)
  BY <1>3, <1>4, Zenon DEF LiveAlert
<1>6. s[i] = bars[i]
  BY <1>1, <1>3
<1>7. {j \in 1..i : SameDay(s[j], s[i])} = DayTo(bars, i)
  BY <1>3, <1>6, Zenon DEF DayTo
<1>8. PICK all : all = BackAWindow(bars, i, DayTo(bars, i))
  OBVIOUS
<1>9. PICK few : few = BackAWindow(bars, i, Trailing(bars, i))
  OBVIOUS
<1>10. (all = {} <=> few = {}) /\ (few # {} => Max(all) = Max(few))
  BY <1>8, <1>9, WindowIsTrailing
<1>11. {j \in DayTo(bars, i) : s[j].slot <= s[i].slot - Window} = all
  <2>1. \A j \in DayTo(bars, i) : s[j] = bars[j]
    BY <1>3 DEF DayTo
  <2> QED BY <1>6, <1>8, <2>1, Zenon DEF BackAWindow
<1>12. all # {} => s[Max(all)] = bars[Max(all)]
  <2>1. all \subseteq 1..i
    BY <1>8 DEF BackAWindow, DayTo
  <2>2. Numbers(all) /\ IsFiniteSet(all)
    <3>1. IsFiniteSet(1..i)
      BY <1>1, FS_Interval
    <3>2. \A j \in 1..i : j \in Nat
      OBVIOUS
    <3> QED BY <2>1, <3>1, <3>2, FS_Subset DEF Numbers
  <2>3. all # {} => Max(all) \in all
    BY <2>2, MaxIsIn
  <2> QED BY <1>3, <2>1, <2>3
<1>13. Moves(s, i, DayTo(bars, i)) <=>
         /\ all # {}
         /\ 100 * (bars[i].close - bars[Max(all)].close) >= MinMove * bars[Max(all)].close
  BY <1>6, <1>11, <1>12, Zenon DEF Moves
<1>14. Moves(bars, i, Trailing(bars, i)) <=>
         /\ few # {}
         /\ 100 * (bars[i].close - bars[Max(few)].close) >= MinMove * bars[Max(few)].close
  BY <1>9, Zenon DEF Moves, BackAWindow
<1>15. Moves(s, i, DayTo(bars, i)) <=> Moves(bars, i, Trailing(bars, i))
  BY <1>10, <1>13, <1>14, Zenon
<1>16. Alert(s, i, DayTo(bars, i), v) = Alert(bars, i, Trailing(bars, i), v)
  BY <1>6, <1>15, Zenon DEF Alert
<1> QED BY <1>2, <1>4, <1>5, <1>7, <1>16, Zenon DEF AlarmAt

\* The first bar of a day raises none.
LEMMA FirstRaisesNone ==
  ASSUME NEW bars \in Seq(TapeBar), Ordered(bars), NEW n, n = Len(bars), NEW i \in 1..n,
         ~SameDay(bars[i - 1], bars[i]), i > 1, NEW v, NEW k \in Kinds
  PROVE  ~Alert(bars, i, Trailing(bars, i), v)[k]
<1>1. n \in Nat /\ DOMAIN bars = 1..n /\ bars[i] \in TapeBar
  BY Indices
<1>2. PICK s \in Nat, w \in Nat : s = bars[i].slot /\ w = Window /\ w > 0
  BY <1>1, WalkAssumption DEF TapeBar
<1>3. ASSUME NEW j \in Trailing(bars, i) PROVE j = i
  <2>1. j \in 1..n /\ j <= i /\ bars[j].day = bars[i].day
    BY <1>1, <1>3 DEF Trailing, SameDay
  <2>2. SUFFICES ASSUME j < i PROVE FALSE
    BY <2>1
  <2>3. PICK l \in 1..n : l = i - 1 /\ j <= l /\ l <= i
    BY <1>1, <2>1, <2>2
  <2>4. bars[l].day = bars[i].day
    BY <2>1, <2>3, DaysAreWhole
  <2> QED BY <2>3, <2>4 DEF SameDay
<1>4. {j \in Trailing(bars, i) : bars[j].slot <= bars[i].slot - Window} = {}
  BY <1>2, <1>3
<1>5. ~Moves(bars, i, Trailing(bars, i))
  BY <1>4, Zenon DEF Moves
<1>6. PICK a : a = Alert(bars, i, Trailing(bars, i), v)
  OBVIOUS
<1>7. ~a.threshold_only /\ ~a.full_alert
  BY <1>5, <1>6 DEF Alert
<1>8. k = "threshold_only" \/ k = "full_alert"
  BY DEF Kinds
<1> QED BY <1>6, <1>7, <1>8

\* AlarmsBeside(a, bars, i): a walk after i bars knows what the cache does.
AlarmsBeside(a, bars, i) ==
  /\ a.vwap = SeededFrom(SoFarOf(bars, i))
  /\ i = 0 => a.active = NoneActive
  /\ i # 0 => a.active = AlarmAt(bars, i)

\* At the next bar it reads what the cache reads, and knows it again.
LEMMA AlarmsBesideStay ==
  ASSUME NEW bars \in Seq(TapeBar), NEW n, n = Len(bars), NEW i \in 1..n,
         NEW a, AlarmsBeside(a, bars, i - 1)
  PROVE  AlertAt(bars, a, i) = AlarmAt(bars, i) /\ AlarmsBeside(MomentumBar(bars, a, i), bars, i)
<1>1. n \in Nat
  BY Indices
<1>2. PICK m \in 0..n : m = i - 1 /\ i = m + 1
  BY <1>1
<1>3. PICK s : s = SoFarOf(bars, m)
  OBVIOUS
<1>4. PICK t : t = SoFarOf(bars, i)
  OBVIOUS
<1>5. More(s, t) /\ Len(s) + 1 = i
  BY <1>2, <1>3, <1>4, SoFarGrows
<1>6. t[i] = bars[i]
  <2>1. i \in 0..n /\ i \in 1..i
    BY <1>1
  <2> QED BY <1>4, <2>1, SoFarIs
<1>7. SeededFrom(t) = Update(SeededFrom(s), bars[i])
  BY <1>5, <1>6, SeededIs
<1>8. Update(a.vwap, bars[i]) = SeededFrom(t)
  BY <1>2, <1>3, <1>7 DEF AlarmsBeside
<1>9. AlertAt(bars, a, i) = AlarmAt(bars, i)
  BY <1>4, <1>8, Zenon DEF AlertAt, AlarmAt
<1>10. PICK x : x = MomentumBar(bars, a, i)
  OBVIOUS
<1>11. x.vwap = Update(a.vwap, bars[i]) /\ x.active = AlertAt(bars, a, i)
  BY <1>10, MomentumBarIs
<1>12. i # 0
  BY <1>1
<1> QED BY <1>4, <1>8, <1>9, <1>10, <1>11, <1>12, Zenon DEF AlarmsBeside

\* CacheEdge(bars, i, k): the cache turned at a bar that can be measured.
CacheEdge(bars, i, k) ==
  /\ AlarmAt(bars, i)[k]
  /\ ~(i > 1 /\ SameDay(bars[i - 1], bars[i]) /\ AlarmAt(bars, i - 1)[k])
  /\ Measurable(bars, i)

\* What a bar adds to the picks of a walk beside the cache.
LEMMA EdgeIsLive ==
  ASSUME NEW bars \in Seq(TapeBar), Ordered(bars), NEW n, n = Len(bars), NEW i \in 1..n,
         NEW a, AlarmsBeside(a, bars, i - 1), NEW k \in Kinds
  PROVE  k \in EdgesAt(bars, a, i) /\ Measurable(bars, i) <=> CacheEdge(bars, i, k)
<1>1. n \in Nat
  BY Indices
<1>2. PICK m \in 0..n : m = i - 1 /\ (m # 0 <=> i > 1)
  BY <1>1
<1>3. AlertAt(bars, a, i) = AlarmAt(bars, i)
  BY AlarmsBesideStay
<1>4. k \in EdgesAt(bars, a, i) <=> AlarmAt(bars, i)[k] /\ ~a.active[k]
  BY <1>3, Zenon DEF EdgesAt
<1>5. m = 0 => ~a.active[k]
  <2>1. NoneActive[k] = FALSE
    BY DEF NoneActive
  <2> QED BY <1>2, <2>1 DEF AlarmsBeside
<1>6. m # 0 => a.active = AlarmAt(bars, m)
  BY <1>2 DEF AlarmsBeside
<1>7. m # 0 /\ ~SameDay(bars[m], bars[i]) => ~AlarmAt(bars, i)[k]
  <2>1. SUFFICES ASSUME m # 0, ~SameDay(bars[i - 1], bars[i]) PROVE ~AlarmAt(bars, i)[k]
    BY <1>2
  <2>2. i > 1
    BY <1>2, <2>1
  <2> QED BY <2>1, <2>2, FirstRaisesNone DEF AlarmAt
<1>8. CacheEdge(bars, i, k) <=>
        /\ AlarmAt(bars, i)[k]
        /\ ~(m # 0 /\ SameDay(bars[m], bars[i]) /\ AlarmAt(bars, m)[k])
        /\ Measurable(bars, i)
  BY <1>2, Zenon DEF CacheEdge
<1> QED BY <1>4, <1>5, <1>6, <1>7, <1>8, Zenon

\* The picks of the alarm, up to a bar.
EdgesTo(bars, m) ==
  UNION {{[at |-> i, kind |-> k] : i \in {j \in 1..m : CacheEdge(bars, j, k)}} : k \in Kinds}

\* ... one by one.
LEMMA EdgesToIs ==
  ASSUME NEW bars, NEW m, NEW p
  PROVE  p \in EdgesTo(bars, m) <=>
           \E k \in Kinds : \E i \in 1..m : CacheEdge(bars, i, k) /\ p = [at |-> i, kind |-> k]
<1> DEFINE of(k) == {[at |-> i, kind |-> k] : i \in {j \in 1..m : CacheEdge(bars, j, k)}}
<1>1. p \in EdgesTo(bars, m) <=> \E k \in Kinds : p \in of(k)
  BY DEF EdgesTo
<1>2. ASSUME NEW k
      PROVE  p \in of(k) <=> \E i \in 1..m : CacheEdge(bars, i, k) /\ p = [at |-> i, kind |-> k]
  BY Zenon
<1> QED BY <1>1, <1>2, Zenon

\* Momentum: every day is walked as it was seen.
LEMMA MomentumIsLive ==
  ASSUME NEW bars \in Seq(TapeBar), Ordered(bars)
  PROVE  SimulateMomentumAlerts(bars) = EdgesTo(bars, LastFollowed(bars))
<1>1. PICK n \in Nat : n = Len(bars) /\ DOMAIN bars = 1..n
  BY Indices
<1>2. PICK l \in 0..n : l = LastFollowed(bars)
  <2>1. PICK f \in Nat : f = Horizon
    BY WalkAssumption
  <2> QED BY <1>1, <2>1 DEF LastFollowed
<1>3. PICK h : AlarmsOver(h, bars)
  BY AlarmsExist
<1>4. /\ h[0] = NoAlarms /\ SimulateMomentumAlerts(bars) = h[l].picks
      /\ \A i \in 1..l : h[i] = MomentumBar(bars, h[i - 1], i)
  BY <1>2, <1>3, Zenon DEF AlarmsOver
<1> DEFINE P == {m \in 0..l : AlarmsBeside(h[m], bars, m) /\ h[m].picks = EdgesTo(bars, m)}
<1>5. 0 \in P
  <2>1. SoFarOf(bars, 0) = <<>>
    BY SubSeqEmpty DEF SoFarOf
  <2>2. AlarmsBeside(NoAlarms, bars, 0)
    BY <2>1, SeededIs DEF AlarmsBeside, NoAlarms, NoneActive
  <2>3. EdgesTo(bars, 0) = {}
    <3>1. 1..0 = {}
      OBVIOUS
    <3> QED BY <3>1 DEF EdgesTo
  <2>4. NoAlarms.picks = {}
    BY DEF NoAlarms
  <2>5. 0 \in 0..l
    BY <1>2
  <2> QED BY <1>4, <2>2, <2>3, <2>4, <2>5, Zenon
<1>6. ASSUME NEW i \in 1..l, i - 1 \in P
      PROVE  i \in P
  <2>1. PICK a : a = h[i - 1]
    OBVIOUS
  <2>2. PICK m \in 0..l : m = i - 1
    BY <1>6
  <2>3. AlarmsBeside(a, bars, i - 1) /\ a.picks = EdgesTo(bars, m)
    BY <1>6, <2>1, <2>2
  <2>4. i \in 1..n /\ i \in 0..l
    BY <1>2
  <2>5. PICK x : x = MomentumBar(bars, a, i)
    OBVIOUS
  <2>6. AlarmsBeside(x, bars, i)
    BY <1>1, <2>3, <2>4, <2>5, AlarmsBesideStay
  <2>7. x.picks = a.picks \cup
          IF Measurable(bars, i) THEN {[at |-> i, kind |-> k] : k \in EdgesAt(bars, a, i)} ELSE {}
    BY <2>5, MomentumBarIs
  <2>8. ASSUME NEW k \in Kinds
        PROVE  k \in EdgesAt(bars, a, i) /\ Measurable(bars, i) <=> CacheEdge(bars, i, k)
    BY <1>1, <2>3, <2>4, EdgeIsLive
  <2>9. \A k : k \in EdgesAt(bars, a, i) => k \in Kinds
    BY DEF EdgesAt
  <2>10. \A p : p \in x.picks <=>
           p \in a.picks \/ \E k \in Kinds : CacheEdge(bars, i, k) /\ p = [at |-> i, kind |-> k]
    <3>1. CASE Measurable(bars, i)
      <4>1. x.picks = a.picks \cup {[at |-> i, kind |-> k] : k \in EdgesAt(bars, a, i)}
        BY <2>7, <3>1
      <4> QED BY <2>8, <2>9, <3>1, <4>1, Zenon
    <3>2. CASE ~Measurable(bars, i)
      <4>1. x.picks = a.picks
        BY <2>7, <3>2
      <4> QED BY <2>8, <3>2, <4>1, Zenon
    <3> QED BY <3>1, <3>2
  <2>11. \A j : j \in 1..i <=> j \in 1..m \/ j = i
    BY <2>2
  <2>12. \A p : p \in EdgesTo(bars, i) <=>
           p \in EdgesTo(bars, m) \/ \E k \in Kinds : CacheEdge(bars, i, k) /\ p = [at |-> i, kind |-> k]
    <3> TAKE p
    <3>1. p \in EdgesTo(bars, i) <=>
            \E k \in Kinds : \E j \in 1..i : CacheEdge(bars, j, k) /\ p = [at |-> j, kind |-> k]
      BY EdgesToIs
    <3>2. p \in EdgesTo(bars, m) <=>
            \E k \in Kinds : \E j \in 1..m : CacheEdge(bars, j, k) /\ p = [at |-> j, kind |-> k]
      BY EdgesToIs
    <3> QED BY <2>11, <3>1, <3>2, Zenon
  <2>13. x.picks = EdgesTo(bars, i)
    BY <2>3, <2>10, <2>12, Zenon
  <2>14. h[i] = x
    BY <1>4, <2>1, <2>5
  <2> QED BY <2>4, <2>6, <2>13, <2>14, Zenon
<1>7. 0..l \subseteq P
  <2>1. l \in Nat
    BY <1>1, <1>2
  <2> HIDE DEF P
  <2> QED BY <1>5, <1>6, <2>1, UpTo
<1>8. l \in P
  BY <1>2, <1>7
<1> QED BY <1>2, <1>4, <1>8

\* On such a tape the picks of both are those of the lemmas.
LEMMA StrategySides ==
  ASSUME TapeInv, NEW rule
  PROVE  SimulateStrategy(tape, rule) = LivePicks(LevelsFixed, rule)
<1>1. PICK n \in Nat : n = Len(tape) /\ DOMAIN tape = 1..n
  BY Indices DEF TapeInv
<1> DEFINE Signal(i) == WalkLatestSession(SoFar(i), LevelsFixed(tape[i].day), rule)[i]
<1>2. \A i : Signal(i) = LiveAt(tape, i, rule)
  BY Zenon DEF LiveAt, SoFar, SoFarOf, LevelsFixed, FixedLevels, FirstBar, FirstOf
<1>3. LivePicks(LevelsFixed, rule) = LiveEntries(tape, rule)
  <2> DEFINE E == Edges(LAMBDA k : Signal(k) # NoSignal)
  <2>1. E = {i \in DOMAIN tape : /\ Signal(i) # NoSignal
                                 /\ ~(i > 1 /\ SameDay(tape[i - 1], tape[i]) /\ Signal(i - 1) # NoSignal)}
    BY Zenon DEF Edges
  <2>2. LivePicks(LevelsFixed, rule) =
          {[at |-> i, signal |-> Signal(i)] : i \in {j \in E : ForwardSessionBars(tape, j) # {}}}
    BY Zenon DEF LivePicks
  <2> HIDE DEF Signal, E
  <2>3. {j \in E : ForwardSessionBars(tape, j) # {}} = {j \in DOMAIN tape : LiveEdge(tape, j, rule)}
    BY <1>2, <2>1, Zenon DEF LiveEdge
  <2> QED BY <1>2, <2>2, <2>3, Zenon DEF LiveEntries
<1>4. SimulateStrategy(tape, rule) = LiveEntries(tape, rule)
  <2>1. tape \in Seq(TapeBar) /\ Ordered(tape) /\ Stamped(tape)
    BY DEF TapeInv, Stamped
  <2> QED BY <2>1, StrategyIsLive
<1> QED BY <1>3, <1>4

\* ... and so for the alarm.
LEMMA MomentumSides ==
  ASSUME TapeInv
  PROVE  SimulateMomentumAlerts(tape) = UNION {MomentumEdges(k) : k \in Kinds}
<1>1. PICK n \in Nat : n = Len(tape) /\ DOMAIN tape = 1..n
  BY Indices DEF TapeInv
<1>2. \A i \in 1..n : LiveAlert(SoFar(i)) = AlarmAt(tape, i)
  <2> TAKE i \in 1..n
  <2>1. LiveAlert(SoFarOf(tape, i)) = AlarmAt(tape, i)
    BY <1>1, AlarmIsLive DEF TapeInv
  <2> QED BY <2>1 DEF SoFar, SoFarOf
<1>3. ASSUME NEW i \in 1..n
      PROVE  i + Horizon \in 1..n <=> i \in 1..LastFollowed(tape)
  <2>1. PICK f \in Nat : f = Horizon
    BY WalkAssumption
  <2>2. LastFollowed(tape) = IF n >= f THEN n - f ELSE 0
    BY <1>1, <2>1 DEF LastFollowed
  <2> QED BY <1>1, <2>1, <2>2
<1>4. ASSUME NEW k
      PROVE  MomentumEdges(k) = {[at |-> i, kind |-> k] : i \in {j \in 1..LastFollowed(tape) : CacheEdge(tape, j, k)}}
  <2> DEFINE E == Edges(LAMBDA j : LiveAlert(SoFar(j))[k])
  <2>1. E = {i \in 1..n : /\ LiveAlert(SoFar(i))[k]
                          /\ ~(i > 1 /\ SameDay(tape[i - 1], tape[i]) /\ LiveAlert(SoFar(i - 1))[k])}
    BY <1>1, Zenon DEF Edges
  <2>2. ASSUME NEW j \in 1..n
        PROVE  j \in E /\ j + Horizon \in DOMAIN tape /\ Measurable(tape, j) <=>
                 j \in 1..LastFollowed(tape) /\ CacheEdge(tape, j, k)
    <3>1. j > 1 => LiveAlert(SoFar(j - 1)) = AlarmAt(tape, j - 1)
      <4>1. j > 1 => j - 1 \in 1..n
        BY <1>1
      <4> QED BY <1>2, <4>1
    <3>2. j \in E <=> /\ AlarmAt(tape, j)[k]
                      /\ ~(j > 1 /\ SameDay(tape[j - 1], tape[j]) /\ AlarmAt(tape, j - 1)[k])
      BY <1>2, <2>1, <3>1, Zenon
    <3>3. j + Horizon \in DOMAIN tape <=> j \in 1..LastFollowed(tape)
      BY <1>1, <1>3
    <3> QED BY <3>2, <3>3, Zenon DEF CacheEdge
  <2>3. 1..LastFollowed(tape) \subseteq 1..n
    <3>1. PICK f \in Nat : f = Horizon
      BY WalkAssumption
    <3>2. LastFollowed(tape) = IF n >= f THEN n - f ELSE 0
      BY <1>1, <3>1 DEF LastFollowed
    <3> QED BY <1>1, <3>1, <3>2
  <2>4. E \subseteq 1..n
    BY <2>1
  <2> HIDE DEF E
  <2>5. {j \in E : j + Horizon \in DOMAIN tape /\ Measurable(tape, j)}
        = {j \in 1..LastFollowed(tape) : CacheEdge(tape, j, k)}
    BY <2>2, <2>3, <2>4, Zenon
  <2>6. MomentumEdges(k) =
          {[at |-> i, kind |-> k] : i \in {j \in E : j + Horizon \in DOMAIN tape /\ Measurable(tape, j)}}
    BY Zenon DEF MomentumEdges, E
  <2> QED BY <2>5, <2>6, Zenon
<1>5. SimulateMomentumAlerts(tape) = EdgesTo(tape, LastFollowed(tape))
  BY MomentumIsLive DEF TapeInv
<1>6. EdgesTo(tape, LastFollowed(tape)) = UNION {MomentumEdges(k) : k \in Kinds}
  BY <1>4, Zenon DEF EdgesTo
<1> QED BY <1>5, <1>6

\* A replay enters exactly where the live reading of the same rule turned true, with
\* the trade the live walk shows when it is handed the levels of the day's morning, for
\* any bars, any number of them and any settings (simulate_strategy beside
\* walk_latest_session, simulate_momentum_alerts beside MomentumCache.refresh).
THEOREM WalksAlwaysAgree == TapeSpec => []WalksAgree
<1>1. TapeInv => WalksAgree
  BY StrategySides, MomentumSides DEF WalksAgree
<1> QED BY <1>1, TapeBegins, TapeStays, PTL DEF TapeSpec
===============================================================================

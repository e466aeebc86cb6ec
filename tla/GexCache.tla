------------------------------- MODULE GexCache -------------------------------
(***************************************************************************)
(* The cache of gamma exposure readings, shared by the engine's warm loop  *)
(* (refresh) and every request that wants a symbol's reading.  One lock    *)
(* per symbol makes a burst of callers fetch once; the symbols kept are    *)
(* bounded, and the least recently used goes, its lock with it.  A task    *)
(* runs from one await to the next: its call up to the lock, from the lock *)
(* up to the fetch, and from the fetch's end or its timeout to the answer. *)
(*                                                                         *)
(* asyncio.Lock serves its waiters in the order they came, so what a       *)
(* caller waits for is the set of callers before it on the same lock.      *)
(***************************************************************************)
EXTENDS Integers, Sequences, SequencesExt

CONSTANTS
  GexSymbols,    \* symbols asked for
  GexCallers,    \* tasks that may ask at once: requests and the warm loop
  MaxCached,     \* max_symbols
  MaxGexCalls    \* bound: calls ever made

ASSUME MaxCachedAssumption == MaxCached \in Nat \ {0}
ASSUME MaxGexCallsAssumption == MaxGexCalls \in Nat

VARIABLES
  gexEntries,   \* symbols with a reading, the least recently used first
  gexFresh,     \* those whose reading is younger than the TTL
  gexBackoff,   \* symbols whose last fetch failed within the backoff
  gexCaller,    \* caller -> where its call is
  gexAnswer,    \* caller -> what its last call returned
  gexCalls      \* calls so far, for their bound

gexVars == <<gexEntries, gexFresh, gexBackoff, gexCaller, gexAnswer, gexCalls>>

Resting == [at |-> "idle"]
GexCall == [at : {"wait", "fetch"}, symbol : GexSymbols, by : {"reading", "refresh"},
            ahead : SUBSET GexCallers,  \* who must leave the lock first
            lock : {"kept", "dropped"}]  \* whether it is still the symbol's

GexInit ==
  /\ gexEntries = <<>>
  /\ gexFresh = {} /\ gexBackoff = {}
  /\ gexCaller = [c \in GexCallers |-> Resting]
  /\ gexAnswer = [c \in GexCallers |-> "none"]
  /\ gexCalls = 0

-----------------------------------------------------------------------------

Kept(s) == s \in ToSet(gexEntries)
MovedToEnd(s) == Append(SelectSeq(gexEntries, LAMBDA t : t # s), s)

OnTheLockOf(s) ==
  {c \in GexCallers : gexCaller[c] # Resting /\ gexCaller[c].symbol = s /\ gexCaller[c].lock = "kept"}

\* Fault: a lock per call.
QueueAlone(s) == {}

\* The callers a new one queues behind: those on the lock the table has.
Queue(s) == OnTheLockOf(s)

\* c returns: the reading its symbol has, if any, and the lock goes on.
Answered(callers, c) ==
  [d \in GexCallers |->
     IF d = c THEN Resting
     ELSE IF callers[d] = Resting THEN Resting
     ELSE [callers[d] EXCEPT !.ahead = @ \ {c}]]

ReturnCached(c, s) ==
  gexAnswer' = [gexAnswer EXCEPT ![c] = IF Kept(s) THEN "reading" ELSE "nothing"]

\* A fresh reading is returned at once, and read last.  Everyone else, and the
\* warm loop always, queues for the symbol's lock.
GexAsk(c, s, by) ==
  /\ gexCaller[c] = Resting
  /\ gexCalls < MaxGexCalls
  /\ gexCalls' = gexCalls + 1
  /\ IF s \in gexFresh /\ by = "reading"
     THEN /\ gexEntries' = MovedToEnd(s)
          /\ ReturnCached(c, s)
          /\ UNCHANGED gexCaller
     ELSE /\ gexCaller' = [gexCaller EXCEPT ![c] =
               [at |-> "wait", symbol |-> s, by |-> by, ahead |-> Queue(s),
                lock |-> "kept"]]
          /\ gexAnswer' = [gexAnswer EXCEPT ![c] = "none"]
          /\ UNCHANGED gexEntries
  /\ UNCHANGED <<gexFresh, gexBackoff>>

HasTheLock(c) ==
  /\ gexCaller[c] # Resting
  /\ gexCaller[c].at = "wait"
  /\ gexCaller[c].ahead = {}

\* The lock is held: another caller may have filled the cache meanwhile.
TakeFilled(c) ==
  LET s == gexCaller[c].symbol
  IN  /\ HasTheLock(c)
      /\ gexCaller[c].by = "reading" /\ s \in gexFresh
      /\ gexEntries' = MovedToEnd(s)
      /\ ReturnCached(c, s)
      /\ gexCaller' = Answered(gexCaller, c)
      /\ UNCHANGED <<gexFresh, gexBackoff, gexCalls>>

\* After a failure the old reading, if any, is the answer for a while.
TakeBackoff(c) ==
  LET s == gexCaller[c].symbol
  IN  /\ HasTheLock(c)
      /\ gexCaller[c].by = "reading" /\ s \notin gexFresh
      /\ s \in gexBackoff
      /\ ReturnCached(c, s)
      /\ gexCaller' = Answered(gexCaller, c)
      /\ UNCHANGED <<gexEntries, gexFresh, gexBackoff, gexCalls>>

BeginFetch(c) ==
  /\ HasTheLock(c)
  /\ gexCaller[c].by = "refresh" \/ gexCaller[c].symbol \notin gexFresh \cup gexBackoff
  /\ gexCaller' = [gexCaller EXCEPT ![c].at = "fetch"]
  /\ UNCHANGED <<gexEntries, gexFresh, gexBackoff, gexAnswer, gexCalls>>

IsFetching(c) == gexCaller[c] # Resting /\ gexCaller[c].at = "fetch"

\* Those in flight for an evicted symbol keep a lock nobody else will find.
Evicting(callers, gone) ==
  [d \in GexCallers |->
     IF callers[d] # Resting /\ callers[d].symbol \in gone
     THEN [callers[d] EXCEPT !.lock = "dropped"]
     ELSE callers[d]]

FetchAnswers(c) ==
  LET s == gexCaller[c].symbol
      entries == MovedToEnd(s)
      extra == Len(entries) - MaxCached
      kept == IF extra > 0 THEN SubSeq(entries, extra + 1, Len(entries)) ELSE entries
      gone == ToSet(entries) \ ToSet(kept)
  IN  /\ IsFetching(c)
      /\ gexEntries' = kept
      /\ gexFresh' = (gexFresh \cup {s}) \ gone
      /\ gexBackoff' = gexBackoff \ ({s} \cup gone)
      /\ gexAnswer' = [gexAnswer EXCEPT ![c] = "reading"]
      /\ gexCaller' = Evicting(Answered(gexCaller, c), gone)
      /\ UNCHANGED gexCalls

\* No reading, or none within the timeout.
FetchFails(c) ==
  /\ IsFetching(c)
  /\ gexBackoff' = gexBackoff \cup {gexCaller[c].symbol}
  /\ ReturnCached(c, gexCaller[c].symbol)
  /\ gexCaller' = Answered(gexCaller, c)
  /\ UNCHANGED <<gexEntries, gexFresh, gexCalls>>

\* Time passes: a reading outlives its TTL, a failure its backoff.
GoStale(s) ==
  /\ s \in gexFresh
  /\ gexFresh' = gexFresh \ {s}
  /\ UNCHANGED <<gexEntries, gexBackoff, gexCaller, gexAnswer, gexCalls>>

BackoffEnds(s) ==
  /\ s \in gexBackoff
  /\ gexBackoff' = gexBackoff \ {s}
  /\ UNCHANGED <<gexEntries, gexFresh, gexCaller, gexAnswer, gexCalls>>

GexStep(c) == TakeFilled(c) \/ TakeBackoff(c) \/ BeginFetch(c)
FetchEnds(c) == FetchAnswers(c) \/ FetchFails(c)

GexNext ==
  \/ \E c \in GexCallers, s \in GexSymbols, by \in {"reading", "refresh"} : GexAsk(c, s, by)
  \/ \E c \in GexCallers : GexStep(c) \/ FetchEnds(c)
  \/ \E s \in GexSymbols : GoStale(s) \/ BackoffEnds(s)

GexSpec == GexInit /\ [][GexNext]_gexVars

-----------------------------------------------------------------------------
(* Correctness.                                                            *)

\* "One fetch per symbol at a time however many callers ask": two are under
\* way together only when the symbol was evicted after the first one called.
OneFetchUnlessEvicted ==
  \A c, d \in GexCallers :
    (IsFetching(c) /\ IsFetching(d) /\ c # d /\ gexCaller[c].symbol = gexCaller[d].symbol)
      => "dropped" \in {gexCaller[c].lock, gexCaller[d].lock}

\* Nobody waits for a call that is over: whoever is queued is behind a call
\* that holds the lock or is fetching, so the queue moves whatever the fetches
\* before it came to.
QueuesMove ==
  \A c \in GexCallers :
    gexCaller[c] # Resting =>
      \E d \in gexCaller[c].ahead \cup {c} : HasTheLock(d) \/ IsFetching(d)
=============================================================================

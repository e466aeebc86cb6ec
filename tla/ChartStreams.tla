---------------------------- MODULE ChartStreams ----------------------------
(***************************************************************************)
(* Live charts: one socket per browser tab, a shared subscription per      *)
(* symbol at the data provider, counted by StreamManager, and the prints   *)
(* of a quarter second folded into one batch before they are sent.         *)
(*                                                                         *)
(* A handler runs until its next await; the provider is called in a        *)
(* thread, so a call is a step of its own and other sockets run meanwhile. *)
(* A symbol has two feeds: bars and trades for a stock, trades and quotes  *)
(* for an option contract. A tab asks for a symbol once and takes it back  *)
(* once, also when it was refused. What the batches carry and the VWAP     *)
(* state are left out.                                                     *)
(***************************************************************************)
EXTENDS Integers, FiniteSets

CONSTANTS
  Sockets,     \* connections, each used once
  Stocks,      \* symbols of the stock stream
  Premiums,    \* symbols of the option stream
  MaxSymbols,  \* max_symbols of each stream manager
  MaxFlushes   \* bound: flush tasks of one symbol at a time

Symbols == Stocks \cup Premiums
Feeds == {"first", "second"}

ASSUME SocketsAssumption == IsFiniteSet(Sockets)
ASSUME SymbolsAssumption == Stocks \cap Premiums = {}
ASSUME StreamBoundsAssumption == MaxSymbols \in Nat \ {0} /\ MaxFlushes \in Nat

VARIABLES
  sock,      \* socket -> where its handler is, with the symbol it is on
  asked,     \* socket -> symbols its tab has asked for and not taken back
  holds,     \* socket -> subscribed_symbols of its handler
  refs,      \* symbol -> its count, zero when it has none
  live,      \* feeds subscribed at the provider: <<symbol, feed>>
  topic,     \* symbol -> sockets on its topic
  batch,     \* symbols with prints not yet sent
  entry,     \* symbols with an entry in _flush_tasks
  sleeping,  \* symbol -> flush tasks that will send
  dying,     \* symbol -> flush tasks cancelled that have not yet ended
  broken     \* history: symbols a call of the provider failed for

streamVars == <<sock, asked, holds, refs, live, topic, batch, entry, sleeping, dying, broken>>

NoSymbol == "-"
Handler ==
  [at : {"open", "subscribing", "unsubscribing", "closing", "gone"},
   on : Symbols \cup {NoSymbol}, feed : Feeds, closing : {"no", "yes"}]

\* The handler turns to y, or to no symbol; it waits for a message.
HandlerOn(y, at, closing) == [at |-> at, on |-> y, feed |-> "first", closing |-> closing]
Waiting == HandlerOn(NoSymbol, "open", "no")

StreamsInit ==
  /\ sock = [s \in Sockets |-> Waiting]
  /\ asked = [s \in Sockets |-> {}] /\ holds = [s \in Sockets |-> {}]
  /\ refs = [y \in Symbols |-> 0]
  /\ live = {}
  /\ topic = [y \in Symbols |-> {}]
  /\ batch = {} /\ entry = {}
  /\ sleeping = [y \in Symbols |-> 0] /\ dying = [y \in Symbols |-> 0]
  /\ broken = {}

flushVars == <<batch, entry, sleeping, dying>>

-----------------------------------------------------------------------------
(* A tab asks for a symbol.                                                *)

\* The symbols with a count in the stream manager that y belongs to.
Counted(y) == {z \in IF y \in Stocks THEN Stocks ELSE Premiums : refs[z] > 0}

Ask(s, y) ==
  /\ sock[s].at = "open" /\ y \notin asked[s]
  /\ asked' = [asked EXCEPT ![s] = @ \cup {y}]
  /\ UNCHANGED <<live, broken, flushVars>>

\* The socket joins the topic and the handler remembers the symbol.
Join(s, y) ==
  /\ topic' = [topic EXCEPT ![y] = @ \cup {s}]
  /\ holds' = [holds EXCEPT ![s] = @ \cup {y}]

\* Somebody watches it already: one more.
Share(s, y) ==
  /\ Ask(s, y)
  /\ refs[y] > 0
  /\ refs' = [refs EXCEPT ![y] = @ + 1]
  /\ Join(s, y)
  /\ UNCHANGED sock

\* The cap is reached: the tab gets an error.
TurnAway(s, y) ==
  /\ Ask(s, y)
  /\ refs[y] = 0 /\ Cardinality(Counted(y)) >= MaxSymbols
  /\ UNCHANGED <<sock, holds, refs, topic>>

\* The first to watch it: counted at once, then subscribed feed by feed.
StartStream(s, y) ==
  /\ Ask(s, y)
  /\ refs[y] = 0 /\ Cardinality(Counted(y)) < MaxSymbols
  /\ refs' = [refs EXCEPT ![y] = 1]
  /\ sock' = [sock EXCEPT ![s] = HandlerOn(y, "subscribing", "no")]
  /\ UNCHANGED <<holds, topic>>

\* One feed is subscribed; after the second the socket joins the topic.
SubscribeFeed(s) ==
  LET y == sock[s].on IN
  /\ sock[s].at = "subscribing"
  /\ live' = live \cup {<<y, sock[s].feed>>}
  /\ IF sock[s].feed = "first"
     THEN /\ sock' = [sock EXCEPT ![s].feed = "second"]
          /\ UNCHANGED <<topic, holds>>
     ELSE /\ sock' = [sock EXCEPT ![s] = Waiting]
          /\ Join(s, y)
  /\ UNCHANGED <<asked, refs, broken, flushVars>>

-----------------------------------------------------------------------------
(* A tab takes a symbol back, or is closed.                                *)

\* Fault: the last one out leaves the count behind.
LetGoOneLate(s, y) ==
  IF refs[y] <= 0 /\ y \in Stocks
  THEN /\ refs' = [refs EXCEPT ![y] = 0]
       /\ sock' = [sock EXCEPT ![s] = HandlerOn(y, "unsubscribing", @.closing)]
  ELSE /\ refs' = [refs EXCEPT ![y] = IF @ > 0 THEN @ - 1 ELSE 0]
       /\ UNCHANGED sock

\* StreamManager.unsubscribe up to its first await: the last one out drops the
\* count and goes on to the provider. A contract without a count is left alone.
LetGo(s, y) ==
  IF refs[y] <= 1 /\ (y \in Stocks \/ refs[y] > 0)
  THEN /\ refs' = [refs EXCEPT ![y] = 0]
       /\ sock' = [sock EXCEPT ![s] = HandlerOn(y, "unsubscribing", @.closing)]
  ELSE /\ refs' = [refs EXCEPT ![y] = IF @ > 0 THEN @ - 1 ELSE 0]
       /\ UNCHANGED sock

TakeBack(s, y) ==
  /\ sock[s].at = "open" /\ y \in asked[s]
  /\ asked' = [asked EXCEPT ![s] = @ \ {y}]
  /\ topic' = [topic EXCEPT ![y] = @ \ {s}]
  /\ holds' = [holds EXCEPT ![s] = @ \ {y}]
  /\ LetGo(s, y)
  /\ UNCHANGED <<live, broken, flushVars>>

\* The tab is gone: its handler leaves every topic, then lets go of what it
\* holds, one symbol after the other.
Disconnect(s) ==
  /\ sock[s].at = "open"
  /\ sock' = [sock EXCEPT ![s] = HandlerOn(NoSymbol, "closing", "yes")]
  /\ topic' = [y \in Symbols |-> topic[y] \ {s}]
  /\ UNCHANGED <<asked, holds, refs, live, broken, flushVars>>

CloseNext(s, y) ==
  /\ sock[s].at = "closing" /\ y \in holds[s]
  /\ holds' = [holds EXCEPT ![s] = @ \ {y}]
  /\ LetGo(s, y)
  /\ UNCHANGED <<asked, live, topic, broken, flushVars>>

CloseDone(s) ==
  /\ sock[s].at = "closing" /\ holds[s] = {}
  /\ sock' = [sock EXCEPT ![s] = HandlerOn(NoSymbol, "gone", "yes")]
  /\ UNCHANGED <<asked, holds, refs, live, topic, broken, flushVars>>

\* Fault: the entry of the cancelled task stays.
DropBatchKeepsEntry(y) ==
  /\ batch' = batch \ {y}
  /\ UNCHANGED entry
  /\ IF y \in entry
     THEN /\ sleeping' = [sleeping EXCEPT ![y] = @ - 1]
          /\ dying' = [dying EXCEPT ![y] = @ + 1]
     ELSE UNCHANGED <<sleeping, dying>>

\* What unsubscribe ends with: the batch is dropped, its task cancelled.
DropBatch(y) ==
  /\ batch' = batch \ {y}
  /\ IF y \in entry
     THEN /\ entry' = entry \ {y}
          /\ sleeping' = [sleeping EXCEPT ![y] = @ - 1]
          /\ dying' = [dying EXCEPT ![y] = @ + 1]
     ELSE UNCHANGED <<entry, sleeping, dying>>

\* One feed is given up; after the second the handler goes on.
UnsubscribeFeed(s) ==
  LET y == sock[s].on IN
  /\ sock[s].at = "unsubscribing"
  /\ live' = live \ {<<y, sock[s].feed>>}
  /\ IF sock[s].feed = "first"
     THEN /\ sock' = [sock EXCEPT ![s].feed = "second"]
          /\ UNCHANGED flushVars
     ELSE /\ sock' = [sock EXCEPT ![s] =
                        HandlerOn(NoSymbol, IF @.closing = "yes" THEN "closing" ELSE "open", @.closing)]
          /\ DropBatch(y)
  /\ UNCHANGED <<asked, holds, refs, topic, broken>>

\* The provider call raises: the socket's handler ends, and one that was
\* ending already keeps the counts of what it still holds.
ProviderFails(s) ==
  /\ sock[s].at \in {"subscribing", "unsubscribing"}
  /\ sock' = [sock EXCEPT ![s] =
                HandlerOn(NoSymbol, IF @.closing = "yes" THEN "gone" ELSE "closing", "yes")]
  /\ topic' = [y \in Symbols |-> topic[y] \ {s}]
  /\ broken' = broken \cup {sock[s].on} \cup (IF sock[s].closing = "yes" THEN holds[s] ELSE {})
  /\ UNCHANGED <<asked, holds, refs, live, flushVars>>

-----------------------------------------------------------------------------
(* Prints and their batches.                                               *)

\* A print of a subscribed symbol joins its batch; a flush task is started
\* unless there is an entry for one.
PrintArrives(y) ==
  /\ \E f \in Feeds : <<y, f>> \in live
  /\ batch' = batch \cup {y}
  /\ IF y \in entry
     THEN UNCHANGED <<entry, sleeping>>
     ELSE /\ sleeping[y] + dying[y] < MaxFlushes
          /\ entry' = entry \cup {y}
          /\ sleeping' = [sleeping EXCEPT ![y] = @ + 1]
  /\ UNCHANGED <<sock, asked, holds, refs, live, topic, dying, broken>>

\* A flush task wakes: it clears the entry, whose ever that is, and sends.
Flush(y) ==
  /\ sleeping[y] > 0
  /\ sleeping' = [sleeping EXCEPT ![y] = @ - 1]
  /\ entry' = entry \ {y}
  /\ batch' = batch \ {y}
  /\ UNCHANGED <<sock, asked, holds, refs, live, topic, dying, broken>>

\* A cancelled one ends: its finally clears the entry as well.
FlushDies(y) ==
  /\ dying[y] > 0
  /\ dying' = [dying EXCEPT ![y] = @ - 1]
  /\ entry' = entry \ {y}
  /\ UNCHANGED <<sock, asked, holds, refs, live, topic, batch, sleeping, broken>>

StreamsNext ==
  \/ \E s \in Sockets, y \in Symbols :
       Share(s, y) \/ TurnAway(s, y) \/ StartStream(s, y) \/ TakeBack(s, y) \/ CloseNext(s, y)
  \/ \E s \in Sockets :
       SubscribeFeed(s) \/ UnsubscribeFeed(s) \/ Disconnect(s) \/ CloseDone(s) \/ ProviderFails(s)
  \/ \E y \in Symbols : PrintArrives(y) \/ Flush(y) \/ FlushDies(y)

StreamsSpec == StreamsInit /\ [][StreamsNext]_streamVars

-----------------------------------------------------------------------------
(* Properties.                                                             *)

StreamsTypeOK ==
  /\ sock \in [Sockets -> Handler]
  /\ asked \in [Sockets -> SUBSET Symbols] /\ holds \in [Sockets -> SUBSET Symbols]
  /\ refs \in [Symbols -> Nat]
  /\ live \subseteq Symbols \X Feeds
  /\ topic \in [Symbols -> SUBSET Sockets]
  /\ batch \subseteq Symbols /\ entry \subseteq Symbols
  /\ sleeping \in [Symbols -> Nat] /\ dying \in [Symbols -> Nat]
  /\ broken \subseteq Symbols

\* Whether the handler of s has a share in the count of y.
Watches(s, y) == y \in holds[s] \/ (sock[s].at = "subscribing" /\ sock[s].on = y)

\* A stock nobody watches and nobody is about to give up is not streamed: no
\* order of asking and taking back, of tabs that were turned away as well,
\* leaves a subscription behind at the provider. A contract is not promised as
\* much: without a count it is left alone, and a tab that was turned away takes
\* the count of another one along.
StreamsLetGo ==
  \A y \in Stocks \ broken :
    ((\A s \in Sockets : ~Watches(s, y)) /\ (\A s \in Sockets : sock[s].on # y))
      => \A f \in Feeds : <<y, f>> \notin live

\* Prints that wait to be sent have a task that will send them, whatever
\* tasks were cancelled and whatever entries those cleared.
BatchIsFlushed == \A y \in batch : sleeping[y] > 0
=============================================================================

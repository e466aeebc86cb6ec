------------------------------ MODULE MCRecords -------------------------------
(* Components that share no state, side by side: each behavior is one of      *)
(* theirs, and the others stay as they were at the start.                     *)
EXTENDS MCSimBrokerTasks, TradeJournal, ChartStreams, Campaigns, GexCache, MCScannerDay

VARIABLE part

recordVars == <<taskVars, journalVars, streamVars, campaignVars, gexVars, scannerVars, part>>

RecordsInit ==
  /\ part \in {"orders", "journal", "streams", "campaigns", "passes", "placing", "gex", "scanner"}
  /\ TasksInit /\ JournalInit /\ StreamsInit /\ CampaignsInit /\ GexInit /\ ScannerInit
  /\ campaign.auto = "on" <=> part = "placing"
  /\ part # "scanner" => tapeOfDays = CHOOSE t \in Tapes : TRUE

OrdersStep == part = "orders" /\ TasksNext
  /\ UNCHANGED <<journalVars, streamVars, campaignVars, gexVars, scannerVars, part>>
JournalStep == part = "journal" /\ JournalNext
  /\ UNCHANGED <<taskVars, streamVars, campaignVars, gexVars, scannerVars, part>>
StreamsStep == part = "streams" /\ StreamsNext
  /\ UNCHANGED <<taskVars, journalVars, campaignVars, gexVars, scannerVars, part>>
\* The loop with the switch, on shares and a status nobody touches; two passes side
\* by side without the switch; and two that roll the long call or close the short one
\* while nobody else does anything.
CampaignsStep ==
  /\ \/ /\ part = "campaigns" /\ CampaignsNext /\ pass'["request"] = NoPass
        /\ book'.lots = 0 /\ campaign'.status = "active"
     \/ part = "passes" /\ CampaignsNext /\ switches' = 0
     \/ part = "placing" /\ \E p \in Passes :
          (Reconcile(p) \/ Advance(p)) /\ pass'[p].step.kind \in {"hold", "roll_long", "close_call"}
  /\ UNCHANGED <<taskVars, journalVars, streamVars, gexVars, scannerVars, part>>
CacheStep == part = "gex" /\ GexNext
  /\ UNCHANGED <<taskVars, journalVars, streamVars, campaignVars, scannerVars, part>>
ScannerStep == part = "scanner" /\ ScannerNext
  /\ UNCHANGED <<taskVars, journalVars, streamVars, campaignVars, gexVars, part>>

RecordsNext ==
  OrdersStep \/ JournalStep \/ StreamsStep \/ CampaignsStep \/ CacheStep \/ ScannerStep

RecordsSpec == RecordsInit /\ [][RecordsNext]_recordVars

\* Tasks that never overlap implement the handlers of SimBroker: the book as
\* AtomicBook shows it starts as theirs and takes their steps, and only when a
\* task ends (the awaits of submit, check_fills, cancel and close_position).
OrdersImplementBook ==
  AtomicBook!Init /\ [][part = "orders" /\ AtomicBook!Next]_(AtomicBook!vars)

\* Which tab is which does not matter.
TabSymmetry == Permutations(Sockets)

\* What the behaviors and the properties depend on: no guard reads the numbers of
\* a campaign's row, and its clock is the last stamp; of the days' tape only what
\* is shown now.
PassNow(p) ==
  [f \in {"at", "cursor", "shares", "list", "todo", "newest", "recorded", "settled", "step", "id"} |->
     pass[p][f]]
CampaignNow ==
  <<orders, book, campaign.status, campaign.auto, campaign.executed, campaign.cursor, campaign.shares,
    events, [p \in Passes |-> PassNow(p)], placed, switches, passRestarts>>
RecordsNow == <<taskVars, journalVars, streamVars, CampaignNow, gexVars, ShownNow, part>>

\* A short call against a long one.
MCBook == [puts |-> 0, calls |-> 1, longs |-> 1, lots |-> 0]
=============================================================================

-------------------------------- MODULE MCBooks --------------------------------
(* The fill loop beside a request in the stock book, the options book and the *)
(* tape of the backtests: each behavior is one of theirs, and the others stay *)
(* as they were at the start.                                                 *)
EXTENDS MCSimBrokerTasks, MCOptionsBook, MCSignalWalks

VARIABLE part

booksVars == <<taskVars, optionVars, tape, part>>

BooksInit ==
  /\ part \in {"tasks", "options", "walks"}
  /\ TasksInit /\ OptionsInit /\ TapeInit
  /\ part # "options" => spot = CHOOSE p \in Spots : TRUE

TasksStep == part = "tasks" /\ TasksNext /\ UNCHANGED <<optionVars, tape, part>>
OptionsStep == part = "options" /\ OptionsNext /\ UNCHANGED <<taskVars, tape, part>>
WalksStep == part = "walks" /\ TapeNext /\ UNCHANGED <<taskVars, optionVars, part>>

BooksNext == TasksStep \/ OptionsStep \/ WalksStep

\* A component is treated fairly as it is alone.
BooksSpec ==
  /\ BooksInit /\ [][BooksNext]_booksVars
  /\ WF_optionVars(part = "options" /\ BeginSettle)
  /\ SF_optionVars(part = "options" /\ SettleNext)

\* Without the remembered tables, which the invariants do not read, and without
\* the rows of packages that are done.
BooksView == <<WithoutSaved, LiveBook, tape, part>>
=============================================================================

-------------------------------- MODULE MCDesk --------------------------------
(* Components that share no state, side by side: each behavior is one of      *)
(* theirs, and the others stay as they were at the start.                     *)
EXTENDS MCSimBroker, MCSpreadTickets, MCStructureSearch, MCChainScreen, MCLiveClose, MCExitRules,
        RoundTrips

VARIABLE part

deskVars == <<vars, preview, search, screen, closeVars, exitVars, tripVars, part>>

\* The others start somewhere, and it does not matter where.
DeskInit ==
  /\ part \in {"account", "tickets", "search", "screen", "close", "exits", "trips"}
  /\ Init /\ SpreadInit /\ SearchInit /\ ScreenInit /\ LiveCloseInit /\ ExitInit /\ TripsInit
  /\ part # "close" => atBroker = CHOOSE a \in Accounts : TRUE
  /\ part # "exits" => rule = CHOOSE r \in Rules : TRUE

AccountStep == part = "account" /\ Next
  /\ UNCHANGED <<preview, search, screen, closeVars, exitVars, tripVars, part>>
TicketsStep == part = "tickets" /\ SpreadNext
  /\ UNCHANGED <<vars, search, screen, closeVars, exitVars, tripVars, part>>
SearchStep == part = "search" /\ SearchNext
  /\ UNCHANGED <<vars, preview, screen, closeVars, exitVars, tripVars, part>>
ScreenStep == part = "screen" /\ ScreenNext
  /\ UNCHANGED <<vars, preview, search, closeVars, exitVars, tripVars, part>>
CloseStep == part = "close" /\ LiveCloseNext
  /\ UNCHANGED <<vars, preview, search, screen, exitVars, tripVars, part>>
ExitsStep == part = "exits" /\ ExitNext
  /\ UNCHANGED <<vars, preview, search, screen, closeVars, tripVars, part>>
TripsStep == part = "trips" /\ TripsNext
  /\ UNCHANGED <<vars, preview, search, screen, closeVars, exitVars, part>>

DeskNext ==
  \/ AccountStep \/ TicketsStep \/ SearchStep \/ ScreenStep
  \/ CloseStep \/ ExitsStep \/ TripsStep

DeskSpec == DeskInit /\ [][DeskNext]_deskVars

\* Which ticket and which request is which does not matter.
DeskSymmetry == TwoTicketSymmetry \cup CloseSymmetry
=============================================================================

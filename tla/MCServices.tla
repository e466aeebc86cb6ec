------------------------------ MODULE MCServices ------------------------------
(* Components that share no state, side by side: each behavior is one of      *)
(* theirs, and the others stay as they were at the start.                     *)
EXTENDS MCReplayClock, ExitTriggers, PositionGroups

VARIABLE part

serviceVars == <<vars, triggerVars, groupVars, part>>

ServicesInit ==
  /\ part \in {"replay", "triggers", "groups"}
  /\ Init /\ TriggersInit /\ GroupsInit
  /\ part # "triggers" => market = CHOOSE q \in Quotes : TRUE

ReplayStep == part = "replay" /\ Next
  /\ UNCHANGED <<triggerVars, groupVars, part>>
TriggersStep == part = "triggers" /\ TriggersNext
  /\ UNCHANGED <<vars, groupVars, part>>
GroupsStep == part = "groups" /\ GroupsNext
  /\ UNCHANGED <<vars, triggerVars, part>>

ServicesNext == ReplayStep \/ TriggersStep \/ GroupsStep

\* A component is treated fairly as it is alone.
ServicesSpec ==
  /\ ServicesInit /\ [][ServicesNext]_serviceVars
  /\ WF_vars(part = "replay" /\ TickStep) /\ SF_vars(part = "replay" /\ TickLoads)
  /\ TriggersFairness

\* No step and no checked formula reads where a past order was priced.
ServicesView == <<LiveState, triggerVars, groupVars, part>>

\* A stop on the underlying and on the package, on two contracts held twice.
MCTerms ==
  [t \in Triggers |-> [legs |-> {"A", "B"}, qty |-> 1, below |-> 1, above |-> 3,
                       premiumBelow |-> 1, premiumAbove |-> 0]]
MCHeld == [c \in OptionLegs |-> 2]
MCQuotes == {[last |-> 2, premium |-> 2], [last |-> 1, premium |-> 1]}

\* Uneven wings, and one contract that expires later.
MCContracts ==
  [kind : {"call"}, strike : {1, 2, 4}, expiry : {1}]
    \cup [kind : {"put"}, strike : {1, 2}, expiry : {1}]
    \cup {[kind |-> "put", strike |-> 2, expiry |-> 2]}
=============================================================================

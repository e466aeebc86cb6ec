----------------------------- MODULE MCExitRules -----------------------------
(* Stop and target one tick from the entry, gaps two ticks beyond it, and two *)
(* bars: the one that reaches the target and one for what is left.            *)
EXTENDS ExitRules

MCRules ==
  [side : {"long"}, trigger : {"touch", "close"}, risk : {1}, reward : {1}, scaleOut : {0, 1}]
    \cup [side : {"short"}, trigger : {"touch"}, risk : {1}, reward : {1}, scaleOut : {0, 1}]
MCBarPrices == 0..4
=============================================================================

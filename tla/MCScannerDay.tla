----------------------------- MODULE MCScannerDay -----------------------------
(* Days on which one symbol is always up, and another is up before the bell, *)
(* falls through the session and is up on the daily bar.                      *)
EXTENDS ScannerDay, TLC

MCTapes ==
  LET riser == CHOOSE s \in Universe : TRUE
  IN  {[m \in Moment |-> IF m.phase \in {2, 5} THEN Universe ELSE {riser}]}

\* What has been recorded is read by nothing but its own recording.
ShownNow ==
  <<wall, tapeOfDays, tick, toPoll, mayEnd, sessionNow, rows, frozenList, latestRows, paused,
    keptPause, unanswered, scannerTroubles>>
=============================================================================

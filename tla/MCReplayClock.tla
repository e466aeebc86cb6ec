---------------------------- MODULE MCReplayClock -----------------------------
(* Two replays one after the other on the time line, the second one bar long. *)
EXTENDS ReplayClock

MCReplays == {[first |-> 0, last |-> 1], [first |-> 3, last |-> 3]}

\* Before the first bar and beyond the last.
MCSeeks == {0, 4}

\* No step and no checked formula reads where a past order was priced.
LiveState == <<session, engine, loop, liveFill, request, drift, strays, requests, restarts>>
=============================================================================

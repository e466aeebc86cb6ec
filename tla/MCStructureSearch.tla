------------------------- MODULE MCStructureSearch ----------------------------
(* Two expiries of four strikes around the spot, quoted as a market in which  *)
(* no package is free, with one quote, its volatility or its delta missing.   *)
EXTENDS StructureSearch

FullSide(day, kind) ==
  [k \in {10, 20, 30, 40} |->
     [mid |-> (IF kind = "call" THEN Larger(0, 25 - k) ELSE Larger(0, k - 25))
                + 2 + day + (IF k \in {20, 30} THEN 3 ELSE 0),
      vol |-> TRUE, delta |-> "inside"]]

Quoted(days) == [day \in days |-> [call |-> FullSide(day, "call"), put |-> FullSide(day, "put")]]

FullBoard == Quoted({2, 9})

Without(board, day, kind, k) ==
  [board EXCEPT ![day][kind] = [j \in DOMAIN @ \ {k} |-> @[j]]]

MCBoards ==
  {FullBoard, Quoted({0, 2}), Quoted({2}),
   [FullBoard EXCEPT ![2].call[30].delta = "outside"],
   [FullBoard EXCEPT ![9].put[20].vol = FALSE]}
    \cup {Without(FullBoard, 2, kind, k) : kind \in {"call", "put"}, k \in {20, 30}}

PlainView ==
  [horizon |-> 2, listed |-> TRUE, open |-> TRUE, only |-> FALSE, avoid |-> FALSE,
   target |-> [how |-> "range", low |-> 30, high |-> 30], strategies |-> Families,
   preference |-> 0, budget |-> 0, maxLoss |-> 0, minWidth |-> 0, strict |-> TRUE, topN |-> 3]

MCViews ==
  {PlainView, [PlainView EXCEPT !.horizon = 0], [PlainView EXCEPT !.horizon = 1, !.listed = FALSE],
   [PlainView EXCEPT !.avoid = TRUE, !.preference = 2], [PlainView EXCEPT !.only = TRUE, !.topN = 2],
   [PlainView EXCEPT !.target = [how |-> "points", points |-> <<12, 38>>], !.preference = 1],
   [PlainView EXCEPT !.target = [how |-> "range", low |-> 22, high |-> 30], !.budget = 12, !.maxLoss = 8],
   [PlainView EXCEPT !.target = [how |-> "moves", moves |-> 1, both |-> FALSE], !.minWidth = 15],
   [PlainView EXCEPT !.target = [how |-> "moves", moves |-> 0, both |-> TRUE], !.strict = FALSE]}
=============================================================================

---------------------------- MODULE MCChainScreen -----------------------------
(* Nine strikes five apart, priced so that no package is free; a symbol with  *)
(* every quote, one with a report and gaps in its chains, one that reports    *)
(* before every expiry, and one too thin to be picked from the universe.      *)
EXTENDS ChainScreen

ChainDelta(kind, k) ==
  LET away == IF kind = "call" THEN k - Spot ELSE Spot - k
  IN  CASE away >= 20 -> 5 [] away >= 15 -> 10 [] away >= 10 -> 16 [] away >= 5 -> 30 [] away >= 0 -> 50 [] OTHER -> 80

ChainQuote(day, kind, k) ==
  LET worth == (IF kind = "call" THEN Larger(0, 25 - k) ELSE Larger(0, k - 25))
      beyond == IF kind = "call" THEN Larger(0, 45 - k) ELSE Larger(0, k - 5)
      mid == worth + (IF worth > 0 THEN 5 ELSE (beyond * beyond) \div 60) + 2
      half == IF k \in {15, 25, 35} THEN 1 ELSE 0
  IN  [bid |-> mid - half, ask |-> mid + half, last |-> mid, delta |-> ChainDelta(kind, k),
       iv |-> (IF k < Spot THEN 7 ELSE 6) - (IF day > 9 THEN 1 ELSE 0)]

PlainChain(day) ==
  [call |-> [k \in {5, 10, 15, 20, 25, 30, 35, 40, 45} |-> ChainQuote(day, "call", k)],
   put |-> [k \in {5, 10, 15, 20, 25, 30, 35, 40, 45} |-> ChainQuote(day, "put", k)],
   open |-> 50, traded |-> 9]

\* No delta for one strike, a bid of nothing at another, and no wing.
GappyChain(day) ==
  [PlainChain(day) EXCEPT !.call[35].delta = 0, !.put[15].bid = 0, !.put[10].ask = -1,
                          !.put[10].last = 0, !.open = 0, !.traded = NoDay]

MCUnderlyings ==
  [plain |-> [price |-> 25, volume |-> 9, boards |-> [d \in {0, 3, 4, 8, 12} |-> PlainChain(d)],
              monthly |-> {4, 12}, report |-> NoDay, vol |-> 4, rank |-> 70],
   gappy |-> [price |-> 25, volume |-> 5, boards |-> [d \in {0, 3, 5, 9} |-> GappyChain(d)],
              monthly |-> {9}, report |-> 5, vol |-> 7, rank |-> 20],
   early |-> [price |-> 25, volume |-> 5, boards |-> [d \in {4, 5, 8} |-> PlainChain(d)],
              monthly |-> {}, report |-> 1, vol |-> 4, rank |-> NoDay],
   thin |-> [price |-> 25, volume |-> 1, boards |-> [d \in {4} |-> GappyChain(d)],
             monthly |-> {4}, report |-> NoDay, vol |-> 4, rank |-> NoDay]]

PlainScreen ==
  [symbols |-> <<>>, limit |-> 2, minVolume |-> 2, minPrice |-> 1, maxPrice |-> 50,
   strategy |-> "iron_condor", side |-> "put", natural |-> FALSE, low |-> 3, high |-> 6,
   band |-> <<10, 20>>, monthly |-> TRUE, policy |-> "unset", avoid |-> TRUE, wing |-> <<5, 10>>,
   points |-> 0, candidates |-> TRUE, seconds |-> TRUE, minOpen |-> 10, minTraded |-> 0,
   maxRisk |-> 2, maxSpread |-> 30]

MCScreenRequests ==
  {[PlainScreen EXCEPT !.symbols = <<a, b>>, !.policy = "avoid"] : a \in {"plain", "gappy"}, b \in {"early", "gappy"}}
    \cup {PlainScreen, [PlainScreen EXCEPT !.natural = TRUE, !.monthly = FALSE, !.points = 10, !.maxRisk = 1],
          [PlainScreen EXCEPT !.band = <<40, 50>>, !.points = 15, !.candidates = FALSE],
          [PlainScreen EXCEPT !.strategy = "credit_spread", !.band = <<17, 28>>],
          [PlainScreen EXCEPT !.symbols = <<"early", "thin">>, !.low = 0, !.high = 4, !.minTraded = 5]}
    \cup {[PlainScreen EXCEPT !.strategy = strategy, !.side = side] :
            strategy \in {"credit_spread", "debit_spread"}, side \in {"put", "call"}}
    \cup {[PlainScreen EXCEPT !.strategy = strategy, !.seconds = FALSE] :
            strategy \in {"cash_secured_put", "covered_call", "long_option", "calendar"}}

MCDeltas == <<10, 16, 25>>
MCRefDays == <<3, 6>>
MCComparableDays == <<2, 9>>

MCFailures == {{}} \cup {{call} : call \in {"expiries", "earnings", "chain", "reference", "second", "back", "rank"}}
=============================================================================

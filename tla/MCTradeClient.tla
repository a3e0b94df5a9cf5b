----------------------------- MODULE MCTradeClient -----------------------------
(* Two policies that one or two requests exhaust; the others are wide.      *)
EXTENDS TradeClient, TLC

CONSTANTS c1, c2, c3, q1, q2, l1, l2, s1, s2, s3

SmallCap == [p \in Goal |-> 1]
SmallWindow == [p \in Goal |-> IF p = "search" THEN 2 ELSE 1]
Symmetry == Permutations(Clients) \cup Permutations(Queries) \cup Permutations(SearchIds)

================================================================================

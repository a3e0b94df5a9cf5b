--------------------------------- MODULE Lists ---------------------------------
(* What the code does to a list in a loop: adding up amounts (the output of a  *)
(* trace's calls, the balance of a portfolio's events, the bytes of a cache),  *)
(* keeping some of the entries in their order (a purge, an eviction), and      *)
(* working a queue of nodes off in rounds.                                     *)
EXTENDS Integers, Sequences

Total(base, amounts) ==
    LET upTo[n \in 0 .. Len(amounts)] ==
          IF n = 0 THEN base ELSE upTo[n - 1] + amounts[n]
    IN  upTo[Len(amounts)]

\* The numbers up to len that are in "kept", in their order.
Places(len, kept) ==
    LET upTo[n \in 0 .. len] ==
          IF n = 0 THEN << >> ELSE IF n \in kept THEN Append(upTo[n - 1], n) ELSE upTo[n - 1]
    IN  upTo[len]

\* The entries of a list at the places in "kept".
Picked(list, kept) ==
    LET places == Places(Len(list), kept)
    IN  [i \in DOMAIN places |-> list[places[i]]]

\* What a queue that starts with "from" has met after 0, 1, 2, ... rounds, when
\* the nodes next[p] are put behind p.
Waves(from, next, rounds) ==
    LET wave[k \in 0 .. rounds] ==
          IF k = 0 THEN from ELSE wave[k - 1] \cup (UNION {next[p] : p \in wave[k - 1]})
    IN  wave

================================================================================

------------------------------ MODULE Listing ------------------------------
(***************************************************************************)
(* Putting a finite set in the order of a relation, as sort_by and sort_by_key *)
(* do. Listed is stated by rank, without recursion, so that what it returns *)
(* can be proved (ListedIsInOrder).                                        *)
(***************************************************************************)
EXTENDS Naturals, FiniteSets, Sequences

(* A strict total order of S, as a set of pairs.                            *)
StrictlyOrders(R, S) ==
  /\ \A x \in S : <<x, x>> \notin R
  /\ \A x, y, z \in S : <<x, y>> \in R /\ <<y, z>> \in R => <<x, z>> \in R
  /\ \A x, y \in S : x = y \/ <<x, y>> \in R \/ <<y, x>> \in R

Preceding(x, S, R) == {y \in S : <<y, x>> \in R}
Listed(S, R) ==
  [n \in 1..Cardinality(S) |-> CHOOSE x \in S : Cardinality(Preceding(x, S, R)) = n - 1]

Ascending(S) == Listed(S, {p \in S \X S : p[1] < p[2]})
\* The elements of s at the places of S, in their order.
At(s, S) == LET places == Ascending(S) IN [n \in DOMAIN places |-> s[places[n]]]
=============================================================================

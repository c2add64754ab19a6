-------------------------------- MODULE Loops --------------------------------
(***************************************************************************)
(* What two kinds of loops compute that the scheduler                      *)
(* (helper/isa100-helper-scheduling.cc) and the minimum hop optimizer      *)
(* (model/minhop-tdma-optimizer.cc) are written with: over all nodes, in   *)
(* the order of their numbers, and from a node to the one it sends to.     *)
(***************************************************************************)
EXTENDS Integers, FiniteSets

\* The members of a finite set of integers in ascending order.
Ascending(S) ==
  [k \in 1 .. Cardinality(S) |-> CHOOSE n \in S : Cardinality({m \in S : m <= n}) = k]

\* Where one is after 0 .. n steps of the function next from x.
Iterated(next, x, n) ==
  LET at[k \in 0 .. n] == IF k = 0 THEN x ELSE next[at[k - 1]]
  IN  at
=============================================================================

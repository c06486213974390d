------------------------------ MODULE MCPayouts ------------------------------
\* Requests, orders and notices are interchangeable.
EXTENDS Payouts, TLC

Symmetry == Permutations(Request) \cup Permutations(Order) \cup Permutations(Notice)

=============================================================================

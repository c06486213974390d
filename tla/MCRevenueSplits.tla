--------------------------- MODULE MCRevenueSplits ---------------------------
\* Two tracks; the shares are of the first one, which earned half of the other.
EXTENDS RevenueSplits, TLC

MCTrackOf == [s \in Share |-> 1]
MCGrosses == {[t \in Track |-> t]}

Symmetry ==
    Permutations(Share) \cup Permutations(Sender) \cup Permutations(Report)
    \cup Permutations(Account) \cup Permutations(Address)

=============================================================================

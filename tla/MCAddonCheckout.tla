--------------------------- MODULE MCAddonCheckout ---------------------------
\* Orders and payments are interchangeable.
EXTENDS AddonCheckout, TLC

Symmetry == Permutations(Order) \cup Permutations(Payment)

=============================================================================

-------------------------------- MODULE MCLands --------------------------------
EXTENDS Lands, TLC

Symmetry == Permutations(Land) \union Permutations(Key) \union Permutations(Caller)
=============================================================================

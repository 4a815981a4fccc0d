------------------------------ MODULE MCWordPress ------------------------------
EXTENDS WordPress, Naturals, TLC

Symmetry ==
  Permutations(User) \union Permutations(Request) \union Permutations(Key)
    \union Permutations(Operation)

\* Bound: once an edit session was opened, there is one request only.
EditsWithOneRequest ==
  (\E e \in Edit : edit[e].status # "none") =>
    Cardinality({r \in Request : request[r].status # "none"}) <= 1
=============================================================================

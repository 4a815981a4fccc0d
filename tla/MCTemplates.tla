----------------------------- MODULE MCTemplates -----------------------------
(***************************************************************************)
(* TemplateShares, and with it Templates, on small instances: while a      *)
(* share exists no request of several steps is in flight, and the template *)
(* has one version.                                                        *)
(***************************************************************************)
EXTENDS TemplateShares, TLC

Shared == \E s \in Share : share[s].exists

Bound ==
  Shared => /\ \A c \in Caller : At(c, "idle")
            /\ Cardinality(Rows) <= 1

Symmetry == Permutations(Version) \union Permutations(Caller) \union Permutations(View)

MCSpec == SharesInit /\ [][SharesNext /\ Bound']_<<vars, shareVars>>
=============================================================================

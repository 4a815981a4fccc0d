------------------------------ MODULE MCAiRequests ------------------------------
(***************************************************************************)
(* AiRequests on a small instance: c1 and c2 are one request sent twice    *)
(* with its Idempotency-Key and X-Request-Id; c3 and c4 send no key and    *)
(* the same input, and repeat their X-Request-Id.                          *)
(***************************************************************************)
EXTENDS AiRequests, TLC

CONSTANTS c1, c2, c3, c4, k1, k2, r1, r2

Calls == {c1, c2, c3, c4}
Keys == c1 :> k1 @@ c2 :> k1 @@ c3 :> k2 @@ c4 :> k2
RequestIds == c1 :> r1 @@ c2 :> r1 @@ c3 :> r2 @@ c4 :> r2

\* The two calls of a pair differ in nothing.
CallPairs == Permutations({c1, c2}) \union Permutations({c3, c4})
=============================================================================

--------------------------- MODULE MCIdempotency ---------------------------
(***************************************************************************)
(* Small instances of the idempotent writes: one with the app's own keys   *)
(* and twins, one with callers that choose their keys.                     *)
(***************************************************************************)
EXTENDS Idempotency, TLC

\* Pages, bodies and keys of one sort are interchangeable.
Symmetry == Permutations(Page) \cup Permutations(Body)
              \cup Permutations(Minted) \cup Permutations(OwnKey)
=============================================================================

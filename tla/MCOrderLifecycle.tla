------------------------- MODULE MCOrderLifecycle -------------------------
(***************************************************************************)
(* Small instances of OrderLifecycle for TLC.                              *)
(***************************************************************************)
EXTENDS OrderLifecycle, TLC

CONSTANTS s1, s2, x1

Charges == [x \in Extra |-> 1]

Requests == Permutations(Session)

=============================================================================

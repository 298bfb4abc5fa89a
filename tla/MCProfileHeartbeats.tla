------------------------- MODULE MCProfileHeartbeats -------------------------
(* Instances of ProfileHeartbeats for TLC. *)
EXTENDS ProfileHeartbeats, TLC

CONSTANTS p1, p2,       \* profiles
          watch, manual \* the scheduler's loop and a person's call

\* Which item is recorded makes no difference.
Alike == Permutations(Items)
=============================================================================

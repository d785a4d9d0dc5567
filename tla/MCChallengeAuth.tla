-------------------------- MODULE MCChallengeAuth --------------------------
(***************************************************************************)
(* Instances of ChallengeAuth for TLC.                                     *)
(***************************************************************************)
EXTENDS ChallengeAuth, TLC

CONSTANTS t1, t2,   \* two tokens
          u1, u2,   \* two users
          ip1, ip2, \* two addresses
          s1, s2    \* two handler calls

\* The calls in flight are interchangeable.
CallSymmetry == Permutations(Sessions)
=============================================================================

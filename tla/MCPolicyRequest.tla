-------------------------- MODULE MCPolicyRequest --------------------------
(***************************************************************************)
(* Instances of PolicyRequest for TLC.                                     *)
(***************************************************************************)
EXTENDS PolicyRequest, TLC

CONSTANTS c1, c2,   \* two changes
          adm, usr, \* an administrator and a user who is not one
          s1, s2    \* two handler calls

InlineAndResource == c1 :> "inline" @@ c2 :> "resource"
ManagedAndTag     == c1 :> "managed_policy" @@ c2 :> "foreign_tag"

\* The calls in flight are interchangeable.
SessionSymmetry == Permutations(Sessions)
=============================================================================

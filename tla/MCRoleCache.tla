---------------------------- MODULE MCRoleCache ----------------------------
(***************************************************************************)
(* Instances of RoleCache for TLC.                                         *)
(***************************************************************************)
EXTENDS RoleCache, TLC

CONSTANTS r1, v1, v2, acc, e1, e2

OneAccount == r1 :> acc
First == r1 :> v1

Duties == e1 :> {"across"}
       @@ e2 :> {"account", "page", "refresh", "clear", "consume"}
=============================================================================

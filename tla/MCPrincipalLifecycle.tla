------------------------ MODULE MCPrincipalLifecycle ------------------------
(* Two roles, of which one exists, a user, and one part of each kind.      *)
EXTENDS PrincipalLifecycle
=============================================================================

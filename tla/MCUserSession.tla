--------------------------- MODULE MCUserSession ---------------------------
(* One group, one role and two requests at a time.                         *)
EXTENDS UserSession

MCModes ==
    {[login |-> TRUE,  setCookie |-> TRUE,  cliLists |-> FALSE],
     [login |-> FALSE, setCookie |-> FALSE, cliLists |-> FALSE]}

=============================================================================

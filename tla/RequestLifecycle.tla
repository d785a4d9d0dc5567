-------------------------- MODULE RequestLifecycle --------------------------
(***************************************************************************)
(* What a policy request promises to the people who look at it: the life   *)
(* of its status and of the status of each of its changes, with every      *)
(* decision one atomic step.  PolicyRequest implements it as long as one   *)
(* handler works on the request at a time and no write of it fails.        *)
(***************************************************************************)
CONSTANT Changes

VARIABLES status,   \* absent, pending, approved, rejected or cancelled
          chg       \* per change: not_applied, applied or cancelled

lifecycleVars == <<status, chg>>

Open   == status \in {"pending", "approved"}
Closed == status \in {"rejected", "cancelled"}

NothingApplied == \A c \in Changes : chg[c] # "applied"

Init == status = "absent" /\ chg = [c \in Changes |-> "not_applied"]

Submit ==
    /\ status = "absent" /\ status' \in {"pending", "approved"}
    /\ UNCHANGED chg

\* A change is dealt with once, and only while the request is open.
Decide(c) ==
    /\ Open /\ chg[c] = "not_applied"
    /\ \E outcome \in {"applied", "cancelled"} : chg' = [chg EXCEPT ![c] = outcome]
    /\ UNCHANGED status

\* The request follows from its changes.
Conclude ==
    /\ status # "absent"
    /\ \/ ~NothingApplied /\ status' = "approved"
       \/ /\ NothingApplied /\ \E c \in Changes : chg[c] = "cancelled"
          /\ status' = "cancelled"
    /\ UNCHANGED chg

\* A reviewer or the requester settles the request as a whole.
Dispose ==
    /\ status = "pending"
    /\ \/ status' = "approved"
       \/ NothingApplied /\ status' \in {"rejected", "cancelled"}
    /\ UNCHANGED chg

Reopen ==
    /\ Closed /\ status' = "pending"
    /\ UNCHANGED chg

Next == Submit \/ (\E c \in Changes : Decide(c)) \/ Conclude \/ Dispose \/ Reopen

Spec == Init /\ [][Next]_lifecycleVars
=============================================================================

---- MODULE MCDenialNotices ----
EXTENDS DenialNotices, TLC
CONSTANTS c1, c2, m1, m2, p1
\* Two denials of one role give one notification, the first made by its own user;
\* a third is of a session of the same user; no policy can be drafted for the last.
MCDenials == {"own", "team", "other", "odd"}
MCDrafted == {"own", "team", "other"}
MCNoteOf  == [d \in MCDenials |-> IF d \in {"own", "team"} THEN "n1" ELSE "n2"]
MCOwner   == [d \in MCDenials |-> IF d \in {"own", "team"} THEN "g" ELSE None]
MCSession == [d \in MCDenials |-> IF d = "team" THEN None ELSE "u"]
MCGroupsOf == [u \in Users |-> <<"g">>]
MCToggles == {<<"hidden", "own">>}
MCReport(k) == m1 :> "own" @@ m2 :> k
\* Two runs that may overlap, with every pair of messages; and one run with a call.
MCScenes ==
    {[reports |-> MCReport(k), cast |-> {c1, c2}, named |-> {}, mishaps |-> 1] :
        k \in MCDenials \cup {"skipped", "broken"}}
    \cup {[reports |-> MCReport(k), cast |-> {c1, p1}, named |-> {"n1"}, mishaps |-> 1] : k \in {"own", "team"}}
    \cup {[reports |-> MCReport("other"), cast |-> {c1, p1}, named |-> {"n1", "n2"}, mishaps |-> 0]}
====

--------------------------- MODULE MCGroupAccess ---------------------------
(* GroupAccess with model values; the calls are interchangeable. *)
EXTENDS GroupAccess, TLC

MCStatuses == {"pending", "approved"}
MCGroupLists == {{}, {"g"}}
MCSymmetry == Permutations(Calls) \cup Permutations(Ids)
=============================================================================

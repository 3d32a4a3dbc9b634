----------------------------- MODULE MCIncidents -----------------------------
(* Instances of Incidents for TLC. *)
EXTENDS Incidents, TLC

CONSTANTS officer, colleague, tab1, tab2

\* Two tabs of one officer; to PATCH they are as good as two officers.
MCUserOf == tab1 :> officer @@ tab2 :> officer

TabSymmetry == Permutations({tab1, tab2})

Body(status, severity, assignee, resolution) ==
    [status |-> status, severity |-> severity, assignee |-> assignee, resolution |-> resolution]

MCPatches ==
    {Body("resolved", "keep", colleague, "text"),    \* close and hand over
     Body("open", "high", None, "empty"),            \* reopen, raise, take back
     Body("false_positive", "keep", "keep", "keep")} \* refused
==============================================================================

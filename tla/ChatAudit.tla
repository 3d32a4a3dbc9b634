----------------------------- MODULE ChatAudit -----------------------------
(***************************************************************************)
(* What the audit trail promises of every chat request, whatever fails,    *)
(* whoever disconnects and whenever the process stops: no model is called  *)
(* and no verdict given before the request is recorded, one verdict at     *)
(* most, "blocked" exactly if no model was called, nothing shown before    *)
(* the verdict, and an incident only for a block or a leak, once.          *)
(***************************************************************************)
CONSTANT Requests

VARIABLES recorded, called, verdict, shown, raised

vars == <<recorded, called, verdict, shown, raised>>

Init ==
    /\ recorded = [r \in Requests |-> FALSE]
    /\ called = [r \in Requests |-> FALSE]
    /\ verdict = [r \in Requests |-> "none"]
    /\ shown = [r \in Requests |-> FALSE]
    /\ raised = [r \in Requests |-> FALSE]

Record(r) ==
    /\ ~recorded[r]
    /\ recorded' = [recorded EXCEPT ![r] = TRUE]
    /\ UNCHANGED <<called, verdict, shown, raised>>

Call(r) ==
    /\ recorded[r] /\ verdict[r] = "none"
    /\ called' = [called EXCEPT ![r] = TRUE]
    /\ UNCHANGED <<recorded, verdict, shown, raised>>

Conclude(r) ==
    /\ recorded[r] /\ verdict[r] = "none"
    /\ \E v \in IF called[r] THEN {"answered", "leaked"} ELSE {"blocked"} :
         verdict' = [verdict EXCEPT ![r] = v]
    /\ UNCHANGED <<recorded, called, shown, raised>>

Show(r) ==
    /\ verdict[r] # "none"
    /\ shown' = [shown EXCEPT ![r] = TRUE]
    /\ UNCHANGED <<recorded, called, verdict, raised>>

Raise(r) ==
    /\ verdict[r] \in {"leaked", "blocked"} /\ ~raised[r]
    /\ raised' = [raised EXCEPT ![r] = TRUE]
    /\ UNCHANGED <<recorded, called, verdict, shown>>

Next == \E r \in Requests : Record(r) \/ Call(r) \/ Conclude(r) \/ Show(r) \/ Raise(r)

Spec == Init /\ [][Next]_vars
=============================================================================

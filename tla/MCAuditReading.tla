--------------------------- MODULE MCAuditReading ---------------------------
(* Instances of AuditReading for TLC. *)
EXTENDS AuditReading

MCTypes == {"policy_tested", "chat_request", "audit_exported"}

\* Everything, and what happened since the first tick and is not an export.
MCFilters ==
    {[users |-> Users, types |-> MCTypes, from |-> 0, to |-> MaxTime],
     [users |-> Users, types |-> MCTypes \ {"audit_exported"}, from |-> 1, to |-> MaxTime]}

\* Readers meet only in the table, where any user may write as well: one at a time.
OneReader == Cardinality({u \in Users : reader[u].pc # "idle"}) <= 1
=============================================================================

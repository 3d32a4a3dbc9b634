----------------------------- MODULE MCChatFlow -----------------------------
(* Instances of ChatFlow for TLC. *)
EXTENDS ChatFlow

\* Risks the sanitizer reports (commercial data stands beside pii, russian_cloud
\* beside external in every rule, see PolicyCases for all of them).
MCRisks  == {r \in Risks : "commercial" \notin r.classes}
MCTrusts == Trusts \ {"russian_cloud"}

\* No retrieval, chunks no riskier than a request, or one that hardens any decision,
\* up to an escalation, beside one that every model may see.
MCRetrieval == {<<FALSE, {}>>} \cup ({TRUE} \X {{"", "low"}, {"low", "critical"}})

\* A review starts from an answer and no longer asks where the text came from, except
\* for a document, whose answers have no map.
MCInputs ==
    {i \in [trust : MCTrusts, risk : MCRisks, source : Sources, rag : BOOLEAN,
            hits : SUBSET (Levels \cup {""}), review : BOOLEAN] :
        /\ <<i.rag, i.hits>> \in MCRetrieval
        /\ i.review => i.source \in {"fresh", "document"}}

\* Enough for the runs about order rather than data.
MCFewInputs ==
    {[trust |-> t, risk |-> k, source |-> "fresh", rag |-> h # {}, hits |-> h, review |-> v] :
        t \in {"external", "trusted_local"}, k \in MCRisks, h \in {{}, {"critical"}}, v \in BOOLEAN}
=============================================================================

------------------------------- MODULE Policy -------------------------------
(***************************************************************************)
(* The pure decisions of the chat path: the sanitizer's risk score, the    *)
(* default policy, the revision of a decision after retrieval, and what    *)
(* the orchestrator does with a decision.                                  *)
(***************************************************************************)
EXTENDS Integers, FiniteSets

Trusts    == {"external", "russian_cloud", "on_prem", "trusted_local"}
Classes   == {"pii", "secret", "commercial"}
Levels    == {"low", "medium", "high", "critical"}
Decisions == {"allow_raw", "allow_masked", "allow_summary_only", "escalate", "deny"}

RiskOrder(level) ==
    IF level = "low" THEN 0
    ELSE IF level = "medium" THEN 1
    ELSE IF level = "high" THEN 2
    ELSE IF level = "critical" THEN 3
    ELSE -1

DecisionOrder(d) ==
    IF d = "allow_masked" THEN 1
    ELSE IF d = "allow_summary_only" THEN 2
    ELSE IF d = "escalate" THEN 3
    ELSE IF d = "deny" THEN 4
    ELSE 0

DecisionByOrder(n) ==
    IF n = 0 THEN "allow_raw"
    ELSE IF n = 1 THEN "allow_masked"
    ELSE IF n = 2 THEN "allow_summary_only"
    ELSE IF n = 3 THEN "escalate"
    ELSE "deny"

(***************************************************************************)
(* Risk of n entities of the given classes, in hundredths.                 *)
(***************************************************************************)

\* Mutant of CategoryBase.
PiiAlmostSecret(c) == IF c = "secret" THEN 90 ELSE IF c = "pii" THEN 75 ELSE 40

CategoryBase(c) == IF c = "secret" THEN 90 ELSE IF c = "pii" THEN 55 ELSE 40

AtMost(a, b) == IF a <= b THEN a ELSE b

\* score_risk: the largest base of a class present, plus 2 per entity up to 10.
Score(classes, n) ==
    LET base == CHOOSE b \in {CategoryBase(c) : c \in classes} :
                    \A c \in classes : CategoryBase(c) <= b
    IN  IF n = 0 THEN 0 ELSE AtMost(100, base + AtMost(10, 2 * n))

LevelFor(score) ==
    IF score >= 85 THEN "critical"
    ELSE IF score >= 60 THEN "high"
    ELSE IF score >= 30 THEN "medium"
    ELSE "low"

\* Every risk the sanitizer can report: a class needs an entity of its own.
MaxEntities == 5   \* from five entities on the density term is constant

Counted ==
    {p \in (SUBSET Classes) \X (0..MaxEntities) :
        Cardinality(p[1]) <= p[2] /\ (p[1] = {} <=> p[2] = 0)}

Risks == {[level |-> LevelFor(Score(p[1], p[2])), classes |-> p[1]] : p \in Counted}

(***************************************************************************)
(* DefaultPolicy: the first matching rule decides.                         *)
(***************************************************************************)

PiiOnly(classes) == "pii" \in classes   \* mutant of IsSensitive

IsSensitive(classes) == "pii" \in classes \/ "commercial" \in classes
IsExternalTrust(trust) == trust \in {"external", "russian_cloud"}

\* Mutant of Decide: external-sensitive-masked before external-high-summary.
DecideMaskedFirst(trust, risk) ==
    IF "secret" \in risk.classes THEN "deny"
    ELSE IF risk.level = "critical" THEN "escalate"
    ELSE IF IsExternalTrust(trust) /\ IsSensitive(risk.classes) THEN "allow_masked"
    ELSE IF IsExternalTrust(trust) /\ risk.level = "high" THEN "allow_summary_only"
    ELSE IF trust = "on_prem" /\ IsSensitive(risk.classes) THEN "allow_masked"
    ELSE "allow_raw"

Decide(trust, risk) ==
    IF "secret" \in risk.classes THEN "deny"
    ELSE IF risk.level = "critical" THEN "escalate"
    ELSE IF IsExternalTrust(trust) /\ risk.level = "high" THEN "allow_summary_only"
    ELSE IF IsExternalTrust(trust) /\ IsSensitive(risk.classes) THEN "allow_masked"
    ELSE IF IsExternalTrust(trust) THEN "allow_raw"
    ELSE IF trust = "on_prem" /\ IsSensitive(risk.classes) THEN "allow_masked"
    ELSE IF trust \in {"on_prem", "trusted_local"} THEN "allow_raw"
    ELSE "deny"

\* Mutant of Revise: no cap, the decision follows the riskiest chunk.
ReviseUncapped(decision, level, hits) ==
    IF \E h \in hits : RiskOrder(h) > RiskOrder(level)
    THEN DecisionByOrder(CHOOSE n \in 0..4 :
            /\ n >= DecisionOrder(decision)
            /\ \A h \in hits : n > RiskOrder(h))
    ELSE decision

\* maybeRevisePolicy: hits is the set of risk levels of the retrieved chunks
\* ("" for a chunk without one).  A riskier chunk costs one step, never more.
Revise(decision, level, hits) ==
    IF \E h \in hits : RiskOrder(h) > RiskOrder(level)
    THEN DecisionByOrder(AtMost(4, DecisionOrder(decision) + 1))
    ELSE decision

\* actionFor: whether the LLM is called, with which text, and how the answer
\* is treated before it is stored and shown.
CallsLLM(d)      == d \in {"allow_raw", "allow_masked", "allow_summary_only"}
SendsOriginal(d) == d = "allow_raw"
Remasks(d)       == d \in {"allow_masked", "allow_summary_only"}

\* FilterHighRiskForExternal
KeptForTrust(hits, trust) ==
    IF IsExternalTrust(trust) THEN hits \ {"high", "critical"} ELSE hits
=============================================================================

---------------------------- MODULE PolicyCases ----------------------------
(***************************************************************************)
(* The decision table of Policy, case by case: a state is one request, a   *)
(* step the same request with more risk or for a less trusted model.       *)
(***************************************************************************)
EXTENDS Policy

VARIABLES trust, risk, hits

vars == <<trust, risk, hits>>

RiskSpace == [level : Levels, classes : SUBSET Classes]
HitLevels == Levels \cup {""}     \* "": a chunk without a risk level

Case == trust \in Trusts /\ risk \in RiskSpace /\ hits \in SUBSET HitLevels

Init == Case

\* From the customer's perimeter outwards.
TrustOrder(t) == IF t = "trusted_local" THEN 0 ELSE IF t = "on_prem" THEN 1 ELSE 2

NoRiskier(r, s) == RiskOrder(r.level) <= RiskOrder(s.level) /\ r.classes \subseteq s.classes

Worsen ==
    /\ trust' \in Trusts /\ TrustOrder(trust) <= TrustOrder(trust')
    /\ risk' \in RiskSpace /\ NoRiskier(risk, risk')
    /\ UNCHANGED hits

Spec == Init /\ [][Worsen]_vars

Decision == Decide(trust, risk)
Final    == Revise(Decision, risk.level, hits)

\* DefaultPolicy, "first matching rule": more risk or less trust never buys a
\* milder decision.
NeverMilder == [][DecisionOrder(Decision) <= DecisionOrder(Decision')]_vars

\* maybeRevisePolicy: a riskier chunk hardens a decision by exactly one step
\* (deny stays), so one critical document cannot block every request.
RevisionCapped ==
    /\ DecisionOrder(Final) - DecisionOrder(Decision) \in 0..1
    /\ Final # Decision => \E h \in hits : RiskOrder(h) > RiskOrder(risk.level)

\* ARCHITECTURE.md, trust levels: an external model never gets the original of
\* a sensitive text and nothing of a text with a secret, whatever retrieval adds.
ExternalNeverRaw ==
    /\ /\ trust \in {"external", "russian_cloud"}
       /\ risk.classes \cap {"pii", "commercial"} # {}
       => ~SendsOriginal(Final)
    /\ "secret" \in risk.classes => ~CallsLLM(Final)

\* score_risk: a secret, and nothing else, makes a risk critical, so the rule
\* critical-escalate only ever fires through a secret that secret-deny catches
\* first: escalation comes from retrieval alone.
CriticalIsSecret ==
    risk \in Risks => (risk.level = "critical" <=> "secret" \in risk.classes)
=============================================================================

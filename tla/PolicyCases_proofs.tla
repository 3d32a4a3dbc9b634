-------------------------- MODULE PolicyCases_proofs --------------------------
(***************************************************************************)
(* The decision table, proved case by case.                                *)
(***************************************************************************)
EXTENDS PolicyCases, TLAPS

\* Every case stays a case.
THEOREM TypeCorrect == Spec => []Case
<1>1. Init => Case
  BY DEF Init
<1>2. Case /\ [Worsen]_vars => Case'
  BY DEF Case, Worsen, vars
<1> QED BY <1>1, <1>2, PTL DEF Spec

(***************************************************************************)
(* Decisions and their ranks                                               *)
(***************************************************************************)

LEMMA Ranks ==
    /\ \A d \in Decisions : DecisionOrder(d) \in 0..4 /\ DecisionByOrder(DecisionOrder(d)) = d
    /\ \A n \in 0..4 : DecisionByOrder(n) \in Decisions /\ DecisionOrder(DecisionByOrder(n)) = n
BY DEF Decisions, DecisionOrder, DecisionByOrder

LEMMA DecideType == \A t, r : Decide(t, r) \in Decisions
BY DEF Decide, Decisions

\* Revising costs nothing, or one step short of "deny", and only for a riskier chunk.
LEMMA ReviseStep ==
    ASSUME NEW d \in Decisions, NEW l, NEW hs
    PROVE  /\ Revise(d, l, hs) \in Decisions
           /\ Revise(d, l, hs) = d \/ DecisionOrder(Revise(d, l, hs)) = DecisionOrder(d) + 1
           /\ Revise(d, l, hs) # d => \E h \in hs : RiskOrder(h) > RiskOrder(l)
<1> DEFINE n == DecisionOrder(d)
<1>1. n \in 0..4 /\ DecisionByOrder(n) = d
  BY Ranks
<1>2. CASE \E h \in hs : RiskOrder(h) > RiskOrder(l)
  <2>1. Revise(d, l, hs) = DecisionByOrder(AtMost(4, n + 1))
    BY <1>2 DEF Revise
  <2>2. CASE n = 4
    <3>1. AtMost(4, n + 1) = n
      BY <2>2 DEF AtMost
    <3> QED BY <1>1, <1>2, <2>1, <3>1
  <2>3. CASE n # 4
    <3>1. AtMost(4, n + 1) = n + 1 /\ n + 1 \in 0..4
      BY <1>1, <2>3 DEF AtMost
    <3> QED BY <1>2, <2>1, <3>1, Ranks
  <2> QED BY <2>2, <2>3
<1>3. CASE ~\E h \in hs : RiskOrder(h) > RiskOrder(l)
  BY <1>3 DEF Revise
<1> QED BY <1>2, <1>3

\* maybeRevisePolicy hardens by one step at most, whatever retrieval found.
THEOREM RevisionIsCapped == Spec => []RevisionCapped
<1>1. RevisionCapped
  <2>1. Decision \in Decisions
    BY DecideType DEF Decision
  <2>2. /\ Final = Decision \/ DecisionOrder(Final) = DecisionOrder(Decision) + 1
        /\ Final # Decision => \E h \in hits : RiskOrder(h) > RiskOrder(risk.level)
    BY <2>1, ReviseStep DEF Final
  <2>3. DecisionOrder(Decision) \in 0..4
    BY <2>1, Ranks
  <2> QED BY <2>2, <2>3 DEF RevisionCapped
<1> QED BY <1>1, PTL

(***************************************************************************)
(* What an external model is never sent                                    *)
(***************************************************************************)

LEMMA ReviseNeverMilder ==
    ASSUME NEW d \in Decisions, NEW l, NEW hs
    PROVE  /\ d # "allow_raw" => Revise(d, l, hs) # "allow_raw"
           /\ d = "deny" => Revise(d, l, hs) = "deny"
<1> DEFINE f == Revise(d, l, hs)
<1>1. f \in Decisions /\ (f = d \/ DecisionOrder(f) = DecisionOrder(d) + 1)
  BY ReviseStep
<1> HIDE DEF f
<1>2. /\ d # "allow_raw" => f # "allow_raw"
      /\ d = "deny" => f = "deny"
  BY <1>1 DEF Decisions, DecisionOrder
<1> QED BY <1>2 DEF f

\* Rules, revision and actionFor together (ARCHITECTURE.md, trust levels).
THEOREM ExternalIsNeverRaw == Spec => []ExternalNeverRaw
<1>1. Case => ExternalNeverRaw
  <2> SUFFICES ASSUME Case PROVE ExternalNeverRaw
    OBVIOUS
  <2>1. Decision \in Decisions
    BY DecideType DEF Decision
  <2>2. /\ Decision # "allow_raw" => Final # "allow_raw"
        /\ Decision = "deny" => Final = "deny"
    BY <2>1, ReviseNeverMilder DEF Final
  <2>3. ASSUME trust \in {"external", "russian_cloud"},
               risk.classes \cap {"pii", "commercial"} # {}
        PROVE  ~SendsOriginal(Final)
    <3>1. Decision # "allow_raw"
      BY <2>3 DEF Decision, Decide, IsExternalTrust, IsSensitive
    <3> QED BY <2>2, <3>1 DEF SendsOriginal
  <2>4. ASSUME "secret" \in risk.classes
        PROVE  ~CallsLLM(Final)
    <3>1. Decision = "deny"
      BY <2>4 DEF Decision, Decide
    <3> QED BY <2>2, <3>1 DEF CallsLLM
  <2> QED BY <2>3, <2>4 DEF ExternalNeverRaw
<1> QED BY <1>1, TypeCorrect, PTL

(***************************************************************************)
(* More risk or less trust is never answered more mildly                   *)
(***************************************************************************)

LEMMA Monotone ==
    ASSUME NEW t \in Trusts, NEW u \in Trusts, TrustOrder(t) <= TrustOrder(u),
           NEW r \in RiskSpace, NEW s \in RiskSpace, NoRiskier(r, s)
    PROVE  DecisionOrder(Decide(t, r)) <= DecisionOrder(Decide(u, s))
<1>1. /\ r.level \in Levels /\ s.level \in Levels /\ r.classes \subseteq s.classes
      /\ RiskOrder(r.level) <= RiskOrder(s.level)
  BY DEF RiskSpace, NoRiskier
<1>2. /\ r.level = "critical" => s.level = "critical"
      /\ r.level = "high" => s.level \in {"high", "critical"}
  BY <1>1 DEF Levels, RiskOrder
<1>3. /\ IsExternalTrust(t) => IsExternalTrust(u)
      /\ t = "on_prem" => u = "on_prem" \/ IsExternalTrust(u)
  BY DEF Trusts, TrustOrder, IsExternalTrust
<1>4. /\ "secret" \in r.classes => "secret" \in s.classes
      /\ IsSensitive(r.classes) => IsSensitive(s.classes)
  BY <1>1 DEF IsSensitive
<1>5. CASE "secret" \in s.classes
  <2>1. Decide(u, s) = "deny" /\ DecisionOrder(Decide(t, r)) \in 0..4
    BY <1>5, DecideType, Ranks DEF Decide
  <2> QED BY <2>1 DEF DecisionOrder
<1>6. CASE "secret" \notin s.classes /\ s.level = "critical"
  <2>1. Decide(u, s) = "escalate"
    BY <1>6 DEF Decide
  <2>2. Decide(t, r) # "deny"
    BY <1>4, <1>6 DEF Decide, Trusts, IsExternalTrust
  <2>3. Decide(t, r) \in Decisions
    BY DecideType
  <2> QED BY <2>1, <2>2, <2>3 DEF Decisions, DecisionOrder
<1>7. CASE "secret" \notin s.classes /\ s.level # "critical"
  <2>1. "secret" \notin r.classes /\ r.level # "critical"
    BY <1>2, <1>4, <1>7
  <2>2. CASE IsExternalTrust(t)
    BY <1>2, <1>3, <1>4, <1>7, <2>1, <2>2 DEF Decide, DecisionOrder
  <2>3. CASE t = "on_prem"
    BY <1>3, <1>4, <1>7, <2>1, <2>3 DEF Decide, DecisionOrder, IsExternalTrust
  <2>4. CASE t = "trusted_local"
    <3>1. Decide(t, r) = "allow_raw"
      BY <2>1, <2>4 DEF Decide, IsExternalTrust
    <3>2. DecisionOrder(Decide(u, s)) \in 0..4
      BY DecideType, Ranks
    <3> QED BY <3>1, <3>2 DEF DecisionOrder
  <2> QED BY <2>2, <2>3, <2>4 DEF Trusts, IsExternalTrust
<1> QED BY <1>5, <1>6, <1>7

\* The order of DefaultPolicy's rules: the first match never undercuts a later one.
THEOREM DecisionIsMonotone == Spec => NeverMilder
<1>1. Case /\ [Worsen]_vars => [DecisionOrder(Decision) <= DecisionOrder(Decision')]_vars
  <2> SUFFICES ASSUME Case, Worsen
               PROVE  DecisionOrder(Decision) <= DecisionOrder(Decision')
    BY DEF vars
  <2> QED BY Monotone DEF Case, Worsen, Decision
<1> QED BY <1>1, TypeCorrect, PTL DEF Spec, NeverMilder

(***************************************************************************)
(* The risk score                                                          *)
(***************************************************************************)

\* The class that counts most is the only one that can reach "critical" on its own,
\* however many entities there are: score_risk caps the density term.
LEMMA ScoreOfSecret ==
    ASSUME NEW classes \in SUBSET Classes, NEW n \in Nat, n > 0, classes # {}
    PROVE  /\ Score(classes, n) \in Nat
           /\ Score(classes, n) >= 85 <=> "secret" \in classes
<1> DEFINE Bases == {CategoryBase(c) : c \in classes}
           Top(b) == \A c \in classes : CategoryBase(c) <= b
           base == CHOOSE b \in Bases : Top(b)
           most == IF "secret" \in classes THEN 90 ELSE IF "pii" \in classes THEN 55 ELSE 40
<1>1. most \in Bases /\ Top(most)
  <2>1. \A c \in classes : c \in {"pii", "secret", "commercial"}
    BY DEF Classes
  <2>2. CASE "secret" \in classes
    BY <2>1, <2>2 DEF CategoryBase
  <2>3. CASE "secret" \notin classes /\ "pii" \in classes
    BY <2>1, <2>3 DEF CategoryBase
  <2>4. CASE "secret" \notin classes /\ "pii" \notin classes
    <3>1. "commercial" \in classes
      BY <2>1, <2>4
    <3> QED BY <2>1, <2>4, <3>1 DEF CategoryBase
  <2> QED BY <2>2, <2>3, <2>4
<1>2. base = most
  <2>1. base \in Bases /\ Top(base)
    BY <1>1
  <2>2. \A b \in Bases : b \in Nat
    BY DEF CategoryBase
  <2>3. base <= most /\ most <= base
    BY <1>1, <2>1
  <2> HIDE DEF base, Top, most
  <2> QED BY <1>1, <2>1, <2>2, <2>3
<1>3. Score(classes, n) = AtMost(100, base + AtMost(10, 2 * n))
  BY DEF Score
<1>4. AtMost(10, 2 * n) \in 1..10
  BY DEF AtMost
<1> HIDE DEF base
<1> QED BY <1>2, <1>3, <1>4 DEF AtMost

\* score_risk and the rules agree: among the risks the sanitizer can report, a secret
\* and nothing else is critical, so critical-escalate is never the first rule to match.
THEOREM OnlySecretsAreCritical == Spec => []CriticalIsSecret
<1>1. CriticalIsSecret
  <2> SUFFICES ASSUME risk \in Risks
               PROVE  risk.level = "critical" <=> "secret" \in risk.classes
    BY DEF CriticalIsSecret
  <2>1. PICK p \in Counted : risk = [level |-> LevelFor(Score(p[1], p[2])), classes |-> p[1]]
    BY DEF Risks
  <2>2. /\ p[1] \in SUBSET Classes /\ p[2] \in Nat
        /\ p[1] = {} <=> p[2] = 0
    BY DEF Counted, MaxEntities
  <2>3. CASE p[2] = 0
    BY <2>1, <2>2, <2>3 DEF Score, LevelFor
  <2>4. CASE p[2] > 0
    <3>1. /\ Score(p[1], p[2]) \in Nat
          /\ Score(p[1], p[2]) >= 85 <=> "secret" \in p[1]
      BY <2>2, <2>4, ScoreOfSecret
    <3>2. LevelFor(Score(p[1], p[2])) = "critical" <=> Score(p[1], p[2]) >= 85
      BY <3>1 DEF LevelFor
    <3> QED BY <2>1, <3>1, <3>2
  <2> QED BY <2>2, <2>3, <2>4
<1> QED BY <1>1, PTL
===============================================================================

---------------------------- MODULE PolicyProofs ----------------------------
(***************************************************************************)
(* Proofs about PolicyEvaluation and ReviewReport, for any thresholds, any *)
(* length of a day and any evidence: findings are those of the evidence,   *)
(* neither time nor a stricter context improves them, the report explains  *)
(* what they lack and an approval acknowledges it.                         *)
(***************************************************************************)
EXTENDS ReviewReport, OrderProofs

\* What is evaluated is typed, and the findings are of exactly that.
PolicyInv ==
  /\ context \in Context
  /\ evidence \in Evidence
  /\ evaluatedAt \in Nat
  /\ findings = EvaluateSlice(context, evidence, evaluatedAt)

LEMMA InitIsEvaluated == Init => PolicyInv
BY EvidenceSetsAreTyped, InstantsAreNumbers DEF Init, PolicyInv

LEMMA NextIsEvaluated == PolicyInv /\ [Next]_vars => PolicyInv'
<1>1. CASE UNCHANGED vars
  BY <1>1 DEF PolicyInv, vars
<1>2. ASSUME PolicyInv, NEW t \in Instants, Later(t)
      PROVE  PolicyInv'
  BY <1>2, InstantsAreNumbers DEF PolicyInv, Later
<1> QED BY <1>1, <1>2 DEF Next

\* A review and a decision leave the evaluation alone.
LEMMA ReviewsEvaluateNothing == [ReviewNext]_reviewVars => [Next]_vars
<1>1. ASSUME Review PROVE UNCHANGED vars
  BY <1>1 DEF Review, vars
<1>2. ASSUME NEW d, NEW c, NEW r, NEW s, Decide(d, c, r, s) PROVE UNCHANGED vars
  BY <1>2 DEF Decide, vars
<1>3. ASSUME UNCHANGED reviewVars PROVE UNCHANGED vars
  BY <1>3 DEF reviewVars, vars
<1> QED BY <1>1, <1>2, <1>3 DEF ReviewNext, Evaluate

\* Reviewing and deciding is a behaviour of the policy evaluation, so what holds of the
\* evaluation holds of every evaluation that is reviewed.
THEOREM ReviewsImplementEvaluation == ReviewSpec => Spec
<1>1. ReviewInit => Init
  BY DEF ReviewInit
<1> QED BY <1>1, ReviewsEvaluateNothing, PTL DEF ReviewSpec, Spec

LEMMA FindingsAreOfTheEvidence == Spec => []PolicyInv
<1> QED BY InitIsEvaluated, NextIsEvaluated, PTL DEF Spec

-----------------------------------------------------------------------------
(* Facts about the rules. *)

LEMMA RequirementsDiffer == "error" \notin Requirements /\ Requirements # {"error"}
BY DEF Requirements

\* There are findings exactly if the evaluation had no error.
LEMMA FindingsOfEvaluated ==
  ASSUME PolicyInv, Evaluated
  PROVE  /\ EvaluationError(evidence, evaluatedAt) = "none"
         /\ \A r \in Requirements :
              findings[r] = PolicyOutcome(r, context, evidence, evaluatedAt)
<1>1. DOMAIN [error |-> EvaluationError(evidence, evaluatedAt)] = {"error"}
  OBVIOUS
<1>2. EvaluationError(evidence, evaluatedAt) = "none"
  BY <1>1, RequirementsDiffer DEF PolicyInv, Evaluated, EvaluateSlice
<1> QED BY <1>2 DEF PolicyInv, EvaluateSlice

LEMMA ErrorFreeIsEvaluated ==
  ASSUME PolicyInv, EvaluationError(evidence, evaluatedAt) = "none"
  PROVE  Evaluated
BY DEF PolicyInv, EvaluateSlice, Evaluated

\* A usable commit record has a commit.
LEMMA CommitIsNumber ==
  ASSUME NEW e \in Evidence, e.commit_recency.outcome = "available"
  PROVE  e.commit_recency.value \in Nat
<1>1. e.commit_recency \in Record(Commits)
  BY DEF Evidence
<1>2. e.commit_recency \in
        [outcome : {"available"}, freshness : Freshness, value : Commits, attemptedAt : Attempts]
  BY <1>1 DEF Record
<1> QED BY <1>2, InstantsAreNumbers

LEMMA AttemptIsNumber ==
  ASSUME NEW e \in Evidence, NEW r \in Requirements
  PROVE  e[r].attemptedAt \in Nat
<1>1. e[r] \in Record(BOOLEAN) \/ e[r] \in Record(Commits)
  BY DEF Evidence, Requirements
<1> QED BY <1>1, InstantsAreNumbers DEF Record

LEMMA ThresholdsAreNumbers ==
  ASSUME NEW c
  PROVE  /\ Threshold(c) \in Nat
         /\ Threshold(c) * Day \in Nat
         /\ StrictRecency * Day <= BroaderRecency * Day
<1>1. Threshold(c) \in Nat
  BY RecencyIsOrdered DEF Threshold
<1>2. \A k \in Nat : k * Day \in Nat
  BY DayIsPositive
<1>3. PICK d \in Nat : BroaderRecency = StrictRecency + d
  <2>1. BroaderRecency - StrictRecency \in Nat
    BY RecencyIsOrdered
  <2> QED BY <2>1, RecencyIsOrdered
<1>4. BroaderRecency * Day = StrictRecency * Day + d * Day
  BY <1>3, RecencyIsOrdered, DayIsPositive
<1>5. d * Day >= 0 /\ d * Day \in Nat /\ StrictRecency * Day \in Nat
  BY <1>2, RecencyIsOrdered
<1> QED BY <1>1, <1>2, <1>4, <1>5

\* Strictness is monotone in the context.
LEMMA StrictnessIsMonotone ==
  ASSUME NEW c \in Context, NEW d \in Context, NoStricter(c, d), RequiresStrictControls(c)
  PROVE  RequiresStrictControls(d)
<1>1. c.lifetime \in Nat /\ d.lifetime \in Nat /\ StrictLifetime \in Nat
  BY InstantsAreNumbers DEF Context
<1>2. CASE c.environment = "production"
  BY <1>2 DEF NoStricter, RequiresStrictControls
<1>3. CASE c.criticality = "critical"
  BY <1>3 DEF NoStricter, RequiresStrictControls
<1>4. CASE c.lifetime > StrictLifetime
  BY <1>1, <1>4 DEF NoStricter, RequiresStrictControls
<1>5. CASE c.tolerance = "low"
  BY <1>5 DEF NoStricter, RequiresStrictControls
<1> QED BY <1>2, <1>3, <1>4, <1>5 DEF RequiresStrictControls

LEMMA RanksOfOutcomes ==
  /\ Rank("pass") = 2 /\ Rank("condition_required") = 1
  /\ Rank("fail") = 0 /\ Rank("not_evaluable") = 0
BY DEF Rank

-----------------------------------------------------------------------------
(* A stricter context. *)

LEMMA StricterThreshold ==
  ASSUME NEW c \in Context, NEW d \in Context, NoStricter(c, d)
  PROVE  Threshold(d) * Day <= Threshold(c) * Day
<1>1. CASE RequiresStrictControls(c)
  BY <1>1, StrictnessIsMonotone, ThresholdsAreNumbers DEF Threshold
<1>2. CASE ~RequiresStrictControls(c)
  BY <1>2, ThresholdsAreNumbers DEF Threshold
<1> QED BY <1>1, <1>2

LEMMA StricterOutcome ==
  ASSUME NEW c \in Context, NEW d \in Context, NoStricter(c, d),
         NEW e \in Evidence, NEW t \in Nat, NEW r \in Requirements
  PROVE  Rank(PolicyOutcome(r, d, e, t)) <= Rank(PolicyOutcome(r, c, e, t))
<1>1. CASE ~Usable(e[r])
  BY <1>1, RanksOfOutcomes DEF PolicyOutcome
<1>2. CASE Usable(e[r]) /\ r = "commit_recency"
  <2>1. e.commit_recency.value \in Nat
    BY <1>2, CommitIsNumber DEF Usable
  <2>2. Recent(d, e, t) => Recent(c, e, t)
    <3>1. Threshold(d) * Day <= Threshold(c) * Day
      BY StricterThreshold
    <3>2. Threshold(c) * Day \in Nat /\ Threshold(d) * Day \in Nat
      BY ThresholdsAreNumbers
    <3> QED BY <2>1, <3>1, <3>2 DEF Recent
  <2> QED BY <1>2, <2>2, RanksOfOutcomes DEF PolicyOutcome, ObservedOutcome
<1>3. CASE Usable(e[r]) /\ r # "commit_recency"
  <2>1. Rank(Missing(d)) <= Rank(Missing(c))
    BY StrictnessIsMonotone, RanksOfOutcomes DEF Missing
  <2>2. Rank(Missing(c)) \in 0..2 /\ Rank(Missing(d)) \in 0..2
    BY RanksOfOutcomes DEF Missing
  <2> QED BY <1>3, <2>1, <2>2, RanksOfOutcomes DEF PolicyOutcome, ObservedOutcome
<1> QED BY <1>1, <1>2, <1>3

\* For any thresholds, contexts and evidence, a context that asks for more in any respect
\* never gets a better finding (_requires_strict_controls, _policy_outcome).
THEOREM StrictnessNeverHelps == ReviewSpec => []StricterNeverHelps
<1>1. PolicyInv => StricterNeverHelps
  <2> SUFFICES ASSUME PolicyInv, Evaluated, NEW c \in Context, NoStricter(c, context),
                      NEW r \in Requirements
               PROVE  Rank(findings[r]) <= Rank(PolicyOutcome(r, c, evidence, evaluatedAt))
    BY DEF StricterNeverHelps
  <2>1. findings[r] = PolicyOutcome(r, context, evidence, evaluatedAt)
    BY FindingsOfEvaluated
  <2> QED BY <2>1, StricterOutcome DEF PolicyInv
<1> QED BY <1>1, ReviewsImplementEvaluation, FindingsAreOfTheEvidence, PTL

-----------------------------------------------------------------------------
(* Time. *)

LEMMA LaterOutcome ==
  ASSUME NEW e \in Evidence, NEW t \in Nat, NEW u \in Nat, t <= u,
         NEW c, NEW r \in Requirements
  PROVE  Rank(PolicyOutcome(r, c, e, u)) <= Rank(PolicyOutcome(r, c, e, t))
<1>1. CASE ~Usable(e[r])
  BY <1>1, RanksOfOutcomes DEF PolicyOutcome
<1>2. CASE Usable(e[r]) /\ r = "commit_recency"
  <2>1. e.commit_recency.value \in Nat
    BY <1>2, CommitIsNumber DEF Usable
  <2>2. Recent(c, e, u) => Recent(c, e, t)
    <3>1. Threshold(c) * Day \in Nat
      BY ThresholdsAreNumbers
    <3> QED BY <2>1, <3>1 DEF Recent
  <2> QED BY <1>2, <2>2, RanksOfOutcomes DEF PolicyOutcome, ObservedOutcome
<1>3. CASE Usable(e[r]) /\ r # "commit_recency"
  <2>1. PolicyOutcome(r, c, e, u) = PolicyOutcome(r, c, e, t)
    BY <1>3 DEF PolicyOutcome, ObservedOutcome
  <2>2. PolicyOutcome(r, c, e, u) \in {"pass", "fail", "condition_required"}
    BY <1>3 DEF PolicyOutcome, ObservedOutcome, Missing
  <2> QED BY <2>1, <2>2, RanksOfOutcomes
<1> QED BY <1>1, <1>2, <1>3

LEMMA LaterIsErrorFree ==
  ASSUME NEW e \in Evidence, NEW t \in Nat, NEW u \in Nat, t <= u,
         EvaluationError(e, t) = "none"
  PROVE  EvaluationError(e, u) = "none"
<1>1. \A r \in Requirements : ~(e[r].attemptedAt > u)
  <2> SUFFICES ASSUME NEW r \in Requirements PROVE ~(e[r].attemptedAt > u)
    OBVIOUS
  <2>1. ~(e[r].attemptedAt > t)
    BY DEF EvaluationError
  <2> QED BY <2>1, AttemptIsNumber
<1>2. ~(e.commit_recency.outcome = "available" /\ e.commit_recency.value > u)
  <2>1. ~(e.commit_recency.outcome = "available" /\ e.commit_recency.value > t)
    BY DEF EvaluationError
  <2> QED BY <2>1, CommitIsNumber
<1> QED BY <1>1, <1>2 DEF EvaluationError

\* Time alone never improves a finding and never makes an evaluation impossible, whatever the
\* thresholds are.
THEOREM AgeNeverHelps == ReviewSpec => AgeingNeverHelps
<1>1. ASSUME PolicyInv, PolicyInv', [Next]_vars, Evaluated
      PROVE  /\ Evaluated'
             /\ \A r \in Requirements : Rank(findings'[r]) <= Rank(findings[r])
  <2>1. context' = context /\ evidence' = evidence
    BY <1>1 DEF Next, Later, vars
  <2>2. evaluatedAt \in Nat /\ evaluatedAt' \in Nat /\ evaluatedAt <= evaluatedAt'
    BY <1>1 DEF Next, Later, vars, PolicyInv
  <2>3. EvaluationError(evidence, evaluatedAt) = "none"
    BY <1>1, FindingsOfEvaluated
  <2>4. EvaluationError(evidence, evaluatedAt') = "none"
    BY <1>1, <2>2, <2>3, LaterIsErrorFree DEF PolicyInv
  <2>5. findings' = [r \in Requirements |-> PolicyOutcome(r, context, evidence, evaluatedAt')]
    BY <1>1, <2>1, <2>4 DEF PolicyInv, EvaluateSlice
  <2>6. \A r \in Requirements :
          findings[r] = PolicyOutcome(r, context, evidence, evaluatedAt)
    BY <1>1, FindingsOfEvaluated
  <2>7. Evaluated'
    BY <2>5 DEF Evaluated
  <2>8. ASSUME NEW r \in Requirements
        PROVE  Rank(findings'[r]) <= Rank(findings[r])
    BY <1>1, <2>2, <2>5, <2>6, <2>8, LaterOutcome DEF PolicyInv
  <2> QED BY <2>7, <2>8
<1> QED BY <1>1, ReviewsImplementEvaluation, FindingsAreOfTheEvidence, PTL
        DEF AgeingNeverHelps, Spec

-----------------------------------------------------------------------------
(* Floored days. *)

LEMMA FlooredDays ==
  ASSUME NEW a \in Nat, NEW k \in Nat
  PROVE  /\ a <= k * Day => a \div Day <= k
         /\ a > k * Day => a \div Day >= k
<1> DEFINE q == a \div Day
<1>1. Day \in Nat /\ Day > 0
  BY DayIsPositive
<1>2. q \in Int /\ q * Day <= a /\ a < q * Day + Day
  BY <1>1
<1>3. \A m, n \in Int : m <= n => m * Day <= n * Day
  <2> SUFFICES ASSUME NEW m \in Int, NEW n \in Int, m <= n PROVE m * Day <= n * Day
    OBVIOUS
  <2>1. (n - m) * Day >= 0
    BY <1>1
  <2>2. (n - m) * Day = n * Day - m * Day
    BY <1>1
  <2>3. n * Day \in Int /\ m * Day \in Int
    BY <1>1
  <2> QED BY <2>1, <2>2, <2>3
<1>4. k * Day \in Int /\ q * Day \in Int
  BY <1>1, <1>2
<1>5. ASSUME a <= k * Day, q > k PROVE FALSE
  <2>1. (k + 1) * Day <= q * Day
    BY <1>2, <1>3, <1>5
  <2>2. (k + 1) * Day = k * Day + Day
    BY <1>1
  <2> QED BY <1>1, <1>2, <1>4, <1>5, <2>1, <2>2
<1>6. ASSUME a > k * Day, q < k PROVE FALSE
  <2>1. (q + 1) * Day <= k * Day
    BY <1>2, <1>3, <1>6
  <2>2. (q + 1) * Day = q * Day + Day
    BY <1>1, <1>2
  <2> QED BY <1>1, <1>2, <1>4, <1>6, <2>1, <2>2
<1> QED BY <1>2, <1>5, <1>6

LEMMA BroadContexts ==
  ASSUME NEW c \in Context
  PROVE  c \in [environment : {"internal"}, criticality : {"low"},
                lifetime : 0..StrictLifetime, tolerance : {"tolerant"}]
           <=> ~RequiresStrictControls(c)
<1>1. c.lifetime \in Nat /\ StrictLifetime \in Nat
  BY InstantsAreNumbers DEF Context
<1>2. c.lifetime \in 0..StrictLifetime <=> ~(c.lifetime > StrictLifetime)
  BY <1>1
<1> QED BY <1>2 DEF Context, RequiresStrictControls

\* The floored days shown beside a finding never contradict its exact comparison, for any
\* length of a day and any thresholds (_metric_result, _policy_outcome).
THEOREM DaysNeverContradict == ReviewSpec => []DaysAgreeWithFinding
<1>1. PolicyInv => DaysAgreeWithFinding
  <2> DEFINE limit == IF context \in [environment : {"internal"}, criticality : {"low"},
                                      lifetime : 0..StrictLifetime, tolerance : {"tolerant"}]
                      THEN BroaderRecency ELSE StrictRecency
             age == evaluatedAt - evidence.commit_recency.value
  <2> SUFFICES ASSUME PolicyInv, Evaluated, findings["commit_recency"] # "not_evaluable"
               PROVE  IF findings["commit_recency"] = "pass"
                      THEN age \div Day <= limit ELSE age \div Day >= limit
    BY DEF DaysAgreeWithFinding, DaysSinceLatestCommit
  <2>1. limit = Threshold(context)
    BY BroadContexts DEF PolicyInv, Threshold
  <2>2. /\ EvaluationError(evidence, evaluatedAt) = "none"
        /\ findings["commit_recency"] =
             PolicyOutcome("commit_recency", context, evidence, evaluatedAt)
    BY FindingsOfEvaluated DEF Requirements
  <2>3. Usable(evidence.commit_recency)
    BY <2>2 DEF PolicyOutcome
  <2>4. age \in Nat
    <3>1. evidence.commit_recency.value \in Nat
      BY <2>3, CommitIsNumber DEF Usable, PolicyInv
    <3>2. ~(evidence.commit_recency.value > evaluatedAt)
      BY <2>2, <2>3 DEF EvaluationError, Usable
    <3> QED BY <3>1, <3>2 DEF PolicyInv
  <2>5. findings["commit_recency"] = IF age <= limit * Day THEN "pass" ELSE "fail"
    BY <2>1, <2>2, <2>3 DEF PolicyOutcome, ObservedOutcome, Recent
  <2>6. limit \in Nat /\ limit * Day \in Nat
    BY <2>1, ThresholdsAreNumbers
  <2> HIDE DEF age, limit
  <2> QED BY <2>4, <2>5, <2>6, FlooredDays
<1> QED BY <1>1, ReviewsImplementEvaluation, FindingsAreOfTheEvidence, PTL

-----------------------------------------------------------------------------
(* Requirements, metrics and kinds correspond. *)

KindOf(r) == MetricToEvidenceKind[RequirementToMetric[r]]

LEMMA RequirementsAreFour ==
  /\ DOMAIN MetricToEvidenceKind =
       {"repository_archived", "license_present", "days_since_latest_commit",
        "security_policy_present"}
  /\ DOMAIN Records =
       {"repository_archived", "license_status", "latest_commit_timestamp",
        "security_policy_present"}
BY DEF MetricToEvidenceKind, Records

LEMMA RequirementsCorrespond ==
  /\ \A r \in Requirements :
       /\ RequirementToMetric[r] \in DOMAIN MetricToEvidenceKind
       /\ KindOf(r) \in DOMAIN Records
       /\ Records[KindOf(r)] = evidence[r]
  /\ \A q, r \in Requirements : RequirementToMetric[q] = RequirementToMetric[r] => q = r
  /\ \A q, r \in Requirements : KindOf(q) = KindOf(r) => q = r
  /\ \A m \in DOMAIN MetricToEvidenceKind : \E r \in Requirements : RequirementToMetric[r] = m
  /\ \A k \in DOMAIN Records : \E r \in Requirements : KindOf(r) = k
<1> USE RequirementsAreFour
<1>1. /\ RequirementToMetric["repository_not_archived"] = "repository_archived"
      /\ RequirementToMetric["license_declared"] = "license_present"
      /\ RequirementToMetric["commit_recency"] = "days_since_latest_commit"
      /\ RequirementToMetric["security_policy"] = "security_policy_present"
  BY DEF RequirementToMetric
<1>2. /\ KindOf("repository_not_archived") = "repository_archived"
      /\ KindOf("license_declared") = "license_status"
      /\ KindOf("commit_recency") = "latest_commit_timestamp"
      /\ KindOf("security_policy") = "security_policy_present"
  BY <1>1 DEF KindOf, MetricToEvidenceKind
<1>3. /\ Records["repository_archived"] = evidence["repository_not_archived"]
      /\ Records["license_status"] = evidence["license_declared"]
      /\ Records["latest_commit_timestamp"] = evidence["commit_recency"]
      /\ Records["security_policy_present"] = evidence["security_policy"]
  BY DEF Records
<1> HIDE DEF KindOf
<1> QED BY <1>1, <1>2, <1>3 DEF Requirements

\* Each of the three orders lists its four, each once.
LEMMA OrdersAreComplete ==
  /\ RequirementOrder \in Seq(Requirements) /\ ToSet(RequirementOrder) = Requirements
  /\ MetricOrder \in Seq(DOMAIN MetricToEvidenceKind)
  /\ ToSet(MetricOrder) = DOMAIN MetricToEvidenceKind
  /\ KindOrder \in Seq(DOMAIN Records) /\ ToSet(KindOrder) = DOMAIN Records
  /\ \A i, j \in 1..Len(KindOrder) : KindOrder[i] = KindOrder[j] => i = j
<1>1. 1..4 = {1, 2, 3, 4}
  OBVIOUS
<1>2. DOMAIN RequirementOrder = 1..4 /\ DOMAIN KindOrder = 1..4 /\ Len(KindOrder) = 4
  BY DEF RequirementOrder, KindOrder
<1>3. /\ MetricOrder[1] = "repository_archived" /\ MetricOrder[2] = "license_present"
      /\ MetricOrder[3] = "days_since_latest_commit"
      /\ MetricOrder[4] = "security_policy_present"
      /\ DOMAIN MetricOrder = 1..4
  BY DEF MetricOrder, RequirementOrder, RequirementToMetric
<1>4. ToSet(RequirementOrder) = Requirements
  BY <1>1, <1>2 DEF ToSet, RequirementOrder, Requirements
<1>5. ToSet(KindOrder) = DOMAIN Records
  BY <1>1, <1>2, RequirementsAreFour DEF ToSet, KindOrder
<1>6. ToSet(MetricOrder) = DOMAIN MetricToEvidenceKind
  BY <1>1, <1>3, RequirementsAreFour DEF ToSet
<1>7. MetricOrder \in Seq(DOMAIN MetricToEvidenceKind)
  <2>1. MetricOrder = [i \in 1..4 |-> MetricOrder[i]]
    BY DEF MetricOrder
  <2>2. \A i \in 1..4 : MetricOrder[i] \in DOMAIN MetricToEvidenceKind
    BY <1>3, <1>6 DEF ToSet
  <2> QED BY <2>1, <2>2
<1>8. RequirementOrder \in Seq(Requirements)
  BY DEF RequirementOrder, Requirements
<1>9. KindOrder \in Seq(DOMAIN Records)
  BY RequirementsAreFour DEF KindOrder
<1>10. \A i, j \in 1..Len(KindOrder) : KindOrder[i] = KindOrder[j] => i = j
  BY <1>1, <1>2 DEF KindOrder
<1> QED BY <1>4, <1>5, <1>6, <1>7, <1>8, <1>9, <1>10

-----------------------------------------------------------------------------
(* Weak records. *)

WeakRequirements == {f \in Requirements : ~Usable(evidence[f])}

LEMMA RecordsAreTyped ==
  ASSUME PolicyInv, NEW f \in Requirements
  PROVE  /\ evidence[f].outcome \in {"available", "unavailable"}
         /\ evidence[f].freshness \in Freshness
<1>1. evidence[f] \in Record(BOOLEAN) \/ evidence[f] \in Record(Commits)
  BY DEF PolicyInv, Evidence, Requirements
<1> QED BY <1>1 DEF Record

\* Only a weak record makes a finding not evaluable.
LEMMA NotEvaluableIsWeak ==
  ASSUME PolicyInv, Evaluated
  PROVE  {f \in Requirements : findings[f] = "not_evaluable"} = WeakRequirements
<1>1. ASSUME NEW f \in Requirements
      PROVE  findings[f] = "not_evaluable" <=> ~Usable(evidence[f])
  <2>1. findings[f] = PolicyOutcome(f, context, evidence, evaluatedAt)
    BY FindingsOfEvaluated
  <2> QED BY <2>1 DEF PolicyOutcome, ObservedOutcome, Missing
<1> QED BY <1>1 DEF WeakRequirements

\* Exactly the weak records are listed, under the kinds and metrics that belong to them.
LEMMA ListsAreOfWeakRecords ==
  ASSUME PolicyInv
  PROVE  /\ ToSet(UnusableEvidence) = {KindOf(f) : f \in WeakRequirements}
         /\ ToSet(UnavailableMetrics) = {RequirementToMetric[f] : f \in WeakRequirements}
         /\ UnusableEvidence = <<>> <=> WeakRequirements = {}
         /\ UnavailableMetrics = <<>> <=> WeakRequirements = {}
         /\ Cardinality(ToSet(UnusableEvidence)) = Len(UnusableEvidence)
<1> DEFINE kinds == {kind \in DOMAIN Records : IsUnusable(Records[kind])}
           metrics == {metric \in DOMAIN MetricToEvidenceKind :
                         MetricResult(metric).status = "unavailable"}
<1>1. \A f \in Requirements : IsUnusable(evidence[f]) <=> ~Usable(evidence[f])
  BY RecordsAreTyped DEF IsUnusable, Usable
<1>2. \A f \in Requirements :
        MetricResult(RequirementToMetric[f]).status = "unavailable" <=> ~Usable(evidence[f])
  BY RequirementsCorrespond DEF MetricResult, KindOf
<1>3. kinds = {KindOf(f) : f \in WeakRequirements}
  BY <1>1, RequirementsCorrespond DEF WeakRequirements
<1>4. metrics = {RequirementToMetric[f] : f \in WeakRequirements}
  BY <1>2, RequirementsCorrespond DEF WeakRequirements
<1>5. /\ ToSet(UnusableEvidence) = kinds
      /\ UnusableEvidence = <<>> <=> kinds = {}
      /\ Cardinality(kinds) = Len(UnusableEvidence)
  BY OrdersAreComplete, InOrderContents, InOrderLength DEF UnusableEvidence
<1>6. /\ ToSet(UnavailableMetrics) = metrics
      /\ UnavailableMetrics = <<>> <=> metrics = {}
  BY OrdersAreComplete, InOrderContents DEF UnavailableMetrics
<1> HIDE DEF kinds, metrics
<1> QED BY <1>3, <1>4, <1>5, <1>6

\* As many findings are not evaluable as records are listed.
LEMMA CountsAgree ==
  ASSUME PolicyInv
  PROVE  Cardinality(WeakRequirements) = Len(UnusableEvidence)
<1> DEFINE b == [f \in WeakRequirements |-> KindOf(f)]
           T == ToSet(UnusableEvidence)
<1>1. T = {KindOf(f) : f \in WeakRequirements}
  BY ListsAreOfWeakRecords
<1>2. IsFiniteSet(WeakRequirements)
  <2>1. IsFiniteSet({}) /\ Requirements =
          (((({} \union {"repository_not_archived"}) \union {"license_declared"})
             \union {"commit_recency"}) \union {"security_policy"})
    BY FS_EmptySet DEF Requirements
  <2>2. IsFiniteSet(Requirements)
    BY <2>1, FS_AddElement
  <2> QED BY <2>2, FS_Subset DEF WeakRequirements
<1> HIDE DEF T
<1>3. b \in [WeakRequirements -> T] /\ \A k \in T : \E f \in WeakRequirements : b[f] = k
  BY <1>1
<1>4. \A f, g \in WeakRequirements : b[f] = b[g] => f = g
  BY RequirementsCorrespond DEF WeakRequirements
<1> HIDE DEF b
<1>5. ExistsBijection(WeakRequirements, T)
  BY <1>3, <1>4 DEF ExistsBijection, Bijection, Injection, Surjection, IsInjective
<1>6. Cardinality(T) = Cardinality(WeakRequirements)
  BY <1>2, <1>5, FS_Bijection
<1> QED BY <1>6, ListsAreOfWeakRecords DEF T

\* What rests on the record of a requirement is that requirement and its metric.
LEMMA AffectedIsOwn ==
  ASSUME NEW f \in Requirements
  PROVE  /\ AffectedMetrics(KindOf(f)) = {RequirementToMetric[f]}
         /\ AffectedFindings(KindOf(f)) = {f}
<1>1. AffectedMetrics(KindOf(f)) = {RequirementToMetric[f]}
  <2>1. \A m \in DOMAIN MetricToEvidenceKind :
          MetricToEvidenceKind[m] = KindOf(f) <=> m = RequirementToMetric[f]
    BY RequirementsCorrespond DEF KindOf
  <2> QED BY <2>1, RequirementsCorrespond DEF AffectedMetrics, InputEvidence
<1>2. \A q \in Requirements :
        KindOf(f) \in InputEvidence(RequirementToMetric[q]) <=> q = f
  BY RequirementsCorrespond DEF InputEvidence, KindOf
<1>3. \A q \in Requirements : RequirementToMetric[q] \in {RequirementToMetric[f]} <=> q = f
  BY RequirementsCorrespond
<1> QED BY <1>1, <1>2, <1>3 DEF AffectedFindings

-----------------------------------------------------------------------------
(* The report. *)

\* A report is of the findings of the moment, which stay, and a decision came with one.
ReportInv ==
  /\ report # NoReport =>
       /\ Evaluated
       /\ report.counts = Report.counts
       /\ report.evidence = UnusableEvidence
       /\ report.acknowledgments = RequiredAcknowledgments
       /\ report.complete <=> UnusableEvidence = <<>> /\ UnavailableMetrics = <<>>
       /\ report.gaps = Gaps
       /\ report.metricGaps = MetricGaps
  /\ decision # NoDecision =>
       /\ report # NoReport
       /\ decision.disposition \in {"approve", "approve_with_conditions"} =>
            decision.acknowledged = NonPassing

LEMMA FrozenReport ==
  ASSUME UNCHANGED <<evidence, findings>>
  PROVE  /\ Evaluated' = Evaluated
         /\ Report.counts' = Report.counts
         /\ UnusableEvidence' = UnusableEvidence
         /\ UnavailableMetrics' = UnavailableMetrics
         /\ RequiredAcknowledgments' = RequiredAcknowledgments
         /\ NonPassing' = NonPassing
         /\ Gaps' = Gaps
         /\ MetricGaps' = MetricGaps
<1>1. Records' = Records
  BY DEF Records
<1>2. UnusableEvidence' = UnusableEvidence
  BY <1>1 DEF UnusableEvidence
<1>3. \A m : MetricResult(m)' = MetricResult(m)
  BY <1>1 DEF MetricResult
<1>4. UnavailableMetrics' = UnavailableMetrics
  BY <1>3 DEF UnavailableMetrics
<1>5. Report.counts' = Report.counts
  BY DEF Report
<1>6. Gaps' = Gaps
  BY <1>1, <1>2 DEF Gaps
<1>7. MetricGaps' = MetricGaps
  BY <1>3, <1>4 DEF MetricGaps
<1>8. RequiredAcknowledgments' = RequiredAcknowledgments /\ NonPassing' = NonPassing
  BY DEF RequiredAcknowledgments, NonPassing
<1> QED BY <1>2, <1>4, <1>5, <1>6, <1>7, <1>8 DEF Evaluated

LEMMA ReportIsOfItsMoment ==
  /\ Report.counts = [o \in Outcomes |-> Cardinality({f \in Requirements : findings[f] = o})]
  /\ Report.evidence = UnusableEvidence
  /\ Report.acknowledgments = RequiredAcknowledgments
  /\ Report.complete <=> UnusableEvidence = <<>> /\ UnavailableMetrics = <<>>
  /\ Report.gaps = Gaps
  /\ Report.metricGaps = MetricGaps
  /\ Report # NoReport
<1>1. "counts" \in DOMAIN Report /\ "counts" \notin DOMAIN NoReport
  BY DEF Report, NoReport
<1>2. Report # NoReport
  BY <1>1
<1> QED BY <1>2 DEF Report

LEMMA InitReports == ReviewInit => ReportInv
BY DEF ReviewInit, ReportInv

LEMMA NextReports == ReportInv /\ [ReviewNext]_reviewVars => ReportInv'
<1> SUFFICES ASSUME ReportInv, [ReviewNext]_reviewVars PROVE ReportInv'
  OBVIOUS
<1>1. CASE Evaluate
  BY <1>1 DEF Evaluate, ReportInv
<1>2. CASE Review
  <2>1. UNCHANGED <<evidence, findings, decision>> /\ Evaluated /\ report' = Report
    BY <1>2 DEF Review
  <2>2. /\ Evaluated'
        /\ report'.counts = Report.counts'
        /\ report'.evidence = UnusableEvidence'
        /\ report'.acknowledgments = RequiredAcknowledgments'
        /\ report'.gaps = Gaps'
        /\ report'.metricGaps = MetricGaps'
    BY <2>1, FrozenReport, ReportIsOfItsMoment
  <2>3. report'.complete <=> UnusableEvidence' = <<>> /\ UnavailableMetrics' = <<>>
    BY <2>1, FrozenReport, ReportIsOfItsMoment
  <2>4. decision' # NoDecision =>
          /\ report' # NoReport
          /\ decision'.disposition \in {"approve", "approve_with_conditions"} =>
               decision'.acknowledged = NonPassing'
    BY <2>1, FrozenReport, ReportIsOfItsMoment DEF ReportInv
  <2> QED BY <2>2, <2>3, <2>4 DEF ReportInv
<1>3. ASSUME NEW disposition, NEW conditions, NEW requests, NEW acknowledged,
             Decide(disposition, conditions, requests, acknowledged)
      PROVE  ReportInv'
  <2>1. UNCHANGED <<evidence, findings, report>> /\ report # NoReport
    BY <1>3 DEF Decide
  <2>2. decision' = decision \/
          /\ decision' = [disposition |-> disposition, acknowledged |-> acknowledged]
          /\ Accepts(disposition, conditions, requests, acknowledged)
    BY <1>3 DEF Decide
  <2>3. decision' # NoDecision =>
          (decision'.disposition \in {"approve", "approve_with_conditions"} =>
             decision'.acknowledged = NonPassing)
    BY <2>2 DEF Accepts, ReportInv
  <2>4. decision' # NoDecision =>
          /\ report' # NoReport
          /\ decision'.disposition \in {"approve", "approve_with_conditions"} =>
               decision'.acknowledged = NonPassing'
    BY <2>1, <2>3, FrozenReport
  <2>5. report' # NoReport =>
          /\ Evaluated'
          /\ report'.counts = Report.counts'
          /\ report'.evidence = UnusableEvidence'
          /\ report'.acknowledgments = RequiredAcknowledgments'
          /\ report'.complete <=> UnusableEvidence' = <<>> /\ UnavailableMetrics' = <<>>
          /\ report'.gaps = Gaps'
          /\ report'.metricGaps = MetricGaps'
    BY <2>1, FrozenReport DEF ReportInv
  <2> QED BY <2>4, <2>5 DEF ReportInv
<1>4. CASE UNCHANGED reviewVars
  <2>1. UNCHANGED <<evidence, findings, report, decision>>
    BY <1>4 DEF reviewVars
  <2> QED BY <2>1, FrozenReport DEF ReportInv
<1> QED BY <1>1, <1>2, <1>3, <1>4 DEF ReviewNext

LEMMA ReportsAreOfTheirMoment == ReviewSpec => [](PolicyInv /\ ReportInv)
<1>1. ReviewSpec => []ReportInv
  BY InitReports, NextReports, PTL DEF ReviewSpec
<1> QED BY <1>1, ReviewsImplementEvaluation, FindingsAreOfTheEvidence, PTL

\* For any evidence, a report explains every finding that could not be evaluated, once and
\* with the reason of its record, and lists nothing else (_review_markdown, _affected_results).
THEOREM GapsAreAlwaysExplained == ReviewSpec => []EveryGapIsExplained
<1>1. PolicyInv /\ ReportInv => EveryGapIsExplained
  <2> SUFFICES ASSUME PolicyInv, ReportInv, report # NoReport PROVE EveryGapIsExplained
    BY DEF EveryGapIsExplained
  <2> DEFINE missing == {f \in Requirements : findings[f] = "not_evaluable"}
  <2>1. missing = WeakRequirements
    BY NotEvaluableIsWeak DEF ReportInv
  <2>2. /\ DOMAIN report.gaps = {KindOf(f) : f \in missing}
        /\ \A f \in missing :
             /\ report.gaps[KindOf(f)].reason = WeaknessOf(evidence[f])
             /\ report.gaps[KindOf(f)].metrics = {RequirementToMetric[f]}
             /\ report.gaps[KindOf(f)].findings = {f}
    <3>1. DOMAIN Gaps = {KindOf(f) : f \in missing}
      BY <2>1, ListsAreOfWeakRecords DEF Gaps
    <3>2. ASSUME NEW f \in missing
          PROVE  Gaps[KindOf(f)] = [reason |-> WeaknessOf(evidence[f]),
                                    metrics |-> {RequirementToMetric[f]}, findings |-> {f}]
      <4>1. KindOf(f) \in ToSet(UnusableEvidence)
        BY <2>1, ListsAreOfWeakRecords
      <4>2. Records[KindOf(f)] = evidence[f]
        BY RequirementsCorrespond
      <4> QED BY <4>1, <4>2, AffectedIsOwn DEF Gaps
    <3>3. report.gaps = Gaps
      BY DEF ReportInv
    <3> HIDE DEF missing
    <3>4. DOMAIN report.gaps = {KindOf(f) : f \in missing}
      BY <3>1, <3>3
    <3>5. ASSUME NEW f \in missing
          PROVE  /\ report.gaps[KindOf(f)].reason = WeaknessOf(evidence[f])
                 /\ report.gaps[KindOf(f)].metrics = {RequirementToMetric[f]}
                 /\ report.gaps[KindOf(f)].findings = {f}
      <4>1. report.gaps[KindOf(f)] =
              [reason |-> WeaknessOf(evidence[f]),
               metrics |-> {RequirementToMetric[f]}, findings |-> {f}]
        BY <3>2, <3>3, <3>5
      <4> QED BY <4>1
    <3> QED BY <3>4, <3>5
  <2>3. /\ DOMAIN report.metricGaps = {RequirementToMetric[f] : f \in missing}
        /\ \A f \in missing :
             /\ report.metricGaps[RequirementToMetric[f]].reason = WeaknessOf(evidence[f])
             /\ report.metricGaps[RequirementToMetric[f]].findings = {f}
    <3>1. DOMAIN MetricGaps = {RequirementToMetric[f] : f \in missing}
      BY <2>1, ListsAreOfWeakRecords DEF MetricGaps
    <3>2. ASSUME NEW f \in missing
          PROVE  MetricGaps[RequirementToMetric[f]] =
                   [reason |-> WeaknessOf(evidence[f]), findings |-> {f}]
      <4>1. RequirementToMetric[f] \in ToSet(UnavailableMetrics) /\ ~Usable(evidence[f])
        BY <2>1, ListsAreOfWeakRecords DEF WeakRequirements
      <4>2. Records[MetricToEvidenceKind[RequirementToMetric[f]]] = evidence[f]
        BY RequirementsCorrespond DEF KindOf
      <4>3. MetricResult(RequirementToMetric[f]).reason = WeaknessOf(evidence[f])
        BY <4>1, <4>2 DEF MetricResult
      <4>4. {q \in Requirements : RequirementToMetric[q] = RequirementToMetric[f]} = {f}
        BY RequirementsCorrespond
      <4> QED BY <4>1, <4>3, <4>4 DEF MetricGaps
    <3>3. report.metricGaps = MetricGaps
      BY DEF ReportInv
    <3> HIDE DEF missing
    <3>4. DOMAIN report.metricGaps = {RequirementToMetric[f] : f \in missing}
      BY <3>1, <3>3
    <3>5. ASSUME NEW f \in missing
          PROVE  /\ report.metricGaps[RequirementToMetric[f]].reason = WeaknessOf(evidence[f])
                 /\ report.metricGaps[RequirementToMetric[f]].findings = {f}
      <4>1. report.metricGaps[RequirementToMetric[f]] =
              [reason |-> WeaknessOf(evidence[f]), findings |-> {f}]
        BY <3>2, <3>3, <3>5
      <4> QED BY <4>1
    <3> QED BY <3>4, <3>5
  <2>4. ASSUME NEW f \in missing
        PROVE  \E kind \in DOMAIN report.gaps, metric \in DOMAIN report.metricGaps :
                 /\ f \in report.gaps[kind].findings
                 /\ f \in report.metricGaps[metric].findings
                 /\ metric \in report.gaps[kind].metrics
                 /\ report.gaps[kind].reason = report.metricGaps[metric].reason
                 /\ report.gaps[kind].reason = WeaknessOf(evidence[f])
                 /\ \A other \in DOMAIN report.gaps :
                      f \in report.gaps[other].findings => other = kind
    <3>1. KindOf(f) \in DOMAIN report.gaps /\ RequirementToMetric[f] \in DOMAIN report.metricGaps
      BY <2>2, <2>3
    <3>2. \A other \in DOMAIN report.gaps :
            f \in report.gaps[other].findings => other = KindOf(f)
      BY <2>2
    <3> HIDE DEF missing
    <3> QED BY <2>2, <2>3, <2>4, <3>1, <3>2
  <2>5. \A kind \in DOMAIN report.gaps : report.gaps[kind].findings \subseteq missing
    BY <2>2
  <2>6. \A metric \in DOMAIN report.metricGaps :
          report.metricGaps[metric].findings \subseteq missing
    BY <2>3
  <2>7. report.complete <=> missing = {}
    BY <2>1, ListsAreOfWeakRecords DEF ReportInv
  <2>8. report.counts["not_evaluable"] = Len(report.evidence)
    <3>1. report.counts["not_evaluable"] = Cardinality(missing)
      BY ReportIsOfItsMoment DEF ReportInv, Outcomes
    <3> QED BY <2>1, <3>1, CountsAgree DEF ReportInv
  <2> QED BY <2>4, <2>5, <2>6, <2>7, <2>8 DEF EveryGapIsExplained
<1> QED BY <1>1, ReportsAreOfTheirMoment, PTL

\* For any evidence, the printed acknowledgments stay exactly those that an approval needs:
\* cli.py and the decision boundary of persistence.py select them independently.
THEOREM AcknowledgmentsAlwaysSuffice == ReviewSpec => []PrintedAcknowledgmentsSuffice
<1>1. ReportInv => PrintedAcknowledgmentsSuffice
  BY DEF ReportInv, PrintedAcknowledgmentsSuffice, Accepts, RequiredAcknowledgments, NonPassing
<1> QED BY <1>1, ReportsAreOfTheirMoment, PTL

\* For any thresholds and evidence, whoever approves has named every requirement that is
\* not plainly met (_validate_decision_business_content, _policy_outcome).
THEOREM ApprovalsAreInformed == ReviewSpec => []ApprovalIsInformed
<1>1. PolicyInv /\ ReportInv => ApprovalIsInformed
  <2> SUFFICES ASSUME PolicyInv, ReportInv, decision # NoDecision,
                      decision.disposition \in {"approve", "approve_with_conditions"},
                      NEW f \in Requirements \ ToSet(decision.acknowledged)
               PROVE  /\ evidence[f].outcome = "available"
                      /\ evidence[f].freshness \in {"current", "not_applicable"}
                      /\ IF f = "commit_recency"
                         THEN DaysSinceLatestCommit(evidence, evaluatedAt) <= BroaderRecency
                         ELSE evidence[f].value
    BY DEF ApprovalIsInformed
  <2>1. decision.acknowledged = NonPassing /\ Evaluated
    BY DEF ReportInv
  <2>2. ToSet(NonPassing) = {q \in Requirements : findings[q] # "pass"}
    BY OrdersAreComplete, InOrderContents DEF NonPassing
  <2>3. PolicyOutcome(f, context, evidence, evaluatedAt) = "pass"
    BY <2>1, <2>2, FindingsOfEvaluated
  <2>4. Usable(evidence[f]) /\ ObservedOutcome(f, context, evidence, evaluatedAt) = "pass"
    BY <2>3 DEF PolicyOutcome
  <2>5. /\ evidence[f].outcome = "available"
        /\ evidence[f].freshness \in {"current", "not_applicable"}
    BY <2>4, RecordsAreTyped DEF Usable, Freshness
  <2>6. CASE f = "commit_recency"
    <3> DEFINE age == evaluatedAt - evidence.commit_recency.value
    <3>1. age <= Threshold(context) * Day
      BY <2>4, <2>6 DEF ObservedOutcome, Recent
    <3>2. age \in Nat
      <4>1. evidence.commit_recency.value \in Nat
        BY <2>5, <2>6, CommitIsNumber DEF PolicyInv
      <4>2. ~(evidence.commit_recency.value > evaluatedAt)
        BY <2>1, <2>5, <2>6, FindingsOfEvaluated DEF EvaluationError
      <4> QED BY <4>1, <4>2 DEF PolicyInv
    <3>3. age \div Day <= Threshold(context)
      BY <3>1, <3>2, FlooredDays, ThresholdsAreNumbers
    <3>4. Threshold(context) <= BroaderRecency
      BY RecencyIsOrdered DEF Threshold
    <3>5. age \div Day \in Int /\ Threshold(context) \in Int /\ BroaderRecency \in Int
      BY <3>2, ThresholdsAreNumbers, DayIsPositive, RecencyIsOrdered
    <3>6. age \div Day <= BroaderRecency
      BY <3>3, <3>4, <3>5
    <3> QED BY <2>5, <2>6, <3>6 DEF DaysSinceLatestCommit
  <2>7. CASE f # "commit_recency"
    BY <2>4, <2>5, <2>7 DEF ObservedOutcome, Missing
  <2> QED BY <2>6, <2>7
<1> QED BY <1>1, ReportsAreOfTheirMoment, PTL
=============================================================================

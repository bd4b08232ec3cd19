-------------------------- MODULE PolicyEvaluation --------------------------
(***************************************************************************)
(* The deterministic slice of evaluation.py: metrics from four evidence    *)
(* records, then one finding for each policy requirement.  The evidence    *)
(* and the context stay, the evaluation instant moves on.                  *)
(***************************************************************************)
EXTENDS Integers

CONSTANTS
  Day,             \* instants in one day
  StrictLifetime,  \* PROVISIONAL_STRICT_CONTEXT_LIFETIME_DAYS
  StrictRecency,   \* PROVISIONAL_STRICT_COMMIT_RECENCY_DAYS
  BroaderRecency,  \* PROVISIONAL_BROADER_COMMIT_RECENCY_DAYS
  Lifetimes,       \* expected lifetimes in days
  Attempts,        \* instants at which evidence was collected
  Commits,         \* instants of a latest commit
  Instants,        \* instants of an evaluation
  EvidenceSets     \* evidence sets an evaluation may be given

ASSUME DayIsPositive == Day \in Nat \ {0}
ASSUME RecencyIsOrdered ==
  StrictRecency \in Nat /\ BroaderRecency \in Nat /\ StrictRecency <= BroaderRecency
ASSUME InstantsAreNumbers ==
  /\ StrictLifetime \in Nat /\ Lifetimes \subseteq Nat
  /\ Attempts \subseteq Nat /\ Commits \subseteq Nat /\ Instants \subseteq Nat

VARIABLES
  context,     \* the AssessmentContext
  evidence,    \* one record for each required kind
  evaluatedAt, \* the instant of the last evaluation
  findings     \* what it returned: an outcome for each requirement, or an error

vars == <<context, evidence, evaluatedAt, findings>>

-----------------------------------------------------------------------------
(* Inputs. *)

Context ==
  [environment : {"internal", "production"}, criticality : {"low", "critical"},
   lifetime : Lifetimes, tolerance : {"tolerant", "low"}]

Freshness == {"current", "stale", "unknown", "not_applicable"}

\* Value of an archived, license or security record: is the favourable fact observed?
Record(values) ==
  [outcome : {"available"}, freshness : Freshness, value : values, attemptedAt : Attempts]
    \union
  [outcome : {"unavailable"}, freshness : Freshness, attemptedAt : Attempts]

Requirements ==
  {"repository_not_archived", "license_declared", "commit_recency", "security_policy"}

Evidence ==
  [repository_not_archived : Record(BOOLEAN), license_declared : Record(BOOLEAN),
   commit_recency : Record(Commits), security_policy : Record(BOOLEAN)]

ASSUME EvidenceSetsAreTyped == EvidenceSets \subseteq Evidence

Outcomes == {"pass", "fail", "condition_required", "not_evaluable"}
Errors == {"invalid_evidence_set", "calculation_error"}

-----------------------------------------------------------------------------
(* Metrics. *)

Usable(record) ==
  record.outcome = "available" /\ record.freshness \notin {"stale", "unknown"}

\* No record may have been collected after the instant; a commit may not be in its
\* future, even one whose record is too old to be used.
EvaluationError(e, t) ==
  IF \E r \in Requirements : e[r].attemptedAt > t THEN "invalid_evidence_set"
  ELSE IF e.commit_recency.outcome = "available" /\ e.commit_recency.value > t
       THEN "calculation_error"
  ELSE "none"

\* The metric floors the age to whole days.
DaysSinceLatestCommit(e, t) == (t - e.commit_recency.value) \div Day

-----------------------------------------------------------------------------
(* Policy. *)

StrictUnlessTolerant(c) ==
  /\ c.tolerance = "low"
  /\ \/ c.environment = "production"
     \/ c.criticality = "critical"
     \/ c.lifetime > StrictLifetime

StrictWhenShortLived(c) ==
  \/ c.environment = "production"
  \/ c.criticality = "critical"
  \/ c.lifetime <= StrictLifetime
  \/ c.tolerance = "low"

RequiresStrictControls(c) ==
  \/ c.environment = "production"
  \/ c.criticality = "critical"
  \/ c.lifetime > StrictLifetime
  \/ c.tolerance = "low"

Threshold(c) == IF RequiresStrictControls(c) THEN StrictRecency ELSE BroaderRecency

\* A broader context tolerates a missing license or security policy under a condition.
Missing(c) == IF RequiresStrictControls(c) THEN "fail" ELSE "condition_required"

RecentReversed(c, e, t) == t - e.commit_recency.value >= Threshold(c) * Day

\* The finding compares the exact duration, and the threshold itself still passes.
Recent(c, e, t) == t - e.commit_recency.value <= Threshold(c) * Day

ObservedOutcome(r, c, e, t) ==
  IF r = "commit_recency" THEN IF Recent(c, e, t) THEN "pass" ELSE "fail"
  ELSE IF e[r].value THEN "pass"
  ELSE IF r = "repository_not_archived" THEN "fail"
  ELSE Missing(c)

PolicyOutcome(r, c, e, t) ==
  IF ~Usable(e[r]) THEN "not_evaluable" ELSE ObservedOutcome(r, c, e, t)

EvaluateSlice(c, e, t) ==
  IF EvaluationError(e, t) # "none" THEN [error |-> EvaluationError(e, t)]
  ELSE [r \in Requirements |-> PolicyOutcome(r, c, e, t)]

-----------------------------------------------------------------------------

TypeOK ==
  /\ context \in Context
  /\ evidence \in EvidenceSets
  /\ evaluatedAt \in Instants
  /\ findings \in [Requirements -> Outcomes] \union [error : Errors]

Init ==
  /\ context \in Context
  /\ evidence \in EvidenceSets
  /\ evaluatedAt \in Instants
  /\ findings = EvaluateSlice(context, evidence, evaluatedAt)

\* The same evidence is evaluated again later.
Later(t) ==
  /\ t >= evaluatedAt
  /\ evaluatedAt' = t
  /\ findings' = EvaluateSlice(context, evidence, t)
  /\ UNCHANGED <<context, evidence>>

Next == \E t \in Instants : Later(t)

Spec == Init /\ [][Next]_vars

-----------------------------------------------------------------------------
(* Properties. *)

Evaluated == DOMAIN findings = Requirements

Rank(outcome) ==
  CASE outcome = "pass" -> 2 [] outcome = "condition_required" -> 1 [] OTHER -> 0

NoStricter(c, d) ==
  /\ c.environment = d.environment \/ c.environment = "internal"
  /\ c.criticality = d.criticality \/ c.criticality = "low"
  /\ c.lifetime <= d.lifetime
  /\ c.tolerance = d.tolerance \/ c.tolerance = "tolerant"

\* Time alone never improves a finding, and an evaluation that was possible stays possible
\* (calculate_metrics, _policy_outcome).
AgeingNeverHelps ==
  [][Evaluated => /\ Evaluated'
                  /\ \A r \in Requirements : Rank(findings'[r]) <= Rank(findings[r])]_vars

\* A context that asks for more in any respect never gets a better finding out of the
\* same evidence: no requirement is relaxed by production use, criticality, a longer
\* lifetime or a lower risk tolerance (_requires_strict_controls).
StricterNeverHelps ==
  Evaluated =>
    \A c \in Context : NoStricter(c, context) =>
      \A r \in Requirements :
        Rank(findings[r]) <= Rank(PolicyOutcome(r, c, evidence, evaluatedAt))

\* The age in days that a reader sees beside a finding never contradicts it: a commit that
\* passes is at most the threshold old in whole days, one that fails at least that old.
DaysAgreeWithFinding ==
  Evaluated /\ findings["commit_recency"] # "not_evaluable" =>
    LET days == DaysSinceLatestCommit(evidence, evaluatedAt)
        limit == IF context \in [environment : {"internal"}, criticality : {"low"},
                                 lifetime : 0..StrictLifetime, tolerance : {"tolerant"}]
                 THEN BroaderRecency ELSE StrictRecency
    IN IF findings["commit_recency"] = "pass" THEN days <= limit ELSE days >= limit
=============================================================================

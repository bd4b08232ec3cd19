---------------------------- MODULE ReviewReport ----------------------------
(***************************************************************************)
(* What the review command of cli.py prints of one stored evaluation, and  *)
(* the decision that a reviewer takes from it.  The sections of the report *)
(* are computed apart from each other and from the rules of evaluation.py  *)
(* and of the decision boundary of persistence.py.                         *)
(***************************************************************************)
EXTENDS PolicyEvaluation, SequencesExt, FixedOrder

VARIABLES
  report,    \* the last review
  decision,  \* the human decision in the database
  answer     \* of the last decide

reviewVars == <<context, evidence, evaluatedAt, findings, report, decision, answer>>

\* Nothing is printed, nothing is decided.
NoReport == [decision |-> "none"]
NoDecision == [disposition |-> "none"]

-----------------------------------------------------------------------------
(* The evaluation, as it is stored. *)

MetricToEvidenceKind ==
  [repository_archived |-> "repository_archived", license_present |-> "license_status",
   days_since_latest_commit |-> "latest_commit_timestamp",
   security_policy_present |-> "security_policy_present"]

RequirementToMetric ==
  [repository_not_archived |-> "repository_archived", license_declared |-> "license_present",
   commit_recency |-> "days_since_latest_commit", security_policy |-> "security_policy_present"]

RequirementOrder ==
  <<"repository_not_archived", "license_declared", "commit_recency", "security_policy">>
MetricOrder == [i \in 1..4 |-> RequirementToMetric[RequirementOrder[i]]]
KindOrder ==
  <<"repository_archived", "license_status", "latest_commit_timestamp",
    "security_policy_present">>

\* The record of a kind.
Records ==
  [repository_archived |-> evidence["repository_not_archived"],
   license_status |-> evidence["license_declared"],
   latest_commit_timestamp |-> evidence["commit_recency"],
   security_policy_present |-> evidence["security_policy"]]

WeaknessOf(record) == IF record.outcome = "unavailable" THEN "unavailable" ELSE record.freshness

MetricResult(metric) ==
  LET record == Records[MetricToEvidenceKind[metric]] IN
  IF Usable(record) THEN [status |-> "available"]
  ELSE [status |-> "unavailable", reason |-> WeaknessOf(record)]

InputEvidence(metric) == {MetricToEvidenceKind[metric]}

-----------------------------------------------------------------------------
(* The report. *)

IsUnavailable(record) == record.outcome = "unavailable"

IsUnusable(record) ==
  record.outcome = "unavailable" \/ record.freshness \in {"stale", "unknown"}

AffectedMetrics(kind) ==
  {metric \in DOMAIN MetricToEvidenceKind : kind \in InputEvidence(metric)}

AffectedFindings(kind) ==
  {f \in Requirements :
     \/ kind \in InputEvidence(RequirementToMetric[f])
     \/ RequirementToMetric[f] \in AffectedMetrics(kind)}

AcknowledgmentsOfFailures ==
  InOrder(RequirementOrder, {f \in Requirements : findings[f] = "fail"})

RequiredAcknowledgments ==
  InOrder(RequirementOrder, {f \in Requirements : findings[f] # "pass"})

UnusableEvidence ==
  InOrder(KindOrder, {kind \in DOMAIN Records : IsUnusable(Records[kind])})

UnavailableMetrics ==
  InOrder(MetricOrder,
          {metric \in DOMAIN MetricToEvidenceKind : MetricResult(metric).status = "unavailable"})

\* Under each weak record, and under each metric without a value, what rests on it.
Gaps ==
  [kind \in ToSet(UnusableEvidence) |->
     [reason |-> WeaknessOf(Records[kind]),
      metrics |-> AffectedMetrics(kind), findings |-> AffectedFindings(kind)]]

MetricGaps ==
  [metric \in ToSet(UnavailableMetrics) |->
     [reason |-> MetricResult(metric).reason,
      findings |-> {f \in Requirements : RequirementToMetric[f] = metric}]]

Report ==
  [counts |-> [o \in Outcomes |-> Cardinality({f \in Requirements : findings[f] = o})],
   evidence |-> UnusableEvidence,
   metrics |-> UnavailableMetrics,
   nonpassing |-> {f \in Requirements : findings[f] # "pass"},
   acknowledgments |-> RequiredAcknowledgments,
   complete |-> UnusableEvidence = <<>> /\ UnavailableMetrics = <<>>,
   gaps |-> Gaps,
   metricGaps |-> MetricGaps,
   decision |-> decision]

-----------------------------------------------------------------------------
(* Decisions. *)

Dispositions == {"approve", "approve_with_conditions", "needs_more_information", "reject"}

NonPassing == InOrder(RequirementOrder, {f \in Requirements : findings[f] # "pass"})

AcceptsAnyAcknowledgments(disposition, conditions, requests, acknowledged) ==
  /\ disposition \in {"needs_more_information", "reject"} => acknowledged = <<>>
  /\ conditions <=> disposition = "approve_with_conditions"
  /\ requests <=> disposition = "needs_more_information"

Accepts(disposition, conditions, requests, acknowledged) ==
  /\ acknowledged = (IF disposition \in {"approve", "approve_with_conditions"}
                     THEN NonPassing ELSE <<>>)
  /\ conditions <=> disposition = "approve_with_conditions"
  /\ requests <=> disposition = "needs_more_information"

\* What becomes of the printed identifiers on the way to the command line.
Copies(s) == {s, Reverse(s), <<>>} \union (IF s = <<>> THEN {} ELSE {Tail(s), Front(s)})

-----------------------------------------------------------------------------

ReviewTypeOK ==
  /\ TypeOK
  /\ decision \in {NoDecision} \union
       [disposition : Dispositions, acknowledged : SetToAllKPermutations(Requirements)]
  /\ answer \in {"none", "recorded", "invalid_input"}
  /\ report # NoReport =>
       /\ report.counts \in [Outcomes -> 0..4]
       /\ report.nonpassing \subseteq Requirements
       /\ report.decision \in {NoDecision, decision}

ReviewInit ==
  /\ Init
  /\ report = NoReport
  /\ decision = NoDecision
  /\ answer = "none"

\* Any evaluation may be the stored one until a review has shown it.
Evaluate ==
  /\ report = NoReport
  /\ Next
  /\ UNCHANGED <<report, decision, answer>>

\* Only an evaluation without an error is stored.
Review ==
  /\ Evaluated
  /\ report' = Report
  /\ UNCHANGED <<context, evidence, evaluatedAt, findings, decision, answer>>

\* The first decision that is accepted stays.
Decide(disposition, conditions, requests, acknowledged) ==
  LET d == [disposition |-> disposition, acknowledged |-> acknowledged] IN
  /\ report # NoReport
  /\ decision = NoDecision
  /\ \/ /\ Accepts(disposition, conditions, requests, acknowledged)
        /\ decision' = d
        /\ answer' = "recorded"
     \/ /\ ~Accepts(disposition, conditions, requests, acknowledged)
        /\ answer' = "invalid_input"
        /\ UNCHANGED decision
  /\ UNCHANGED <<context, evidence, evaluatedAt, findings, report>>

ReviewNext ==
  \/ Evaluate
  \/ Review
  \/ \E disposition \in Dispositions, conditions, requests \in BOOLEAN :
       report # NoReport /\
       \E acknowledged \in Copies(report.acknowledgments) :
         Decide(disposition, conditions, requests, acknowledged)

ReviewSpec == ReviewInit /\ [][ReviewNext]_reviewVars

-----------------------------------------------------------------------------
(* Properties. *)

\* The report leaves no gap unexplained and names none that is not there: a finding that
\* could not be evaluated is listed under exactly one weak evidence record and under
\* exactly one metric, both with the same reason, and what is listed as affected could not
\* be evaluated.  The report calls itself complete iff there is no such finding.
EveryGapIsExplained ==
  report # NoReport =>
    LET missing == {f \in Requirements : findings[f] = "not_evaluable"} IN
    /\ \A f \in missing :
         \E kind \in DOMAIN report.gaps, metric \in DOMAIN report.metricGaps :
           /\ f \in report.gaps[kind].findings /\ f \in report.metricGaps[metric].findings
           /\ metric \in report.gaps[kind].metrics
           /\ report.gaps[kind].reason = report.metricGaps[metric].reason
           /\ report.gaps[kind].reason = WeaknessOf(evidence[f])
           /\ \A other \in DOMAIN report.gaps : f \in report.gaps[other].findings => other = kind
    /\ \A kind \in DOMAIN report.gaps : report.gaps[kind].findings \subseteq missing
    /\ \A metric \in DOMAIN report.metricGaps : report.metricGaps[metric].findings \subseteq missing
    /\ report.complete <=> missing = {}
    /\ report.counts["not_evaluable"] = Len(report.evidence)

\* The acknowledgments that a report prints, in its order, are the only ones that an
\* approval is accepted with, however long ago the report was printed.
PrintedAcknowledgmentsSuffice ==
  report # NoReport =>
    \A acknowledged \in SetToAllKPermutations(Requirements) :
      Accepts("approve", FALSE, FALSE, acknowledged)
        <=> acknowledged = report.acknowledgments

\* Whoever approves has named every requirement that is not plainly met: where nothing is
\* acknowledged, each record was usable and each observation favourable.
ApprovalIsInformed ==
  decision # NoDecision /\ decision.disposition \in {"approve", "approve_with_conditions"} =>
    \A f \in Requirements \ ToSet(decision.acknowledged) :
      /\ evidence[f].outcome = "available"
      /\ evidence[f].freshness \in {"current", "not_applicable"}
      /\ IF f = "commit_recency"
         THEN DaysSinceLatestCommit(evidence, evaluatedAt) <= BroaderRecency
         ELSE evidence[f].value
=============================================================================

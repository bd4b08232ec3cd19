------------------------------ MODULE MCReview ------------------------------
(* A finite instance of ReviewReport, with the thresholds of the code and half days. *)
EXTENDS ReviewReport

\* A lifetime on the threshold and one day beyond it.
MCLifetimes == {180, 181}
\* Instants half a day around the two recency thresholds of a commit at instant 2.
MCInstants == {1, 2, 361, 362, 363, 1461, 1462, 1463}

MCAvailable(freshness, value) ==
  [outcome |-> "available", freshness |-> freshness, value |-> value, attemptedAt |-> 2]
MCUnavailable == [outcome |-> "unavailable", freshness |-> "unknown", attemptedAt |-> 2]
MCGood(r) == MCAvailable("current", IF r = "commit_recency" THEN 2 ELSE TRUE)
\* One record of any kind that differs from a good one: findings do not read each other's.
MCOneWeak ==
  {e \in Evidence : \E r \in Requirements : \A q \in Requirements \ {r} : e[q] = MCGood(q)}
\* Every combination of good, bad, weak and missing records.
MCFacts ==
  {MCGood("license_declared"), MCAvailable("current", FALSE), MCAvailable("stale", TRUE),
   MCUnavailable}
MCCombinations ==
  [repository_not_archived : MCFacts, license_declared : MCFacts,
   commit_recency : {MCGood("commit_recency"), MCAvailable("unknown", 2), MCUnavailable},
   security_policy : MCFacts]
MCEvidenceSets == MCOneWeak \union MCCombinations
=============================================================================

-------------------------- MODULE CollectionProofs --------------------------
(***************************************************************************)
(* Proofs about EvidenceCollection and CollectionRows, for any statuses,   *)
(* bodies, instants and number of changes at the remote: what the four     *)
(* collectors come back with, and what its rows give back.                 *)
(***************************************************************************)
EXTENDS CollectionRows, FiniteSetTheorems, TLAPS

-----------------------------------------------------------------------------
(* Facts about the candidates and the classification. *)

CandidateCount == IF isDefault THEN 3 ELSE 6

LEMMA CandidatesAreListed ==
  ASSUME isDefault \in BOOLEAN
  PROVE  /\ CandidateSpecs \in Seq(Sources)
         /\ Len(CandidateSpecs) = CandidateCount
         /\ DOMAIN CandidateSpecs = 1..CandidateCount
         /\ CandidateCount \in {3, 6}
         /\ \A i \in 1..CandidateCount : CandidateSpecs[i] = AllCandidates[i]
<1>1. /\ DOMAIN CandidateSpecs = 1..CandidateCount
      /\ CandidateCount \in {3, 6}
      /\ \A i \in 1..CandidateCount : CandidateSpecs[i] = AllCandidates[i]
      /\ CandidateSpecs = [i \in 1..CandidateCount |-> CandidateSpecs[i]]
  <2>1. AllCandidates = [i \in 1..6 |-> AllCandidates[i]]
    BY DEF AllCandidates
  <2>2. CASE isDefault
    BY <2>2 DEF CandidateSpecs, CandidateCount
  <2>3. CASE ~isDefault
    BY <2>1, <2>3 DEF CandidateSpecs, CandidateCount
  <2> QED BY <2>2, <2>3
<1>2. ASSUME NEW i \in 1..6 PROVE AllCandidates[i] \in Sources
  <2>1. AllCandidates[i] =
          <<IF i <= 3 THEN "repository_local" ELSE "inherited_default",
            Paths[IF i <= 3 THEN i ELSE i - 3]>>
    BY DEF AllCandidates
  <2>2. (IF i <= 3 THEN i ELSE i - 3) \in 1..3
    OBVIOUS
  <2> QED BY <2>1, <2>2 DEF Sources, TargetSources, DefaultSources, PathSet
<1>3. \A i \in 1..CandidateCount : CandidateSpecs[i] \in Sources
  BY <1>1, <1>2
<1> QED BY <1>1, <1>3

\* The addresses of the candidates: the one repository has the same paths as the other.
LEMMA CandidatesDiffer ==
  \A i, j \in 1..6 : AllCandidates[i] = AllCandidates[j] => i = j
<1>1. 1..6 = {1, 2, 3, 4, 5, 6}
  OBVIOUS
<1>2. /\ AllCandidates[1] = <<"repository_local", ".github/SECURITY.md">>
      /\ AllCandidates[2] = <<"repository_local", "SECURITY.md">>
      /\ AllCandidates[3] = <<"repository_local", "docs/SECURITY.md">>
      /\ AllCandidates[4] = <<"inherited_default", ".github/SECURITY.md">>
      /\ AllCandidates[5] = <<"inherited_default", "SECURITY.md">>
      /\ AllCandidates[6] = <<"inherited_default", "docs/SECURITY.md">>
  BY DEF AllCandidates, Paths
<1> QED BY <1>1, <1>2

\* A reply that is no error is a 404 or a readable 200, and an error has one of the statuses
\* that the result classes accept with its category.
LEMMA ClassificationIsAccepted ==
  ASSUME NEW reply \in Reply, ~Raises(reply)
  PROVE  /\ ErrorOf(reply) \in Errors
         /\ ErrorOf(reply) = NoError => reply.status = 404 \/ (reply.status = 200 /\ Readable(reply))
         /\ ErrorOf(reply) # NoError => reply.status \in StatusesOf(ErrorOf(reply))
<1> DEFINE s == reply.status
           e == ErrorOf(reply)
<1>1. /\ s \in {Timeout, Unreachable} \/ s \in 100..599
      /\ s \in Int
  <2>1. s \in AllStatuses /\ s # BrokenOff /\ ~(s >= 600)
    BY DEF Reply, Raises
  <2>2. s \in Statuses => s \in 100..999
    BY StatusesAreHttp
  <2> QED BY <2>1, <2>2 DEF AllStatuses, BrokenOff, Timeout, Unreachable
<1>2. reply.status = s
  OBVIOUS
<1>3. ASSUME s = Timeout PROVE e = "github_timeout"
  BY <1>3 DEF ErrorOf, Timeout, Unreachable, RateLimited
<1>4. ASSUME s = Unreachable PROVE e = "github_connectivity_failure"
  BY <1>4 DEF ErrorOf, Timeout, Unreachable, RateLimited
<1>5. ASSUME s = 404 PROVE e = NoError
  BY <1>5 DEF ErrorOf, Timeout, Unreachable, RateLimited
<1>6. ASSUME RateLimited(reply) PROVE e = "github_rate_limited" /\ s \in {403, 429}
  BY <1>6 DEF ErrorOf, Timeout, Unreachable, RateLimited
<1>7. ASSUME ~RateLimited(reply), s \in {401, 403} PROVE e = "github_authorization_failed"
  BY <1>7 DEF ErrorOf, Timeout, Unreachable, RateLimited
<1>8. ASSUME s \in 400..499 \ {401, 403, 404, 429} PROVE e = "github_request_rejected"
  BY <1>8 DEF ErrorOf, Timeout, Unreachable, RateLimited
<1>9. ASSUME s \in 500..599 PROVE e = "github_server_error"
  BY <1>9 DEF ErrorOf, Timeout, Unreachable, RateLimited
<1>10. ASSUME s = 200 PROVE e = IF Readable(reply) THEN NoError ELSE "github_response_invalid"
  BY <1>10 DEF ErrorOf, Timeout, Unreachable, RateLimited
<1>11. ASSUME s \in 100..399 \ {200} PROVE e = "github_unexpected_status"
  <2>1. /\ s # Timeout /\ s # Unreachable /\ s # 404 /\ s # 429 /\ s # 403 /\ s # 200
        /\ s \notin {401, 403} /\ s \notin 400..499 \ {401, 403, 404, 429} /\ s \notin 500..599
    <3> HIDE DEF s
    <3>1. s \in Int /\ s >= 100 /\ s <= 399 /\ s # 200
      BY <1>11
    <3> QED BY <3>1 DEF Timeout, Unreachable
  <2>2. ~RateLimited(reply)
    BY <2>1 DEF RateLimited
  <2> HIDE DEF s
  <2> QED BY <1>2, <2>1, <2>2 DEF ErrorOf
<1>12. s = 429 => RateLimited(reply)
  BY DEF RateLimited
<1>13. /\ StatusesOf("github_timeout") = {Timeout}
       /\ StatusesOf("github_connectivity_failure") = {Unreachable}
       /\ StatusesOf("github_rate_limited") = {403, 429}
       /\ StatusesOf("github_authorization_failed") = {401, 403}
       /\ StatusesOf("github_request_rejected") = 400..499 \ {401, 403, 404, 429}
       /\ StatusesOf("github_server_error") = 500..599
       /\ StatusesOf("github_response_invalid") = {200}
       /\ StatusesOf("github_unexpected_status") = 100..399 \ {200}
  BY DEF StatusesOf
<1>14. \/ s = Timeout \/ s = Unreachable \/ s = 404 \/ RateLimited(reply)
       \/ ~RateLimited(reply) /\ s \in {401, 403}
       \/ s \in 400..499 \ {401, 403, 404, 429}
       \/ s \in 500..599 \/ s = 200 \/ s \in 100..399 \ {200}
  BY <1>1, <1>12
<1> HIDE DEF e, s
<1>15. /\ e \in Errors
       /\ e = NoError => s = 404 \/ (s = 200 /\ Readable(reply))
       /\ e # NoError => s \in StatusesOf(e)
  BY <1>3, <1>4, <1>5, <1>6, <1>7, <1>8, <1>9, <1>10, <1>11, <1>13, <1>14
     DEF Errors, RetryableErrors, NoError
<1> QED BY <1>15 DEF e, s

-----------------------------------------------------------------------------
(* The invariant of a collection.  What has been observed lies on the one path through *)
(* the candidates; while the search goes on, every candidate behind it was once absent. *)

SourceAt(i) == IF i = 1 THEN Repository ELSE CandidateSpecs[i - 1]

ObservationFits(o) ==
  \/ o.error = NoError /\ o.status \in {200, 404}
  \/ o.error # NoError /\ o.status \in StatusesOf(o.error)

ObservationsInv ==
  /\ observations \in Seq(Observation)
  /\ Len(observations) <= Len(CandidateSpecs) + 1
  /\ \A i \in 1..Len(observations) :
       observations[i].source = SourceAt(i) /\ ObservationFits(observations[i])

Quiet(i) == observations[i].error = NoError /\ observations[i].status = IF i = 1 THEN 200 ELSE 404

Searching ==
  /\ observations # <<>> => kind = "security"
  /\ Len(observations) <= Len(CandidateSpecs)
  /\ \A i \in 1..Len(observations) : Quiet(i)
  /\ \A i \in 1..(Len(observations) - 1) : CandidateSpecs[i] \notin steady

HasFields(r) == r = Result(r.outcome, r.present, r.source, r.status, r.error)

Found ==
  /\ HasFields(result)
  /\ observations # <<>>
  /\ ResultAccepted
  /\ SteadyPolicyIsNotMissed

SearchInv ==
  /\ kind \in Kinds
  /\ isDefault \in BOOLEAN
  /\ steady \subseteq remote
  /\ ObservationsInv
  /\ result = NoResult => Searching
  /\ result.outcome \in Outcomes => Found

LEMMA SearchStarts == Init => SearchInv
<1> SUFFICES ASSUME Init PROVE SearchInv
  OBVIOUS
<1>1. observations = <<>> /\ result = NoResult /\ kind \in Kinds /\ isDefault \in BOOLEAN
      /\ steady \subseteq remote
  BY DEF Init
<1>2. Len(CandidateSpecs) \in {3, 6}
  BY <1>1, CandidatesAreListed
<1>3. observations \in Seq(Observation) /\ Len(observations) = 0
  BY <1>1
<1>4. result.outcome \notin Outcomes
  BY <1>1 DEF NoResult, Outcomes
<1> QED BY <1>1, <1>2, <1>3, <1>4 DEF SearchInv, ObservationsInv, Searching

\* Steps that leave the collection alone, or only shorten the list of steady sources.
LEMMA SearchRests ==
  ASSUME SearchInv, UNCHANGED <<kind, isDefault, observations, result>>,
         steady' \subseteq steady, steady' \subseteq remote'
  PROVE  SearchInv'
<1>1. CandidateSpecs' = CandidateSpecs
  BY DEF CandidateSpecs
<1>2. ASSUME NEW i PROVE SourceAt(i)' = SourceAt(i)
  BY <1>1 DEF SourceAt
<1>3. ObservationsInv'
  BY <1>1, <1>2 DEF SearchInv, ObservationsInv, ObservationFits
<1>4. Searching => Searching'
  BY <1>1 DEF Searching, Quiet
<1>5. ResultAccepted' = ResultAccepted
  <2>1. Last' = Last
    BY DEF Last
  <2>2. FailureAccepted' = FailureAccepted
    BY DEF FailureAccepted
  <2>3. FactAccepted' = FactAccepted
    BY <2>2 DEF FactAccepted
  <2>4. SearchAccepted' = SearchAccepted
    BY <1>1, <2>1, <2>2 DEF SearchAccepted
  <2> QED BY <2>3, <2>4 DEF ResultAccepted
<1>6. SteadyPolicyIsNotMissed => SteadyPolicyIsNotMissed'
  BY <1>1 DEF SteadyPolicyIsNotMissed
<1> QED BY <1>3, <1>4, <1>5, <1>6 DEF SearchInv, Found

LEMMA ProbeKeepsSearchInv ==
  ASSUME SearchInv, NEW reply \in Reply, Probe(reply)
  PROVE  SearchInv'
<1> DEFINE n == Len(observations)
           m == Len(CandidateSpecs)
           error == ErrorOf(reply)
           seen == [source |-> NextSource, status |-> reply.status, error |-> error]
           later == Append(observations, seen)
<1>1. /\ UNCHANGED <<kind, isDefault, remote, steady>>
      /\ result = NoResult /\ result' = ResultAfter(reply)
      /\ reply.status = 200 => NextSource \in remote
      /\ reply.status = 404 => NextSource \notin remote
      /\ observations' = IF Raises(reply) THEN observations ELSE later
  BY DEF Probe
<1>2. /\ kind \in Kinds /\ isDefault \in BOOLEAN /\ steady \subseteq remote
      /\ ObservationsInv /\ Searching
  BY <1>1 DEF SearchInv
<1>3. /\ CandidateSpecs' = CandidateSpecs
      /\ \A i : SourceAt(i)' = SourceAt(i)
  <2>1. CandidateSpecs' = CandidateSpecs
    BY <1>1 DEF CandidateSpecs
  <2> QED BY <2>1 DEF SourceAt
<1>4. /\ CandidateSpecs \in Seq(Sources) /\ m \in {3, 6} /\ DOMAIN CandidateSpecs = 1..m
      /\ \A i \in 1..m : CandidateSpecs[i] \in Sources
  BY <1>2, CandidatesAreListed
<1>5. /\ observations \in Seq(Observation) /\ n \in Nat /\ n <= m
      /\ n = 0 <=> observations = <<>>
  BY <1>2, <1>4 DEF ObservationsInv, Searching
<1>6. NextSource = SourceAt(n + 1) /\ NextSource \in Sources
  BY <1>4, <1>5 DEF NextSource, SourceAt, Sources
<1>7. CASE Raises(reply)
  <2>1. observations' = observations /\ result'.outcome = "raised"
    BY <1>1, <1>7 DEF ResultAfter, Raised
  <2>2. result' # NoResult /\ result'.outcome \notin Outcomes
    BY <2>1 DEF NoResult, Outcomes
  <2>3. ObservationsInv'
    BY <1>2, <1>3, <2>1 DEF ObservationsInv, ObservationFits
  <2> QED BY <1>1, <1>2, <2>2, <2>3 DEF SearchInv
<1>8. CASE ~Raises(reply)
  <2>1. /\ error \in Errors
        /\ error = NoError => reply.status = 404 \/ (reply.status = 200 /\ Readable(reply))
        /\ error # NoError => reply.status \in StatusesOf(error)
    BY <1>8, ClassificationIsAccepted
  <2> HIDE DEF error
  <2>2. seen \in Observation /\ ObservationFits(seen)
    <3>1. reply.status \in AllStatuses
      BY DEF Reply
    <3> QED BY <1>6, <2>1, <3>1 DEF Observation, ObservationFits
  <2>3. /\ seen.source = SourceAt(n + 1) /\ seen.status = reply.status /\ seen.error = error
    BY <1>6
  <2> HIDE DEF seen
  <2>4. /\ later \in Seq(Observation) /\ Len(later) = n + 1 /\ later # <<>>
        /\ \A i \in 1..n : later[i] = observations[i]
        /\ later[n + 1] = seen
        /\ Tail(later) \in Seq(Observation) /\ Len(Tail(later)) = n
        /\ \A i \in 1..n : Tail(later)[i] = later[i + 1]
        /\ Tail(later) = <<>> <=> n = 0
    BY <1>5, <2>2
  <2>5. observations' = later
    BY <1>1, <1>8
  <2> HIDE DEF later
  <2>6. ObservationsInv'
    <3>1. \A i \in 1..Len(later) : later[i].source = SourceAt(i) /\ ObservationFits(later[i])
      BY <1>2, <1>5, <2>2, <2>3, <2>4 DEF ObservationsInv
    <3>2. Len(later) <= m + 1
      BY <1>4, <1>5, <2>4
    <3> QED BY <1>3, <2>4, <2>5, <3>1, <3>2 DEF ObservationsInv, ObservationFits
  <2>7. /\ later[1].source = Repository
        /\ Len(Tail(later)) <= m
        /\ \A i \in 1..Len(Tail(later)) : Tail(later)[i].source = CandidateSpecs[i]
        /\ \A i \in 1..(Len(later) - 1) :
             later[i].error = NoError /\ later[i].status = IF i = 1 THEN 200 ELSE 404
    <3>1. \A i \in 1..(n + 1) : later[i].source = SourceAt(i)
      BY <1>2, <1>5, <2>3, <2>4 DEF ObservationsInv
    <3>2. \A i \in 1..n : later[i + 1].source = SourceAt(i + 1) /\ SourceAt(i + 1) = CandidateSpecs[i]
      BY <1>5, <3>1 DEF SourceAt
    <3>3. later[1].source = Repository
      BY <1>5, <3>1 DEF SourceAt
    <3>4. \A i \in 1..n : later[i].error = NoError /\ later[i].status = IF i = 1 THEN 200 ELSE 404
      BY <1>2, <1>5, <2>4 DEF Searching, Quiet
    <3>5. \A i \in 1..n : Tail(later)[i].source = CandidateSpecs[i]
      BY <1>5, <2>4, <3>2
    <3>6. Len(later) - 1 = n
      BY <1>5, <2>4
    <3> QED BY <1>5, <2>4, <3>3, <3>4, <3>5, <3>6
  \* What is left of an accepted search: how the last observation goes with the result.
  <2>8. /\ n # 0 => kind = "security"
        /\ ResultAfter(reply) = IF error # NoError THEN Failed(reply)
                                ELSE IF n = 0 THEN FirstResult(reply) ELSE SearchResult(reply)
    BY <1>2, <1>5, <1>8 DEF ResultAfter, Searching, error
  <2> DEFINE r == ResultAfter(reply)
             Ending == \/ /\ error # NoError
                          /\ r = Result(FailedOutcome(error), "unset", NoSource, reply.status, error)
                       \/ error = NoError /\ n = 0 /\ reply.status = 404 /\ r = Unavailable
                       \/ error = NoError /\ n # 0 /\ reply.status = 200
                            /\ r = Present(CandidateSpecs[n])
                       \/ error = NoError /\ reply.status = 404 /\ n = m /\ r = Absent
             Fetched == n = 0 /\ kind # "security" /\ (r = Fact \/ (kind = "commit" /\ r = NoCommits))
             Onward == /\ error = NoError /\ kind = "security" /\ r = NoResult
                       /\ IF n = 0 THEN reply.status = 200 ELSE reply.status = 404 /\ n # m
  <2>9. Ending \/ Fetched \/ Onward
    <3>1. CASE error # NoError
      BY <2>8, <3>1 DEF Failed, error
    <3>2. CASE error = NoError /\ n = 0
      <4>1. r = FirstResult(reply)
        BY <2>8, <3>2
      <4> HIDE DEF r
      <4> QED BY <2>1, <3>2, <4>1 DEF FirstResult
    <3>3. CASE error = NoError /\ n # 0
      <4>1. r = SearchResult(reply) /\ NextSource = CandidateSpecs[n] /\ kind = "security"
        BY <1>5, <2>8, <3>3 DEF NextSource
      <4> HIDE DEF r
      <4> QED BY <2>1, <3>3, <4>1 DEF SearchResult
    <3> QED BY <3>1, <3>2, <3>3
  <2>10. result' = r
    BY <1>1
  <2> HIDE DEF r
  <2>11. ASSUME Onward PROVE Searching' /\ result'.outcome \notin Outcomes
    <3>1. result'.outcome \notin Outcomes
      BY <2>10, <2>11 DEF NoResult, Outcomes
    <3>2. n + 1 <= m
      BY <1>4, <1>5, <2>11
    <3>3. later[n + 1].error = NoError
          /\ later[n + 1].status = IF n + 1 = 1 THEN 200 ELSE 404
      BY <1>5, <2>3, <2>4, <2>11
    <3>4. \A i \in 1..(n + 1) :
            later[i].error = NoError /\ later[i].status = IF i = 1 THEN 200 ELSE 404
      BY <1>5, <2>4, <2>7, <3>3
    <3>5. n # 0 => CandidateSpecs[n] \notin steady
      <4>1. n # 0 => NextSource = CandidateSpecs[n] /\ reply.status = 404
        BY <1>5, <2>11 DEF NextSource
      <4> QED BY <1>1, <1>2, <4>1
    <3>6. \A i \in 1..(Len(later) - 1) : CandidateSpecs[i] \notin steady
      BY <1>2, <1>5, <2>4, <3>5 DEF Searching
    <3> QED BY <1>1, <1>3, <2>4, <2>5, <2>11, <3>1, <3>2, <3>4, <3>6 DEF Searching, Quiet
  <2> DEFINE Fields(x) == HasFields(x) /\ x.outcome \in Outcomes
  <2>12. ASSUME Ending \/ Fetched PROVE Fields(r)
    BY <2>12 DEF HasFields, Result, Unavailable, Present, Absent, Fact, NoCommits, Outcomes,
                 FailedOutcome
  <2>13. ASSUME Ending \/ Fetched PROVE result' # NoResult
    <3>1. result'.outcome \in Outcomes
      BY <2>10, <2>12, <2>13
    <3> QED BY <3>1 DEF NoResult, Outcomes
  <2>14. ASSUME Ending PROVE ResultAccepted'
    <3> DEFINE failed == Result(FailedOutcome(error), "unset", NoSource, reply.status, error)
    <3>1. ASSUME error # NoError, r = failed PROVE FailureAccepted'
      <4>1. /\ failed.outcome = FailedOutcome(error) /\ failed.present = "unset"
            /\ failed.source = NoSource /\ failed.status = reply.status /\ failed.error = error
        BY DEF Result
      <4> HIDE DEF failed
      <4> QED BY <2>1, <2>10, <3>1, <4>1 DEF FailureAccepted, FailedOutcome
    <3>2. CASE kind = "security"
      <4>1. Last' = seen
        BY <2>4, <2>5 DEF Last
      <4>2. error # NoError =>
              /\ FailureAccepted'
              /\ <<result'.status, result'.error>> = <<seen.status, seen.error>>
        BY <2>3, <2>10, <2>14, <3>1 DEF Result
      <4>3. n # 0 => seen.source = CandidateSpecs[n]
        BY <1>5, <2>3 DEF SourceAt
      <4>4. \/ error # NoError /\ FailureAccepted'
               /\ <<result'.status, result'.error>> = <<seen.status, seen.error>>
            \/ error = NoError /\ Tail(later) = <<>> /\ seen.status = 404 /\ result' = Unavailable
            \/ error = NoError /\ Tail(later) # <<>> /\ seen.status = 200
               /\ result' = Present(seen.source)
            \/ error = NoError /\ seen.status = 404 /\ Len(Tail(later)) = m /\ result' = Absent
        BY <2>3, <2>4, <2>10, <2>14, <4>2, <4>3
      <4>5. SearchAccepted'
        BY <1>3, <2>3, <2>5, <2>7, <4>1, <4>4 DEF SearchAccepted
      <4> QED BY <1>1, <3>2, <4>5 DEF ResultAccepted
    <3>3. CASE kind # "security"
      <4>1. n = 0
        BY <2>8, <3>3
      <4>2. FactAccepted'
        BY <1>1, <1>4, <2>10, <2>14, <3>1, <4>1 DEF FactAccepted
      <4> QED BY <1>1, <3>3, <4>2 DEF ResultAccepted
    <3> QED BY <3>2, <3>3
  <2>15. ASSUME Fetched PROVE ResultAccepted'
    BY <1>1, <2>10, <2>15 DEF ResultAccepted, FactAccepted
  <2>16. ASSUME Ending \/ Fetched PROVE SteadyPolicyIsNotMissed'
    <3> SUFFICES ASSUME kind = "security", r.outcome = "available",
                        NEW i \in 1..m, CandidateSpecs[i] \in steady
                 PROVE  r.present = "true" /\ \E j \in 1..i : r.source = CandidateSpecs[j]
      BY <1>1, <1>3, <1>4, <2>10 DEF SteadyPolicyIsNotMissed
    <3>1. \A k \in 1..(n - 1) : CandidateSpecs[k] \notin steady
      BY <1>2 DEF Searching
    <3>2. n # 0 => NextSource = CandidateSpecs[n]
      BY <1>5 DEF NextSource
    <3>3. Ending
      BY <2>16
    <3>4. CASE error = NoError /\ n # 0 /\ reply.status = 200 /\ r = Present(CandidateSpecs[n])
      <4>1. r.present = "true" /\ r.source = CandidateSpecs[n]
        BY <3>4 DEF Present, Result
      <4>2. i >= n
        BY <1>4, <1>5, <3>1
      <4>3. n \in 1..i
        BY <1>4, <1>5, <3>4, <4>2
      <4> QED BY <4>1, <4>3
    <3>5. CASE error = NoError /\ reply.status = 404 /\ n = m /\ r = Absent
      <4>1. CandidateSpecs[m] \notin steady
        BY <1>1, <1>2, <1>4, <3>2, <3>5
      <4> QED BY <1>4, <3>1, <3>5, <4>1
    <3>6. CASE error # NoError
               /\ r = Result(FailedOutcome(error), "unset", NoSource, reply.status, error)
      BY <3>6 DEF Result, FailedOutcome
    <3>7. CASE r = Unavailable
      BY <3>7 DEF Result, Unavailable
    <3> QED BY <3>3, <3>4, <3>5, <3>6, <3>7
  <2>17. ASSUME Ending \/ Fetched PROVE Found'
    BY <2>4, <2>5, <2>10, <2>12, <2>14, <2>15, <2>16, <2>17 DEF Found, HasFields
  <2>18. (result' = NoResult => Searching') /\ (result'.outcome \in Outcomes => Found')
    <3> HIDE DEF Ending, Fetched, Onward
    <3> QED BY <2>9, <2>11, <2>13, <2>17
  <2> QED BY <1>1, <1>2, <2>6, <2>18 DEF SearchInv
<1> QED BY <1>7, <1>8

\* Steps of EvidenceCollection.
LEMMA NextKeepsSearchInv ==
  ASSUME SearchInv, Next
  PROVE  SearchInv'
<1>1. ASSUME NEW reply \in Reply, Probe(reply) PROVE SearchInv'
  BY <1>1, ProbeKeepsSearchInv
<1>2. CASE RemoteChange
  <2>1. UNCHANGED <<kind, isDefault, observations, result>> /\ steady' = steady \intersect remote'
    BY <1>2 DEF RemoteChange
  <2> QED BY <2>1, SearchRests
<1>3. CASE Done
  <2>1. UNCHANGED <<kind, isDefault, observations, result, steady, remote>>
    BY <1>3 DEF Done, vars
  <2> QED BY <2>1, SearchRests DEF SearchInv
<1> QED BY <1>1, <1>2, <1>3 DEF Next

\* The address of a source tells its place in the search.
LEMMA AddressesDiffer ==
  ASSUME SearchInv
  PROVE  NoAddressTwice
<1> DEFINE Address(s) == IF isDefault /\ s[1] # "repository" THEN <<".github", s[2]>> ELSE s
<1>1. /\ isDefault \in BOOLEAN /\ ObservationsInv
  BY DEF SearchInv
<1>2. /\ CandidateCount \in {3, 6} /\ Len(CandidateSpecs) = CandidateCount
      /\ \A i \in 1..CandidateCount : CandidateSpecs[i] = AllCandidates[i]
  BY <1>1, CandidatesAreListed
<1>3. /\ Len(observations) \in Nat /\ Len(observations) <= CandidateCount + 1
      /\ DOMAIN observations = 1..Len(observations)
      /\ \A i \in 1..Len(observations) : observations[i].source = SourceAt(i)
  BY <1>1, <1>2 DEF ObservationsInv
<1>4. \A i \in 2..(CandidateCount + 1) : SourceAt(i) = AllCandidates[i - 1]
  BY <1>2 DEF SourceAt
<1>5. \A i \in 1..6 : AllCandidates[i][1] # "repository"
  BY DEF AllCandidates
<1>6. SourceAt(1) = Repository
  BY DEF SourceAt
<1>7. ASSUME NEW i \in 1..3, NEW j \in 1..3, AllCandidates[i][2] = AllCandidates[j][2] PROVE i = j
  <2>1. /\ 1..3 = {1, 2, 3}
        /\ AllCandidates[1][2] = ".github/SECURITY.md" /\ AllCandidates[2][2] = "SECURITY.md"
        /\ AllCandidates[3][2] = "docs/SECURITY.md"
    BY DEF AllCandidates, Paths
  <2> QED BY <1>7, <2>1
<1>8. ASSUME NEW i \in 1..(CandidateCount + 1), NEW j \in 1..(CandidateCount + 1),
             Address(SourceAt(i)) = Address(SourceAt(j))
      PROVE  i = j
  <2>1. CASE i = 1 /\ j = 1
    BY <2>1
  <2>2. ASSUME NEW k \in 2..(CandidateCount + 1)
        PROVE  /\ Address(SourceAt(k)) # Address(Repository)
               /\ k - 1 \in 1..CandidateCount
    <3>1. k - 1 \in 1..6 /\ k - 1 \in 1..CandidateCount
      BY <1>2
    <3>2. Address(Repository) = Repository /\ Repository[1] = "repository"
      BY DEF Repository
    <3>3. SourceAt(k)[1] # "repository"
      BY <1>4, <1>5, <3>1
    <3> QED BY <3>1, <3>2, <3>3
  <2>3. CASE i # 1 /\ j # 1
    <3>1. i - 1 \in 1..CandidateCount /\ j - 1 \in 1..CandidateCount
          /\ i \in 2..(CandidateCount + 1) /\ j \in 2..(CandidateCount + 1)
      BY <1>2, <2>3
    <3>2. SourceAt(i) = AllCandidates[i - 1] /\ SourceAt(j) = AllCandidates[j - 1]
      BY <1>4, <3>1
    <3>3. i - 1 \in 1..6 /\ j - 1 \in 1..6
      BY <1>2, <3>1
    <3>4. CASE ~isDefault
      <4>1. AllCandidates[i - 1] = AllCandidates[j - 1]
        BY <1>8, <3>2, <3>4
      <4>2. i - 1 = j - 1
        BY <3>3, <4>1, CandidatesDiffer
      <4> QED BY <1>2, <4>2
    <3>5. CASE isDefault
      <4>1. AllCandidates[i - 1][1] # "repository" /\ AllCandidates[j - 1][1] # "repository"
        BY <1>5, <3>3
      <4>2. AllCandidates[i - 1][2] = AllCandidates[j - 1][2]
        BY <1>8, <3>2, <3>5, <4>1
      <4>3. i - 1 \in 1..3 /\ j - 1 \in 1..3
        BY <3>1, <3>5 DEF CandidateCount
      <4>4. i - 1 = j - 1
        BY <1>7, <4>2, <4>3
      <4> QED BY <1>2, <4>4
    <3> QED BY <1>1, <3>4, <3>5
  <2> QED BY <1>2, <1>6, <1>8, <2>1, <2>2, <2>3
<1> HIDE DEF Address
<1>9. \A i, j \in DOMAIN observations :
        Address(observations[i].source) = Address(observations[j].source) => i = j
  BY <1>2, <1>3, <1>8
<1> QED BY <1>9 DEF NoAddressTwice, Address

-----------------------------------------------------------------------------
(* What is stored, and what the result classes accept. *)

\* A result with its details: the bodies that came with it, and which of them are bound.
LEMMA CollectedShape ==
  ASSUME SearchInv, result.outcome \in Outcomes, NEW f \in Collected
  PROVE  /\ f = [result |-> f.result, observations |-> f.observations, bodies |-> f.bodies,
                 etags |-> f.etags, retryAfter |-> f.retryAfter, attemptedAt |-> f.attemptedAt]
         /\ f.result = result /\ f.observations \in Seq(Observation)
         /\ f.observations = IF kind = "security" THEN observations ELSE <<>>
         /\ kind = "security" <=> f.observations # <<>>
         /\ \A i \in 1..Len(f.observations) : ObservationFits(f.observations[i])
         /\ DOMAIN f.bodies = IF kind = "security"
                              THEN {i \in 1..Len(f.observations) : f.observations[i].status = 200}
                              ELSE IF f.result.outcome = "available" THEN {1} ELSE {}
         /\ f.bodies = [i \in DOMAIN f.bodies |-> f.bodies[i]]
         /\ \A i \in DOMAIN f.bodies :
              IsBound(f.bodies[i]) <=> (kind = "security" => f.observations[i].error = NoError)
         /\ f.etags \subseteq {i \in DOMAIN f.bodies : IsBound(f.bodies[i])}
         /\ f.retryAfter \in BOOLEAN
         /\ f.retryAfter => f.result.error \in WithRetryAfter
<1> DEFINE seen == IF kind = "security" THEN observations ELSE <<>>
<1>1. /\ f \in [result : {result}, observations : {seen}, bodies : [Answered -> Bodies],
                etags : SUBSET Succeeded, retryAfter : BOOLEAN, attemptedAt : AttemptTimes]
      /\ \A i \in Answered : IsBound(f.bodies[i]) <=> i \in Succeeded
      /\ f.retryAfter => result.error \in WithRetryAfter
  BY DEF Collected
<1>2. /\ f = [result |-> f.result, observations |-> f.observations, bodies |-> f.bodies,
              etags |-> f.etags, retryAfter |-> f.retryAfter, attemptedAt |-> f.attemptedAt]
      /\ f.result = result /\ f.observations = seen /\ f.bodies \in [Answered -> Bodies]
      /\ f.etags \subseteq Succeeded /\ f.retryAfter \in BOOLEAN
  BY <1>1
<1>3. /\ observations \in Seq(Observation) /\ observations # <<>>
      /\ \A i \in 1..Len(observations) : ObservationFits(observations[i])
      /\ DOMAIN observations = 1..Len(observations)
  BY DEF SearchInv, Found, ObservationsInv
<1>4. /\ seen \in Seq(Observation)
      /\ kind = "security" <=> seen # <<>>
      /\ \A i \in 1..Len(seen) : ObservationFits(seen[i])
  BY <1>3
<1>5. /\ DOMAIN f.bodies = Answered
      /\ f.bodies = [i \in DOMAIN f.bodies |-> f.bodies[i]]
  BY <1>2
<1>6. /\ Answered = IF kind = "security" THEN {i \in 1..Len(observations) : observations[i].status = 200}
                    ELSE IF result.outcome = "available" THEN {1} ELSE {}
      /\ Succeeded = IF kind = "security" THEN {i \in Answered : observations[i].error = NoError}
                     ELSE Answered
  BY <1>3 DEF Answered, Succeeded
<1>7. \A i \in DOMAIN f.bodies :
        IsBound(f.bodies[i]) <=> (kind = "security" => observations[i].error = NoError)
  BY <1>1, <1>5, <1>6
<1>8. f.etags \subseteq {i \in DOMAIN f.bodies : IsBound(f.bodies[i])}
  BY <1>1, <1>2, <1>5, <1>6
<1>9. DOMAIN f.bodies = IF kind = "security"
                        THEN {i \in 1..Len(f.observations) : f.observations[i].status = 200}
                        ELSE IF f.result.outcome = "available" THEN {1} ELSE {}
  BY <1>2, <1>5, <1>6
<1> QED BY <1>1, <1>2, <1>4, <1>5, <1>7, <1>8, <1>9

LEMMA CollectedIsAccepted ==
  ASSUME SearchInv, result.outcome \in Outcomes, NEW f \in Collected
  PROVE  Accepted(f)
<1>1. /\ ResultAccepted /\ observations # <<>> /\ observations \in Seq(Observation)
  BY DEF SearchInv, Found, ObservationsInv
<1>2. DetailsAccepted(f)
  <2>1. DOMAIN f.observations = 1..Len(f.observations)
    BY CollectedShape
  <2>2. CASE kind = "security"
    <3>1. /\ DOMAIN f.bodies = {i \in 1..Len(f.observations) : f.observations[i].status = 200}
          /\ \A i \in DOMAIN f.bodies : IsBound(f.bodies[i]) <=> f.observations[i].error = NoError
          /\ f.etags \subseteq {i \in DOMAIN f.bodies : IsBound(f.bodies[i])}
      BY <2>2, CollectedShape
    <3>3. \A i \in DOMAIN f.observations :
            /\ i \in DOMAIN f.bodies <=> f.observations[i].status = 200
            /\ i \in DOMAIN f.bodies => (IsBound(f.bodies[i]) <=> f.observations[i].error = NoError)
            /\ i \in f.etags => i \in DOMAIN f.bodies /\ IsBound(f.bodies[i])
      BY <2>1, <3>1
    <3>2. f.retryAfter => f.result.error \in WithRetryAfter
      BY CollectedShape
    <3> QED BY <2>2, <3>2, <3>3 DEF DetailsAccepted
  <2>3. CASE kind # "security"
    BY <2>3, CollectedShape DEF DetailsAccepted
  <2> QED BY <2>2, <2>3
<1>3. f.result = result /\ (kind = "security" => f.observations = observations /\ f.observations # <<>>)
  BY CollectedShape, <1>1
<1>4. Of(f)!FailureAccepted = FailureAccepted
  BY <1>3 DEF FailureAccepted, Of!FailureAccepted, StatusesOf, Of!StatusesOf, RetryableErrors,
              Of!RetryableErrors, NoSource, Of!NoSource, Timeout, Of!Timeout, Unreachable,
              Of!Unreachable
<1>5. /\ Of(f)!CandidateSpecs = CandidateSpecs
      /\ Of(f)!NoError = NoError /\ Of(f)!Repository = Repository
      /\ Of(f)!Unavailable = Unavailable /\ Of(f)!NoCommits = NoCommits /\ Of(f)!Fact = Fact
      /\ Of(f)!Absent = Absent /\ \A x : Of(f)!Present(x) = Present(x)
  BY DEF CandidateSpecs, Of!CandidateSpecs, AllCandidates, Of!AllCandidates, Paths, Of!Paths,
         NoError, Of!NoError, Repository, Of!Repository, Unavailable, Of!Unavailable, NoCommits,
         Of!NoCommits, Fact, Of!Fact, Absent, Of!Absent, Present, Of!Present, Result, Of!Result,
         NoSource, Of!NoSource
<1>6. CASE kind = "security"
  <2>1. Of(f)!Last = Last
    BY <1>3, <1>6 DEF Last, Of!Last
  <2>2. SearchAccepted
    BY <1>1, <1>6 DEF ResultAccepted
  <2>3. Of(f)!SearchAccepted
    BY <1>3, <1>4, <1>5, <1>6, <2>1, <2>2 DEF SearchAccepted, Of!SearchAccepted
  <2> QED BY <1>2, <1>3, <1>6, <2>3 DEF Accepted, Of!ResultAccepted
<1>7. CASE kind # "security"
  <2>1. Of(f)!FactAccepted
    BY <1>1, <1>3, <1>4, <1>5, <1>7 DEF ResultAccepted, FactAccepted, Of!FactAccepted
  <2> QED BY <1>2, <1>7, <2>1 DEF Accepted, Of!ResultAccepted
<1> QED BY <1>6, <1>7

\* The same, for any result that its class accepts.
LEMMA AcceptedShape ==
  ASSUME isDefault \in BOOLEAN, NEW S, NEW g, Accepted(g), g.observations \in Seq(S)
  PROVE  \/ /\ g.result.outcome \in {"failed_retryable", "failed_nonretryable"}
            /\ g.result.status \in StatusesOf(g.result.error)
            /\ g.result.present = "unset" /\ g.result.source = NoSource
         \/ /\ g.result = Unavailable
            /\ kind = "security" => Len(g.observations) = 1
         \/ kind = "commit" /\ g.result = NoCommits
         \/ kind # "security" /\ g.result = Fact
         \/ /\ kind = "security" /\ Len(g.observations) > 1
            /\ g.observations[Len(g.observations)].status = 200
            /\ g.result = Present(g.observations[Len(g.observations)].source)
         \/ /\ kind = "security" /\ Len(g.observations) > 1
            /\ g.observations[Len(g.observations)].status = 404
            /\ g.result = Absent
<1>1. /\ kind = "security" => g.observations # <<>>
      /\ Of(g)!ResultAccepted
  BY DEF Accepted
<1>2. Of(g)!FailureAccepted =>
        /\ g.result.outcome \in {"failed_retryable", "failed_nonretryable"}
        /\ g.result.status \in StatusesOf(g.result.error)
        /\ g.result.present = "unset" /\ g.result.source = NoSource
  BY DEF Of!FailureAccepted, StatusesOf, Of!StatusesOf, NoSource, Of!NoSource, Timeout,
         Of!Timeout, Unreachable, Of!Unreachable
<1>3. /\ Of(g)!CandidateSpecs = CandidateSpecs
      /\ Of(g)!NoError = NoError
      /\ Of(g)!Unavailable = Unavailable /\ Of(g)!NoCommits = NoCommits /\ Of(g)!Fact = Fact
      /\ Of(g)!Absent = Absent /\ \A x : Of(g)!Present(x) = Present(x)
  BY DEF CandidateSpecs, Of!CandidateSpecs, AllCandidates, Of!AllCandidates, Paths, Of!Paths,
         NoError, Of!NoError, Repository, Of!Repository, Unavailable, Of!Unavailable, NoCommits,
         Of!NoCommits, Fact, Of!Fact, Absent, Of!Absent, Present, Of!Present, Result, Of!Result,
         NoSource, Of!NoSource
<1>4. CASE kind = "security"
  <2> DEFINE n == Len(g.observations)
  <2>1. /\ n \in Nat /\ n > 0 /\ Len(Tail(g.observations)) = n - 1
        /\ Tail(g.observations) = <<>> <=> n = 1
    <3>1. n \in Nat /\ n > 0
      BY <1>1, <1>4
    <3>2. Len(Tail(g.observations)) = n - 1 /\ Tail(g.observations) \in Seq(S)
      BY <1>1, <1>4
    <3>3. ASSUME NEW q \in Seq(S) PROVE q = <<>> <=> Len(q) = 0
      OBVIOUS
    <3>4. Tail(g.observations) = <<>> <=> Len(Tail(g.observations)) = 0
      BY <3>2, <3>3
    <3> HIDE DEF n
    <3>5. n - 1 = 0 <=> n = 1
      BY <3>1
    <3>6. Tail(g.observations) = <<>> <=> n = 1
      BY <3>2, <3>4, <3>5
    <3> QED BY <3>1, <3>2, <3>6
  <2>2. Len(CandidateSpecs) \in {3, 6}
    BY CandidatesAreListed
  <2>3. Of(g)!Last = g.observations[n]
    BY DEF Of!Last
  <2>4. Of(g)!SearchAccepted
    BY <1>1, <1>4 DEF Of!ResultAccepted
  <2>5. \/ Of(g)!FailureAccepted
        \/ n = 1 /\ g.result = Unavailable
        \/ n # 1 /\ g.observations[n].status = 200 /\ g.result = Present(g.observations[n].source)
        \/ g.observations[n].status = 404 /\ n - 1 = Len(CandidateSpecs) /\ g.result = Absent
    BY <1>3, <2>1, <2>3, <2>4 DEF Of!SearchAccepted
  <2>6. n = 1 \/ n > 1
    BY <2>1
  <2>7. n - 1 = Len(CandidateSpecs) => n > 1
    <3> HIDE DEF n
    <3>1. ASSUME NEW c \in {3, 6}, n - 1 = c PROVE n > 1
      BY <2>1, <3>1
    <3> QED BY <2>2, <3>1
  <2> QED BY <1>2, <1>4, <2>5, <2>6, <2>7
<1>5. CASE kind # "security"
  <2>1. Of(g)!FactAccepted
    BY <1>1, <1>5 DEF Of!ResultAccepted
  <2> QED BY <1>2, <1>3, <1>5, <2>1 DEF Of!FactAccepted
<1> QED BY <1>4, <1>5

\* The observations before the last one of a search are quiet, and so is the last one unless
\* the search failed.
LEMMA AcceptedObservations ==
  ASSUME isDefault \in BOOLEAN, NEW S, NEW g, Accepted(g), g.observations \in Seq(S),
         kind = "security"
  PROVE  /\ g.observations # <<>>
         /\ \A i \in 1..(Len(g.observations) - 1) :
              /\ g.observations[i].error = NoError
              /\ g.observations[i].status = IF i = 1 THEN 200 ELSE 404
         /\ g.result.outcome \in {"available", "unavailable"} =>
              /\ g.observations[Len(g.observations)].error = NoError
              /\ g.observations[Len(g.observations)].status \in {200, 404}
         /\ g.result.outcome \notin {"available", "unavailable"} =>
              /\ g.observations[Len(g.observations)].error = g.result.error
              /\ g.observations[Len(g.observations)].status = g.result.status
<1>1. /\ g.observations # <<>>
      /\ Of(g)!SearchAccepted
  BY DEF Accepted, Of!ResultAccepted
<1>2. Of(g)!Last = g.observations[Len(g.observations)] /\ Of(g)!NoError = NoError
  BY DEF Of!Last, Of!NoError, NoError
<1>3. Of(g)!FailureAccepted => g.result.outcome \in {"failed_retryable", "failed_nonretryable"}
  BY DEF Of!FailureAccepted
<1>4. /\ Of(g)!Unavailable.outcome = "unavailable"
      /\ Of(g)!Absent.outcome = "available"
      /\ \A x : Of(g)!Present(x).outcome = "available"
  BY DEF Of!Unavailable, Of!Absent, Of!Present, Of!Result
<1>5. \A i \in 1..(Len(g.observations) - 1) :
        /\ g.observations[i].error = NoError
        /\ g.observations[i].status = IF i = 1 THEN 200 ELSE 404
  BY <1>1, <1>2 DEF Of!SearchAccepted
<1>6. \/ /\ Of(g)!FailureAccepted
         /\ <<g.result.status, g.result.error>> =
              <<g.observations[Len(g.observations)].status, g.observations[Len(g.observations)].error>>
      \/ /\ g.result.outcome \in {"available", "unavailable"}
         /\ g.observations[Len(g.observations)].error = NoError
         /\ g.observations[Len(g.observations)].status \in {200, 404}
  BY <1>1, <1>2, <1>4 DEF Of!SearchAccepted
<1> QED BY <1>1, <1>3, <1>5, <1>6

-----------------------------------------------------------------------------
(* The columns of a status, and the rows of the observations. *)

LEMMA StatusRange ==
  ASSUME NEW error, NEW s \in StatusesOf(error)
  PROVE  /\ error # NoError
         /\ \/ s \in 100..599
            \/ s = Timeout /\ error = "github_timeout"
            \/ s = Unreachable /\ error = "github_connectivity_failure"
BY DEF StatusesOf, NoError

\* Timeouts and refused connections share the column NULL; the category tells them apart.
StatusesWith(error) == {200, 404} \union StatusesOf(error)

LEMMA StatusReturns ==
  ASSUME NEW error, NEW s \in StatusesWith(error)
  PROVE  /\ StatusColumn(s) \in {Null} \union 100..599
         /\ StatusFrom(StatusColumn(s), error) = s
BY StatusRange DEF StatusesWith, StatusColumn, StatusFrom, Null, Timeout, Unreachable

LEMMA StatusKeeps ==
  ASSUME NEW error, NEW s \in StatusesWith(error), NEW c \in {200, 404}
  PROVE  s = c <=> StatusColumn(s) = c
BY StatusRange DEF StatusesWith, StatusColumn, Null, Timeout, Unreachable

ObservationRow(f, i) ==
  [sequence |-> i, role |-> f.observations[i].source,
   status |-> StatusColumn(f.observations[i].status), etag |-> i \in f.etags,
   error |-> f.observations[i].error,
   snapshot |-> IF i \in DOMAIN f.bodies THEN i ELSE Null]

\* One row for each observation, told apart by its sequence number.
LEMMA ObservationRowsCount ==
  ASSUME NEW f, f.observations \in Seq(Observation),
         NEW n, n = Len(f.observations)
  PROVE  /\ ObservationRows(f) = {ObservationRow(f, i) : i \in 1..n}
         /\ Cardinality(ObservationRows(f)) = n
         /\ \A i \in 1..n : (CHOOSE o \in ObservationRows(f) : o.sequence = i) = ObservationRow(f, i)
<1>1. ObservationRows(f) = {ObservationRow(f, i) : i \in 1..n}
  <2>1. DOMAIN f.observations = 1..n
    OBVIOUS
  <2> QED BY <2>1 DEF ObservationRows, ObservationRow
<1>2. \A i : ObservationRow(f, i).sequence = i
  BY DEF ObservationRow
<1>3. \A i \in 1..n : (CHOOSE o \in ObservationRows(f) : o.sequence = i) = ObservationRow(f, i)
  <2> TAKE i \in 1..n
  <2>1. ObservationRow(f, i) \in ObservationRows(f) /\ ObservationRow(f, i).sequence = i
    BY <1>1, <1>2
  <2>2. \A o \in ObservationRows(f) : o.sequence = i => o = ObservationRow(f, i)
    BY <1>1, <1>2
  <2> QED BY <2>1, <2>2
<1>4. Cardinality(ObservationRows(f)) = n
  <2> DEFINE b == [i \in 1..n |-> ObservationRow(f, i)]
             R == ObservationRows(f)
  <2>1. b \in [1..n -> R]
    BY <1>1
  <2>2. \A i, j \in 1..n : b[i] = b[j] => i = j
    BY <1>2
  <2>3. \A r \in R : \E i \in 1..n : b[i] = r
    BY <1>1
  <2> HIDE DEF b, R
  <2>4. b \in Bijection(1..n, R)
    <3>1. DOMAIN b = 1..n
      BY <2>1
    <3> QED BY <2>1, <2>2, <2>3, <3>1 DEF Bijection, Injection, Surjection, IsInjective
  <2>5. ExistsBijection(1..n, R)
    BY <2>4 DEF ExistsBijection
  <2>6. n \in Nat
    OBVIOUS
  <2>7. Cardinality(R) = n
    BY <2>5, <2>6, FS_CountingElements
  <2> QED BY <2>7 DEF R
<1> QED BY <1>1, <1>3, <1>4

LEMMA SnapshotReturns ==
  ASSUME NEW f, NEW i \in DOMAIN f.bodies
  PROVE  (CHOOSE s \in SnapshotRows(f) : s.id = i).bytes = f.bodies[i]
<1> DEFINE row(j) == [id |-> j, bytes |-> f.bodies[j], digest |-> f.bodies[j],
                      encoding |-> IF f.bodies[j].text THEN "utf-8" ELSE "binary",
                      object |-> ObjectOf(f, j), etag |-> j \in f.etags]
<1>1. SnapshotRows(f) = {row(j) : j \in DOMAIN f.bodies}
  BY DEF SnapshotRows
<1>2. \A j : row(j).id = j /\ row(j).bytes = f.bodies[j]
  OBVIOUS
<1> HIDE DEF row
<1>3. row(i) \in SnapshotRows(f) /\ row(i).id = i
  BY <1>1, <1>2
<1>4. \A s \in SnapshotRows(f) : s.id = i => s = row(i)
  BY <1>1, <1>2
<1>5. (CHOOSE s \in SnapshotRows(f) : s.id = i) = row(i)
  BY <1>3, <1>4
<1> QED BY <1>2, <1>5

LEMMA SnapshotIds ==
  ASSUME NEW f
  PROVE  {s.id : s \in SnapshotRows(f)} = DOMAIN f.bodies
<1> DEFINE row(j) == [id |-> j, bytes |-> f.bodies[j], digest |-> f.bodies[j],
                      encoding |-> IF f.bodies[j].text THEN "utf-8" ELSE "binary",
                      object |-> ObjectOf(f, j), etag |-> j \in f.etags]
<1>1. SnapshotRows(f) = {row(j) : j \in DOMAIN f.bodies}
  BY DEF SnapshotRows
<1>2. \A j : row(j).id = j
  OBVIOUS
<1> HIDE DEF row
<1> QED BY <1>1, <1>2

\* The rows of a collection, whatever became of its evidence, give back the collection.
LEMMA RowsReturn ==
  ASSUME SearchInv, result.outcome \in Outcomes, NEW f \in Collected, NEW w,
         w.attempt = AttemptRow(f), w.snapshots = SnapshotRows(f),
         w.observations = ObservationRows(f)
  PROVE  Rebuilt(w) = f
<1> DEFINE n == Len(f.observations)
<1>1. /\ f = [result |-> f.result, observations |-> f.observations, bodies |-> f.bodies,
              etags |-> f.etags, retryAfter |-> f.retryAfter, attemptedAt |-> f.attemptedAt]
      /\ f.result = result /\ f.observations \in Seq(Observation)
      /\ kind = "security" <=> f.observations # <<>>
      /\ \A i \in 1..n : ObservationFits(f.observations[i])
      /\ DOMAIN f.bodies = IF kind = "security"
                           THEN {i \in 1..n : f.observations[i].status = 200}
                           ELSE IF f.result.outcome = "available" THEN {1} ELSE {}
      /\ f.bodies = [i \in DOMAIN f.bodies |-> f.bodies[i]]
      /\ f.etags \subseteq DOMAIN f.bodies
  BY CollectedShape
<1>2. /\ isDefault \in BOOLEAN /\ Accepted(f) /\ HasFields(f.result)
  BY <1>1, CollectedIsAccepted DEF SearchInv, Found
<1>3. n \in Nat /\ f.observations = [i \in 1..n |-> f.observations[i]]
  BY <1>1
<1>4. /\ w.observations = {ObservationRow(f, i) : i \in 1..n}
      /\ Cardinality(w.observations) = n
      /\ \A i \in 1..n : ObservationAt(w, i) = ObservationRow(f, i)
  BY <1>1, ObservationRowsCount DEF ObservationAt
<1>5. RebuiltObservations(w) = f.observations
  <2> DEFINE back(i) == [source |-> ObservationAt(w, i).role,
                         status |-> StatusFrom(ObservationAt(w, i).status, ObservationAt(w, i).error),
                         error |-> ObservationAt(w, i).error]
  <2>1. ASSUME NEW i \in 1..n PROVE back(i) = f.observations[i]
    <3>1. /\ ObservationAt(w, i).role = f.observations[i].source
          /\ ObservationAt(w, i).status = StatusColumn(f.observations[i].status)
          /\ ObservationAt(w, i).error = f.observations[i].error
      BY <1>4 DEF ObservationRow
    <3>2. f.observations[i].status \in StatusesWith(f.observations[i].error)
      BY <1>1 DEF ObservationFits, StatusesWith
    <3>3. StatusFrom(ObservationAt(w, i).status, ObservationAt(w, i).error) = f.observations[i].status
      <4>1. StatusFrom(StatusColumn(f.observations[i].status), f.observations[i].error)
              = f.observations[i].status
        BY <3>2, StatusReturns
      <4> QED BY <3>1, <4>1
    <3>4. f.observations[i] \in Observation
      BY <1>1, <1>3
    <3> QED BY <3>1, <3>3, <3>4 DEF Observation
  <2>2. RebuiltObservations(w) = [i \in 1..n |-> back(i)]
    BY <1>4 DEF RebuiltObservations
  <2> HIDE DEF back
  <2> QED BY <1>3, <2>1, <2>2
<1>6. /\ w.attempt.outcome = f.result.outcome /\ w.attempt.error = f.result.error
      /\ w.attempt.status = StatusColumn(f.result.status)
      /\ w.attempt.etag = (f.result.outcome = "available" /\ Terminal(f) \in f.etags)
      /\ w.attempt.retryAfter = f.retryAfter /\ w.attempt.attemptedAt = f.attemptedAt
  BY DEF AttemptRow
<1> DEFINE last == f.observations[n]
           r == f.result
<1>7. \/ /\ r.outcome \in {"failed_retryable", "failed_nonretryable"}
         /\ r.status \in StatusesOf(r.error)
         /\ r.present = "unset" /\ r.source = NoSource
      \/ r = Unavailable
      \/ kind = "commit" /\ r = NoCommits
      \/ kind # "security" /\ r = Fact
      \/ kind = "security" /\ last.status = 200 /\ r = Present(last.source)
      \/ kind = "security" /\ last.status = 404 /\ r = Absent
  BY <1>1, <1>2, AcceptedShape
<1>8. RebuiltResult(w) = f.result
  <2>1. r.status \in StatusesWith(r.error)
    BY <1>7 DEF StatusesWith, Unavailable, NoCommits, Fact, Present, Absent, Result
  <2>2. StatusFrom(w.attempt.status, w.attempt.error) = r.status
    BY <1>6, <2>1, StatusReturns
  <2> DEFINE isAvailable == w.attempt.outcome = "available"
             present == IF kind # "security" \/ ~isAvailable THEN "unset"
                        ELSE IF last.status = 200 THEN "true" ELSE "false"
             source == IF present = "true" THEN last.source
                       ELSE IF isAvailable /\ kind # "security" THEN Repository ELSE NoSource
  <2>3. RebuiltResult(w) = Result(r.outcome, present, source, r.status, r.error)
    BY <1>3, <1>5, <1>6, <2>2 DEF RebuiltResult
  <2>4. present = r.present /\ source = r.source
    BY <1>6, <1>7 DEF Unavailable, NoCommits, Fact, Present, Absent, Result
  <2> HIDE DEF present, source, r, isAvailable
  <2>5. r = Result(r.outcome, r.present, r.source, r.status, r.error)
    BY <1>2 DEF HasFields, r
  <2>6. RebuiltResult(w) = r
    BY <2>3, <2>4, <2>5
  <2> QED BY <2>6 DEF r
<1>9. \A i \in DOMAIN f.bodies : BytesOf(w, i) = f.bodies[i]
  <2>1. \A i \in DOMAIN f.bodies : (CHOOSE s \in SnapshotRows(f) : s.id = i).bytes = f.bodies[i]
    BY SnapshotReturns
  <2> QED BY <2>1 DEF BytesOf
<1>10. kind = "security" => RebuiltByObservation(w) = f.bodies
  <2> SUFFICES ASSUME kind = "security" PROVE RebuiltByObservation(w) = f.bodies
    OBVIOUS
  <2>1. DOMAIN f.bodies \subseteq 1..n
    BY <1>1
  <2>2. \A i \in 1..n : /\ ObservationRow(f, i).sequence = i
                        /\ ObservationRow(f, i).snapshot # Null <=> i \in DOMAIN f.bodies
                        /\ i \in DOMAIN f.bodies => ObservationRow(f, i).snapshot = i
    BY DEF ObservationRow, Null
  <2>3. {o.sequence : o \in {p \in w.observations : p.snapshot # Null}} = DOMAIN f.bodies
    BY <1>4, <2>1, <2>2
  <2>4. \A i \in DOMAIN f.bodies : BytesOf(w, ObservationAt(w, i).snapshot) = f.bodies[i]
    BY <1>4, <1>9, <2>1, <2>2
  <2>5. RebuiltByObservation(w) =
          [i \in DOMAIN f.bodies |-> BytesOf(w, ObservationAt(w, i).snapshot)]
    BY <2>3 DEF RebuiltByObservation
  <2> QED BY <1>1, <2>4, <2>5
<1>11. kind # "security" => [i \in {s.id : s \in w.snapshots} |-> BytesOf(w, i)] = f.bodies
  <2>1. {s.id : s \in w.snapshots} = DOMAIN f.bodies
    BY SnapshotIds
  <2> QED BY <1>1, <1>9, <2>1
<1>12. kind = "security" => {o.sequence : o \in {p \in w.observations : p.etag}} = f.etags
  <2> SUFFICES ASSUME kind = "security"
               PROVE  {o.sequence : o \in {p \in w.observations : p.etag}} = f.etags
    OBVIOUS
  <2>1. f.etags \subseteq 1..n
    BY <1>1
  <2>2. \A i \in 1..n : /\ ObservationRow(f, i).sequence = i
                        /\ ObservationRow(f, i).etag <=> i \in f.etags
    BY DEF ObservationRow
  <2> QED BY <1>4, <2>1, <2>2
<1>13. kind # "security" => (IF w.attempt.etag THEN {1} ELSE {}) = f.etags
  <2> SUFFICES ASSUME kind # "security" PROVE (IF w.attempt.etag THEN {1} ELSE {}) = f.etags
    OBVIOUS
  <2>1. Terminal(f) = 1
    BY DEF Terminal
  <2>2. f.etags \subseteq IF f.result.outcome = "available" THEN {1} ELSE {}
    BY <1>1
  <2> QED BY <1>6, <2>1, <2>2
<1> HIDE DEF n, r, last
<1>14. Rebuilt(w) = [result |-> f.result, observations |-> f.observations, bodies |-> f.bodies,
                     etags |-> f.etags, retryAfter |-> f.retryAfter, attemptedAt |-> f.attemptedAt]
  BY <1>5, <1>6, <1>8, <1>10, <1>11, <1>12, <1>13 DEF Rebuilt
<1> QED BY <1>1, <1>14

\* What a collector comes back with satisfies every CHECK of its rows.
LEMMA RowsFitSchema ==
  ASSUME SearchInv, result.outcome \in Outcomes, NEW f \in Collected
  PROVE  SatisfiesChecks(RowsOf(f)) /\ IsCoherent(RowsOf(f))
<1> DEFINE n == Len(f.observations)
           r == f.result
           w == RowsOf(f)
           last == f.observations[n]
<1>1. /\ f.result = result /\ f.observations \in Seq(Observation)
      /\ kind = "security" <=> f.observations # <<>>
      /\ \A i \in 1..n : ObservationFits(f.observations[i])
      /\ DOMAIN f.bodies = IF kind = "security"
                           THEN {i \in 1..n : f.observations[i].status = 200}
                           ELSE IF f.result.outcome = "available" THEN {1} ELSE {}
      /\ f.etags \subseteq {i \in DOMAIN f.bodies : IsBound(f.bodies[i])}
      /\ \A i \in DOMAIN f.bodies :
           IsBound(f.bodies[i]) <=> (kind = "security" => f.observations[i].error = NoError)
      /\ f.retryAfter \in BOOLEAN /\ (f.retryAfter => r.error \in WithRetryAfter)
  BY CollectedShape
<1>2. /\ isDefault \in BOOLEAN /\ kind \in Kinds /\ Accepted(f)
  BY <1>1, CollectedIsAccepted DEF SearchInv
<1>3. n \in Nat /\ (n = 0 <=> f.observations = <<>>)
  BY <1>1
<1>4. /\ w.observations = {ObservationRow(f, i) : i \in 1..n}
      /\ Cardinality(w.observations) = n
  <2>1. w.observations = ObservationRows(f)
    BY DEF RowsOf
  <2> QED BY <1>1, <2>1, ObservationRowsCount
<1>5. {s.id : s \in w.snapshots} = DOMAIN f.bodies
  <2>1. w.snapshots = SnapshotRows(f)
    BY DEF RowsOf
  <2> QED BY <2>1, SnapshotIds
<1>6. \/ /\ r.outcome \in {"failed_retryable", "failed_nonretryable"}
         /\ r.status \in StatusesOf(r.error)
      \/ r = Unavailable
      \/ kind = "commit" /\ r = NoCommits
      \/ kind # "security" /\ r = Fact
      \/ kind = "security" /\ n > 1 /\ last.status = 200 /\ r = Present(last.source)
      \/ kind = "security" /\ n > 1 /\ last.status = 404 /\ r = Absent
  BY <1>1, <1>2, AcceptedShape
<1>7. /\ w.attempt.kind = kind /\ w.attempt.outcome = r.outcome /\ w.attempt.error = r.error
      /\ w.attempt.status = StatusColumn(r.status)
      /\ w.attempt.etag = (r.outcome = "available" /\ Terminal(f) \in f.etags)
      /\ w.attempt.retryAfter = f.retryAfter
  BY DEF AttemptRow, RowsOf
<1>8. /\ w.attempt.status = Null \/ w.attempt.status \in 100..599
      /\ r.status \in {200, 404} => w.attempt.status = r.status
  <2>1. r.status \in StatusesWith(r.error)
    BY <1>6 DEF StatusesWith, Unavailable, NoCommits, Fact, Present, Absent, Result
  <2> HIDE DEF w, r
  <2>2. StatusColumn(r.status) \in {Null} \union 100..599
    BY <2>1, StatusReturns
  <2>3. r.status \in {200, 404} => StatusColumn(r.status) = r.status
    BY <2>1, StatusKeeps
  <2> QED BY <1>7, <2>2, <2>3
<1>9. AttemptChecks(w.attempt)
  <2> USE DEF Unavailable, NoCommits, Fact, Present, Absent, Result, NoError, WithRetryAfter
  <2> HIDE DEF w
  <2>1. CASE r.outcome \in {"failed_retryable", "failed_nonretryable"}
                /\ r.status \in StatusesOf(r.error)
    <3>1. r.error # NoError
      BY <2>1, StatusRange
    <3> QED BY <1>7, <2>1, <3>1 DEF AttemptChecks
  <2>2. CASE r = Unavailable
    BY <1>1, <1>7, <1>8, <2>2 DEF AttemptChecks
  <2>3. CASE kind = "commit" /\ r = NoCommits
    BY <1>1, <1>7, <1>8, <2>3 DEF AttemptChecks
  <2>4. CASE kind # "security" /\ r = Fact
    BY <1>1, <1>7, <1>8, <2>4 DEF AttemptChecks
  <2>5. CASE kind = "security" /\ r = Present(last.source)
    BY <1>1, <1>7, <1>8, <2>5 DEF AttemptChecks
  <2>6. CASE kind = "security" /\ r = Absent
    BY <1>1, <1>7, <1>8, <2>6 DEF AttemptChecks
  <2> QED BY <1>6, <2>1, <2>2, <2>3, <2>4, <2>5, <2>6
<1>10. ASSUME NEW i \in 1..n
       PROVE  LET o == ObservationRow(f, i) IN
              /\ ObservationChecks(o)
              /\ o.status = Null \/ o.status \in 100..599
              /\ o.snapshot \in DOMAIN f.bodies \union {Null}
  <2> DEFINE o == ObservationRow(f, i)
             seen == f.observations[i]
  <2>1. /\ o.status = StatusColumn(seen.status) /\ o.error = seen.error
        /\ o.etag = (i \in f.etags)
        /\ o.snapshot = IF i \in DOMAIN f.bodies THEN i ELSE Null
    BY DEF ObservationRow
  <2> HIDE DEF o
  <2>2. kind = "security"
    BY <1>1, <1>3
  <2>3. i \in DOMAIN f.bodies <=> seen.status = 200
    BY <1>1, <2>2
  <2>4. i \in f.etags => i \in DOMAIN f.bodies
    BY <1>1
  <2>5. /\ seen.status \in StatusesWith(seen.error)
        /\ seen.error = NoError => seen.status \in {200, 404}
    BY <1>1 DEF ObservationFits, StatusesWith
  <2> HIDE DEF seen
  <2>6. /\ o.status = Null \/ o.status \in 100..599
        /\ seen.status = 200 <=> o.status = 200
        /\ seen.status = 404 <=> o.status = 404
    <3>1. StatusColumn(seen.status) \in {Null} \union 100..599
      BY <2>5, StatusReturns
    <3>2. ASSUME NEW c \in {200, 404} PROVE seen.status = c <=> StatusColumn(seen.status) = c
      BY <2>5, StatusKeeps
    <3> QED BY <2>1, <3>1, <3>2
  <2>7. i # 0
    BY <1>3
  <2>8. ObservationChecks(o)
    BY <2>1, <2>3, <2>4, <2>5, <2>6, <2>7 DEF ObservationChecks, Null
  <2>9. o.snapshot \in DOMAIN f.bodies \union {Null}
    BY <2>1
  <2> QED BY <2>6, <2>8, <2>9 DEF o
<1>11. w.evidence # NoRow =>
         /\ w.evidence.outcome = "available" <=> w.evidence.snapshot # Null
         /\ w.evidence.snapshot \in DOMAIN f.bodies \union {Null}
  <2>1. w.evidence = EvidenceRow(f)
    BY DEF RowsOf
  <2> HIDE DEF w
  <2>2. CASE r.outcome = "available"
    <3>1. w.evidence.outcome = "available" /\ w.evidence.snapshot = Decisive(f)
      BY <2>1, <2>2 DEF EvidenceRow
    <3>2. Decisive(f) \in DOMAIN f.bodies /\ Decisive(f) # Null
      <4>1. CASE kind # "security"
        BY <1>1, <2>2, <4>1 DEF Decisive, Terminal, Null
      <4>2. CASE kind = "security" /\ n > 1 /\ last.status = 200 /\ r = Present(last.source)
        <5>1. Decisive(f) = n
          BY <4>2 DEF Decisive, Terminal, Present, Result
        <5> QED BY <1>1, <1>3, <4>2, <5>1 DEF Null
      <4>3. CASE kind = "security" /\ n > 1 /\ r = Absent
        <5>1. Decisive(f) = 1
          BY <4>3 DEF Decisive, Absent, Result
        <5>2. f.observations[1].status = 200
          <6>1. 1 \in 1..(n - 1)
            BY <1>3, <4>3
          <6> QED BY <1>1, <1>2, <4>3, <6>1, AcceptedObservations
        <5> QED BY <1>1, <1>3, <4>3, <5>1, <5>2 DEF Null
      <4> QED BY <1>6, <2>2, <4>1, <4>2, <4>3 DEF Unavailable, NoCommits, Result
    <3> QED BY <3>1, <3>2
  <2>3. CASE r.outcome = "unavailable"
    BY <2>1, <2>3 DEF EvidenceRow
  <2>4. CASE r.outcome \notin {"available", "unavailable"}
    BY <2>1, <2>4 DEF EvidenceRow
  <2> QED BY <2>2, <2>3, <2>4
<1> HIDE DEF w, n
<1>12. SatisfiesChecks(w)
  BY <1>4, <1>5, <1>8, <1>9, <1>10, <1>11 DEF SatisfiesChecks
<1>13. IsCoherent(w)
  <2>1. {o.sequence : o \in w.observations} = 1..n
    <3>1. \A i \in 1..n : ObservationRow(f, i).sequence = i
      BY DEF ObservationRow
    <3> QED BY <1>4, <3>1
  <2>2. kind = "security" <=> w.observations # {}
    <3>1. n = 0 <=> 1..n = {}
      BY <1>3
    <3> QED BY <1>1, <1>3, <1>4, <3>1
  <2>3. \A o \in w.observations : o.snapshot \in {s.id : s \in w.snapshots} \union {Null}
    BY <1>4, <1>5, <1>10
  <2> QED BY <1>4, <2>1, <2>2, <2>3 DEF IsCoherent
<1> QED BY <1>12, <1>13 DEF w

-----------------------------------------------------------------------------
(* Reading damaged rows.  The evidence row repeats what the other rows say, so rows that *)
(* are verified against it are those of the collection, or the evidence is none.         *)

\* What one damaged row leaves as it was.
DamagedInOneRow(f) ==
  \/ /\ rows.attempt = AttemptRow(f) /\ rows.snapshots = SnapshotRows(f)
     /\ rows.observations = ObservationRows(f)
  \/ /\ rows.evidence = EvidenceRow(f)
     /\ rows.attempt.retryAfter \in BOOLEAN
     /\ \/ rows.snapshots = SnapshotRows(f)
        \/ rows.attempt = AttemptRow(f) /\ rows.observations = ObservationRows(f)

\* The details of a verified reading, in which all the observations are accounted for.
LEMMA VerifiedShape ==
  ASSUME SearchInv, NEW w, IsVerified(w), w.attempt.retryAfter \in BOOLEAN,
         NEW S, Rebuilt(w).observations \in Seq(S)
  PROVE  LET g == Rebuilt(w) IN
         /\ g = [result |-> g.result, observations |-> g.observations, bodies |-> g.bodies,
                 etags |-> g.etags, retryAfter |-> g.retryAfter, attemptedAt |-> g.attemptedAt]
         /\ g.bodies = [i \in DOMAIN g.bodies |-> g.bodies[i]]
         /\ g.etags \subseteq DOMAIN g.bodies
         /\ kind # "security" => g.observations = <<>>
         /\ g.retryAfter \in BOOLEAN /\ (g.retryAfter => g.result.error \in WithRetryAfter)
<1> DEFINE g == Rebuilt(w)
<1>1. /\ g = [result |-> g.result, observations |-> g.observations, bodies |-> g.bodies,
              etags |-> g.etags, retryAfter |-> g.retryAfter, attemptedAt |-> g.attemptedAt]
      /\ g.bodies = IF kind = "security" THEN RebuiltByObservation(w)
                    ELSE [i \in {s.id : s \in w.snapshots} |-> BytesOf(w, i)]
      /\ g.etags = IF kind = "security" THEN {o.sequence : o \in {p \in w.observations : p.etag}}
                   ELSE IF w.attempt.etag THEN {1} ELSE {}
      /\ g.observations = RebuiltObservations(w)
      /\ g.retryAfter = w.attempt.retryAfter
  BY DEF Rebuilt
<1> HIDE DEF g
<1>2. g.bodies = [i \in DOMAIN g.bodies |-> g.bodies[i]]
  BY <1>1 DEF RebuiltByObservation
<1>3. /\ {o.sequence : o \in w.observations} = 1..Cardinality(w.observations)
      /\ kind = "security" <=> w.observations # {}
      /\ DetailsAccepted(g)
  BY DEF IsVerified, IsCoherent, Accepted, g
<1>4. g.retryAfter => g.result.error \in WithRetryAfter
  BY <1>3 DEF DetailsAccepted
<1>5. g.observations \in Seq(S) /\ DOMAIN g.observations = 1..Cardinality(w.observations)
  BY <1>1 DEF RebuiltObservations, g
<1>6. CASE kind = "security"
  <2>1. g.etags \subseteq DOMAIN g.observations
    BY <1>1, <1>3, <1>5, <1>6
  <2>2. \A i \in DOMAIN g.observations : i \in g.etags => i \in DOMAIN g.bodies
    BY <1>3, <1>6 DEF DetailsAccepted
  <2>3. DOMAIN g.observations = 1..Len(g.observations)
    BY <1>5
  <2> QED BY <1>1, <1>2, <1>4, <1>6, <2>1, <2>2, <2>3 DEF g
<1>7. CASE kind # "security"
  <2>1. g.etags \subseteq DOMAIN g.bodies
    BY <1>3, <1>7 DEF DetailsAccepted
  <2>2. g.etags \subseteq {1}
    BY <1>1, <1>7
  <2>3. g.observations = <<>>
    <3>1. Cardinality(w.observations) = 0
      BY <1>3, <1>7, FS_EmptySet
    <3>2. DOMAIN g.observations = {}
      BY <1>5, <3>1
    <3>3. ASSUME NEW q \in Seq(S), DOMAIN q = {} PROVE q = <<>>
      <4>1. Len(q) = 0
        BY <3>3
      <4> QED BY <4>1
    <3> QED BY <1>5, <3>2, <3>3
  <2> QED BY <1>1, <1>2, <1>4, <1>7, <2>1, <2>2, <2>3 DEF g
<1> QED BY <1>6, <1>7

\* What a row of evidence says of the result behind it.
LEMMA EvidenceTells ==
  ASSUME NEW x
  PROVE  /\ EvidenceRow(x) # NoRow => x.result.outcome \in {"available", "unavailable"}
         /\ x.result.outcome \in {"available", "unavailable"} =>
              /\ EvidenceRow(x) # NoRow
              /\ EvidenceRow(x).outcome = x.result.outcome
              /\ EvidenceRow(x).attemptedAt = x.attemptedAt
              /\ EvidenceRow(x).provenance.error = x.result.error
              /\ EvidenceRow(x).provenance.digests = x.bodies
              /\ EvidenceRow(x).provenance.observations =
                   [i \in DOMAIN x.observations |->
                      <<x.observations[i].source, StatusColumn(x.observations[i].status)>>]
<1> DEFINE seen == [i \in DOMAIN x.observations |->
                      <<x.observations[i].source, StatusColumn(x.observations[i].status)>>]
<1>4. /\ Provenance(x).error = x.result.error /\ Provenance(x).digests = x.bodies
      /\ Provenance(x).observations = seen
  BY DEF Provenance
<1> HIDE DEF seen
<1>5. SUFFICES /\ EvidenceRow(x) # NoRow => x.result.outcome \in {"available", "unavailable"}
               /\ x.result.outcome \in {"available", "unavailable"} =>
                    /\ EvidenceRow(x).outcome \in {"available", "unavailable"}
                    /\ EvidenceRow(x).outcome = x.result.outcome
                    /\ EvidenceRow(x).attemptedAt = x.attemptedAt
                    /\ EvidenceRow(x).provenance = Provenance(x)
  BY <1>4 DEF NoRow, seen
<1>1. CASE x.result.outcome = "available"
  <2>1. EvidenceRow(x) =
          [outcome |-> "available", kind |-> kind, freshness |-> "current",
           attemptedAt |-> x.attemptedAt, value |-> ValueOf(x), snapshot |-> Decisive(x),
           provenance |-> Provenance(x), error |-> NoError]
    BY <1>1 DEF EvidenceRow
  <2> QED BY <1>1, <2>1
<1>2. CASE x.result.outcome = "unavailable"
  <2>1. EvidenceRow(x) =
          [outcome |-> "unavailable", kind |-> kind, freshness |-> "unknown",
           attemptedAt |-> x.attemptedAt, value |-> "none", snapshot |-> Null,
           provenance |-> Provenance(x), error |-> x.result.error]
    BY <1>2 DEF EvidenceRow
  <2> QED BY <1>2, <2>1
<1>3. CASE x.result.outcome \notin {"available", "unavailable"}
  BY <1>3 DEF EvidenceRow
<1> QED BY <1>1, <1>2, <1>3

\* A tag is on the row of the snapshot, and on the row of the observation.
LEMMA TagsOfSnapshots ==
  ASSUME NEW f, NEW g, SnapshotRows(f) = SnapshotRows(g), NEW i \in DOMAIN g.bodies
  PROVE  i \in g.etags => i \in f.etags
<1> DEFINE row(x, j) == [id |-> j, bytes |-> x.bodies[j], digest |-> x.bodies[j],
                         encoding |-> IF x.bodies[j].text THEN "utf-8" ELSE "binary",
                         object |-> ObjectOf(x, j), etag |-> j \in x.etags]
<1>1. /\ SnapshotRows(f) = {row(f, j) : j \in DOMAIN f.bodies}
      /\ SnapshotRows(g) = {row(g, j) : j \in DOMAIN g.bodies}
  BY DEF SnapshotRows
<1>2. /\ \A j : row(f, j).id = j /\ row(f, j).etag = (j \in f.etags)
      /\ \A j : row(g, j).id = j /\ row(g, j).etag = (j \in g.etags)
  OBVIOUS
<1> HIDE DEF row
<1>3. PICK j \in DOMAIN f.bodies : row(f, j) = row(g, i)
  BY <1>1
<1> QED BY <1>2, <1>3

LEMMA TagsOfObservations ==
  ASSUME NEW f, NEW g, ObservationRows(f) = ObservationRows(g), NEW i \in DOMAIN g.observations
  PROVE  i \in g.etags => i \in f.etags
<1>1. /\ ObservationRows(f) = {ObservationRow(f, j) : j \in DOMAIN f.observations}
      /\ ObservationRows(g) = {ObservationRow(g, j) : j \in DOMAIN g.observations}
  BY DEF ObservationRows, ObservationRow
<1>2. /\ \A j : ObservationRow(f, j).sequence = j /\ ObservationRow(f, j).etag = (j \in f.etags)
      /\ \A j : ObservationRow(g, j).sequence = j /\ ObservationRow(g, j).etag = (j \in g.etags)
  BY DEF ObservationRow
<1>3. PICK j \in DOMAIN f.observations : ObservationRow(f, j) = ObservationRow(g, i)
  BY <1>1
<1> QED BY <1>2, <1>3

\* Evidence that was not damaged, or nothing but evidence damaged: what is verified is what
\* was collected.
LEMMA VerifiedIsCollected ==
  ASSUME SearchInv, result.outcome \in Outcomes, NEW f \in Collected,
         DamagedInOneRow(f), IsVerified(rows), rows.evidence # NoRow
  PROVE  Rebuilt(rows) = f
<1> DEFINE g == Rebuilt(rows)
           n == Len(f.observations)
<1>1. CASE /\ rows.attempt = AttemptRow(f) /\ rows.snapshots = SnapshotRows(f)
           /\ rows.observations = ObservationRows(f)
  BY <1>1, RowsReturn
<1>2. CASE /\ rows.evidence = EvidenceRow(f)
           /\ rows.attempt.retryAfter \in BOOLEAN
           /\ \/ rows.snapshots = SnapshotRows(f)
              \/ rows.attempt = AttemptRow(f) /\ rows.observations = ObservationRows(f)
  <2>1. /\ Accepted(g) /\ isDefault \in BOOLEAN
        /\ rows.attempt = AttemptRow(g) /\ rows.snapshots = SnapshotRows(g)
        /\ rows.observations = ObservationRows(g) /\ rows.evidence = EvidenceRow(g)
    <3>1. Accepted(g) /\ RowsOf(g) = rows /\ isDefault \in BOOLEAN
      BY DEF IsVerified, SearchInv
    <3>2. /\ RowsOf(g).attempt = AttemptRow(g) /\ RowsOf(g).snapshots = SnapshotRows(g)
          /\ RowsOf(g).observations = ObservationRows(g) /\ RowsOf(g).evidence = EvidenceRow(g)
      BY DEF RowsOf
    <3> HIDE DEF g
    <3> QED BY <3>1, <3>2
  <2>2. /\ f = [result |-> f.result, observations |-> f.observations, bodies |-> f.bodies,
                etags |-> f.etags, retryAfter |-> f.retryAfter, attemptedAt |-> f.attemptedAt]
        /\ f.observations \in Seq(Observation)
        /\ f.etags \subseteq DOMAIN f.bodies
        /\ DOMAIN f.bodies = IF kind = "security"
                             THEN {i \in 1..n : f.observations[i].status = 200}
                             ELSE IF f.result.outcome = "available" THEN {1} ELSE {}
        /\ f.retryAfter \in BOOLEAN /\ (f.retryAfter => f.result.error \in WithRetryAfter)
    BY CollectedShape
  <2>3. n \in Nat /\ DOMAIN f.observations = 1..n
    BY <2>2
  <2>4. EvidenceRow(f) = EvidenceRow(g) /\ EvidenceRow(f) # NoRow
    BY <1>2, <2>1
  <2> HIDE DEF g
  <2>5. /\ f.result.outcome \in {"available", "unavailable"}
        /\ g.result.outcome = f.result.outcome /\ g.result.error = f.result.error
        /\ g.bodies = f.bodies /\ g.attemptedAt = f.attemptedAt
        /\ DOMAIN g.observations = 1..n
        /\ \A i \in 1..n : /\ g.observations[i].source = f.observations[i].source
                           /\ StatusColumn(g.observations[i].status)
                                = StatusColumn(f.observations[i].status)
    <3> DEFINE seen(x) == [i \in DOMAIN x.observations |->
                             <<x.observations[i].source, StatusColumn(x.observations[i].status)>>]
    <3>1. f.result.outcome \in {"available", "unavailable"}
          /\ g.result.outcome \in {"available", "unavailable"}
      BY <2>4, EvidenceTells
    <3>2. /\ EvidenceRow(f).outcome = f.result.outcome
          /\ EvidenceRow(f).attemptedAt = f.attemptedAt
          /\ EvidenceRow(f).provenance.error = f.result.error
          /\ EvidenceRow(f).provenance.digests = f.bodies
          /\ EvidenceRow(f).provenance.observations = seen(f)
      BY <3>1, EvidenceTells
    <3>3. /\ EvidenceRow(g).outcome = g.result.outcome
          /\ EvidenceRow(g).attemptedAt = g.attemptedAt
          /\ EvidenceRow(g).provenance.error = g.result.error
          /\ EvidenceRow(g).provenance.digests = g.bodies
          /\ EvidenceRow(g).provenance.observations = seen(g)
      BY <3>1, EvidenceTells
    <3>4. seen(g) = seen(f)
      BY <2>4, <3>2, <3>3
    <3>5. DOMAIN seen(f) = 1..n /\ DOMAIN seen(g) = DOMAIN g.observations
      BY <2>3
    <3>6. ASSUME NEW i \in 1..n
          PROVE  /\ g.observations[i].source = f.observations[i].source
                 /\ StatusColumn(g.observations[i].status) = StatusColumn(f.observations[i].status)
      <4>1. seen(f)[i] = <<f.observations[i].source, StatusColumn(f.observations[i].status)>>
            /\ seen(g)[i] = <<g.observations[i].source, StatusColumn(g.observations[i].status)>>
        BY <2>3, <3>4, <3>5
      <4> QED BY <3>4, <4>1
    <3> HIDE DEF seen
    <3> QED BY <2>4, <3>1, <3>2, <3>3, <3>4, <3>5, <3>6
  <2> DEFINE S == {g.observations[i] : i \in 1..n}
  <2>6. /\ g.observations = [i \in 1..n |-> g.observations[i]]
        /\ \A i \in 1..n : g.observations[i] =
             [source |-> g.observations[i].source, status |-> g.observations[i].status,
              error |-> g.observations[i].error]
    <3>1. g.observations = RebuiltObservations(rows)
      BY DEF g, Rebuilt
    <3> QED BY <2>5, <3>1 DEF RebuiltObservations
  <2>7. g.observations \in Seq(S) /\ Len(g.observations) = n
    <3>1. ASSUME NEW q, q = [i \in 1..n |-> q[i]], \A i \in 1..n : q[i] \in S
          PROVE  q \in Seq(S) /\ Len(q) = n
      BY <2>3, <3>1
    <3>2. \A i \in 1..n : g.observations[i] \in S
      OBVIOUS
    <3> HIDE DEF S
    <3> QED BY <2>6, <3>1, <3>2
  <2> HIDE DEF S
  <2>8. f.observations = [i \in 1..n |-> f.observations[i]]
    BY <2>2
  <2>9. /\ Accepted(f)
        /\ \A i \in 1..n : f.observations[i] \in Observation
    BY <2>2, CollectedIsAccepted
  <2>10. g.observations = f.observations
    <3>1. CASE kind # "security"
      <4>1. f.observations = <<>>
        BY <3>1, CollectedShape
      <4> QED BY <2>6, <2>8, <4>1
    <3>2. CASE kind = "security"
      <4>1. ASSUME NEW i \in 1..n
            PROVE  /\ f.observations[i].error = NoError /\ f.observations[i].status \in {200, 404}
                   /\ g.observations[i].error = NoError /\ g.observations[i].status \in {200, 404}
        <5>1. i \in 1..(n - 1) \/ i = n
          BY <2>3
        <5>2. /\ i \in 1..(n - 1) => f.observations[i].error = NoError
                                     /\ f.observations[i].status = IF i = 1 THEN 200 ELSE 404
              /\ f.observations[n].error = NoError /\ f.observations[n].status \in {200, 404}
          BY <2>1, <2>2, <2>5, <2>9, <3>2, AcceptedObservations
        <5>3. /\ i \in 1..(n - 1) => g.observations[i].error = NoError
                                     /\ g.observations[i].status = IF i = 1 THEN 200 ELSE 404
              /\ g.observations[n].error = NoError /\ g.observations[n].status \in {200, 404}
          <6> DEFINE k == Len(g.observations)
          <6>1. /\ \A j \in 1..(k - 1) : g.observations[j].error = NoError
                                       /\ g.observations[j].status = IF j = 1 THEN 200 ELSE 404
                /\ g.observations[k].error = NoError /\ g.observations[k].status \in {200, 404}
            <7>1. \A j \in 1..(k - 1) : g.observations[j].error = NoError
                                       /\ g.observations[j].status = IF j = 1 THEN 200 ELSE 404
              BY <2>1, <2>7, <3>2, AcceptedObservations
            <7>2. g.result.outcome \in {"available", "unavailable"} =>
                    g.observations[k].error = NoError /\ g.observations[k].status \in {200, 404}
              BY <2>1, <2>7, <3>2, AcceptedObservations
            <7> HIDE DEF k
            <7> QED BY <2>5, <7>1, <7>2
          <6>2. k = n
            BY <2>7
          <6> HIDE DEF k
          <6> QED BY <6>1, <6>2
        <5> QED BY <5>1, <5>2, <5>3
      <4>2. \A i \in 1..n : g.observations[i] = f.observations[i]
        <5> TAKE i \in 1..n
        <5>1. g.observations[i].status = f.observations[i].status
          BY <2>5, <4>1 DEF StatusColumn
        <5>2. f.observations[i] =
               [source |-> f.observations[i].source, status |-> f.observations[i].status,
                error |-> f.observations[i].error]
          BY <2>9 DEF Observation
        <5>3. g.observations[i] =
               [source |-> g.observations[i].source, status |-> g.observations[i].status,
                error |-> g.observations[i].error]
          BY <2>6
        <5>4. g.observations[i].source = f.observations[i].source
              /\ g.observations[i].error = f.observations[i].error
          BY <2>5, <4>1
        <5> HIDE DEF n
        <5> QED BY <5>1, <5>2, <5>3, <5>4
      <4> QED BY <2>6, <2>8, <4>2
    <3> QED BY <3>1, <3>2
  <2>11. g.result = f.result
    <3> DEFINE last == f.observations[n]
               Shape(r) == \/ r = Unavailable
                           \/ r = NoCommits
                           \/ kind # "security" /\ r = Fact
                           \/ kind = "security" /\ last.status = 200 /\ r = Present(last.source)
                           \/ kind = "security" /\ last.status = 404 /\ r = Absent
    <3>1. Shape(f.result)
      BY <2>1, <2>2, <2>5, <2>9, AcceptedShape
    <3>2. Shape(g.result)
      BY <2>1, <2>5, <2>7, <2>10, AcceptedShape
    <3> HIDE DEF last
    <3> QED BY <2>5, <3>1, <3>2
            DEF Unavailable, NoCommits, Fact, Present, Absent, Result, NoError
  <2>12. /\ g = [result |-> g.result, observations |-> g.observations, bodies |-> g.bodies,
                 etags |-> g.etags, retryAfter |-> g.retryAfter, attemptedAt |-> g.attemptedAt]
         /\ g.etags \subseteq DOMAIN g.bodies
         /\ g.retryAfter \in BOOLEAN /\ (g.retryAfter => g.result.error \in WithRetryAfter)
    BY <1>2, <2>7, VerifiedShape DEF g
  <2>13. g.etags = f.etags
    <3>1. CASE rows.snapshots = SnapshotRows(f)
      <4>1. SnapshotRows(f) = SnapshotRows(g)
        BY <2>1, <3>1
      <4>2. ASSUME NEW i PROVE i \in g.etags => i \in f.etags
        BY <2>12, <4>1, TagsOfSnapshots
      <4>3. ASSUME NEW i PROVE i \in f.etags => i \in g.etags
        BY <2>2, <4>1, TagsOfSnapshots
      <4> QED BY <4>2, <4>3
    <3>2. CASE rows.attempt = AttemptRow(f) /\ rows.observations = ObservationRows(f)
      <4>1. AttemptRow(f) = AttemptRow(g) /\ ObservationRows(f) = ObservationRows(g)
        BY <2>1, <3>2
      <4>2. CASE kind = "security"
        <5>1. DOMAIN f.bodies \subseteq DOMAIN f.observations
          BY <2>2, <2>3, <4>2
        <5>2. f.etags \subseteq DOMAIN f.observations /\ g.etags \subseteq DOMAIN g.observations
          BY <2>2, <2>5, <2>10, <2>12, <5>1
        <5>3. ASSUME NEW i PROVE i \in g.etags => i \in f.etags
          BY <4>1, <5>2, TagsOfObservations
        <5>4. ASSUME NEW i PROVE i \in f.etags => i \in g.etags
          BY <4>1, <5>2, TagsOfObservations
        <5> QED BY <5>3, <5>4
      <4>3. CASE kind # "security"
        <5>1. AttemptRow(f).etag = (f.result.outcome = "available" /\ 1 \in f.etags)
              /\ AttemptRow(g).etag = (g.result.outcome = "available" /\ 1 \in g.etags)
          BY <4>3 DEF AttemptRow, Terminal
        <5>2. f.result.outcome = "available" => (1 \in f.etags <=> 1 \in g.etags)
          BY <2>5, <4>1, <5>1
        <5>3. DOMAIN f.bodies = IF f.result.outcome = "available" THEN {1} ELSE {}
          BY <2>2, <4>3
        <5>4. f.etags \subseteq DOMAIN f.bodies /\ g.etags \subseteq DOMAIN f.bodies
          BY <2>2, <2>5, <2>12
        <5>5. ASSUME NEW i PROVE i \in f.etags <=> i \in g.etags
          BY <5>2, <5>3, <5>4
        <5> QED BY <5>5
      <4> QED BY <4>2, <4>3
    <3> QED BY <1>2, <3>1, <3>2
  <2>14. f.retryAfter = FALSE /\ g.retryAfter = FALSE
    <3>1. f.result.error \notin WithRetryAfter
      <4>1. \/ f.result = Unavailable \/ f.result = NoCommits \/ f.result = Fact
            \/ f.result = Present(f.observations[n].source) \/ f.result = Absent
        BY <2>1, <2>2, <2>5, <2>9, AcceptedShape
      <4> QED BY <4>1 DEF Unavailable, NoCommits, Fact, Present, Absent, Result, NoError,
                          WithRetryAfter
    <3> QED BY <2>2, <2>11, <2>12, <3>1
  <2>15. g = f
    BY <2>2, <2>5, <2>10, <2>11, <2>12, <2>13, <2>14
  <2> QED BY <2>15 DEF g
<1> QED BY <1>1, <1>2 DEF DamagedInOneRow

-----------------------------------------------------------------------------
(* The invariant of the rows. *)

\* What the last read answered for.
ReadIsTrue ==
  /\ ~damaged => answer = "verified" /\ Rebuilt(rows) = collected
  /\ answer = "verified" =>
       /\ rows.evidence = EvidenceRow(collected)
       /\ EvidenceRow(Rebuilt(rows)) = EvidenceRow(collected)
       /\ rows.evidence # NoRow => Rebuilt(rows) = collected

KeptInv ==
  /\ result.outcome \in Outcomes /\ collected \in Collected
  /\ DamagedInOneRow(collected)
  /\ ~damaged => rows = RowsOf(collected)

RowsInv ==
  /\ SearchInv
  /\ stage \in {"collecting", "stored", "read"}
  /\ damaged \in BOOLEAN
  /\ stage = "collecting" => ~damaged
  /\ stage # "collecting" => KeptInv
  /\ stage = "read" => ReadIsTrue

\* The operators on results and rows look at no variables but these three.
LEMMA FrozenRows ==
  ASSUME UNCHANGED <<kind, observations, result>>
  PROVE  /\ Collected' = Collected
         /\ \A x : /\ AttemptRow(x)' = AttemptRow(x) /\ SnapshotRows(x)' = SnapshotRows(x)
                   /\ ObservationRows(x)' = ObservationRows(x)
                   /\ EvidenceRow(x)' = EvidenceRow(x)
                   /\ RowsOf(x)' = RowsOf(x)
         /\ \A w : Rebuilt(w)' = Rebuilt(w)
<1>1. Answered' = Answered /\ Succeeded' = Succeeded
  <2>1. Answered' = Answered
    BY DEF Answered
  <2> QED BY <2>1 DEF Succeeded
<1>2. Collected' = Collected
  BY <1>1 DEF Collected
<1>3. ASSUME NEW x PROVE Terminal(x)' = Terminal(x)
  BY DEF Terminal
<1>4. ASSUME NEW x PROVE AttemptRow(x)' = AttemptRow(x)
  BY <1>3 DEF AttemptRow
<1>5. ASSUME NEW x PROVE SnapshotRows(x)' = SnapshotRows(x) /\ ObservationRows(x)' = ObservationRows(x)
  BY DEF SnapshotRows, ObservationRows
<1>6. ASSUME NEW x PROVE EvidenceRow(x)' = EvidenceRow(x)
  <2>1. Provenance(x)' = Provenance(x)
    BY <1>3 DEF Provenance
  <2>2. Decisive(x)' = Decisive(x)
    BY <1>3 DEF Decisive
  <2>3. ValueOf(x)' = ValueOf(x)
    BY DEF ValueOf
  <2> QED BY <2>1, <2>2, <2>3 DEF EvidenceRow
<1>7. ASSUME NEW x PROVE RowsOf(x)' = RowsOf(x)
  BY <1>4, <1>5, <1>6 DEF RowsOf
<1>8. ASSUME NEW w PROVE Rebuilt(w)' = Rebuilt(w)
  <2>1. RebuiltResult(w)' = RebuiltResult(w)
    BY DEF RebuiltResult
  <2> QED BY <2>1 DEF Rebuilt
<1> QED BY <1>2, <1>4, <1>5, <1>6, <1>7, <1>8

\* Steps that leave the rows alone.
LEMMA RowsRest ==
  ASSUME RowsInv, UNCHANGED <<kind, observations, result>>, UNCHANGED rowVars, SearchInv'
  PROVE  RowsInv'
<1>1. UNCHANGED <<stage, collected, rows, damaged, answer>>
  BY DEF rowVars
<1>2. KeptInv => KeptInv'
  BY <1>1, FrozenRows DEF KeptInv, DamagedInOneRow
<1>3. ReadIsTrue => ReadIsTrue'
  BY <1>1, FrozenRows DEF ReadIsTrue
<1> QED BY <1>1, <1>2, <1>3 DEF RowsInv

\* A collection goes on only until it is stored.
LEMMA GatherKeepsRowsInv ==
  ASSUME RowsInv, Gather
  PROVE  RowsInv'
<1>1. SearchInv' /\ stage = "collecting" /\ UNCHANGED <<stage, collected, rows, damaged, answer>>
  BY NextKeepsSearchInv DEF Gather, RowsInv, rowVars
<1> QED BY <1>1 DEF RowsInv

LEMMA StoreKeepsRowsInv ==
  ASSUME RowsInv, result.outcome \in Outcomes, NEW f \in Collected, Store(f)
  PROVE  RowsInv'
<1>1. /\ SearchInv /\ stage = "collecting" /\ ~damaged /\ damaged' = damaged
      /\ UNCHANGED <<kind, isDefault, observations, result>> /\ steady' = {} /\ remote' = {}
  BY DEF RowsInv, Store
<1>2. SatisfiesChecks(RowsOf(f))
  BY <1>1, RowsFitSchema
<1>3. stage' = "stored" /\ collected' = f /\ rows' = RowsOf(f)
  BY <1>2 DEF Store
<1>4. SearchInv'
  BY <1>1, SearchRests
<1>5. /\ RowsOf(f).attempt = AttemptRow(f) /\ RowsOf(f).snapshots = SnapshotRows(f)
      /\ RowsOf(f).observations = ObservationRows(f)
  BY DEF RowsOf
<1>6. KeptInv'
  <2>1. collected' \in Collected' /\ rows' = RowsOf(collected)'
    BY <1>1, <1>3, FrozenRows
  <2>2. /\ rows'.attempt = AttemptRow(f)' /\ rows'.snapshots = SnapshotRows(f)'
        /\ rows'.observations = ObservationRows(f)'
    BY <1>1, <1>3, <1>5, FrozenRows
  <2> QED BY <1>1, <1>3, <2>1, <2>2 DEF KeptInv, DamagedInOneRow
<1> QED BY <1>1, <1>3, <1>4, <1>6 DEF RowsInv

LEMMA ReadKeepsRowsInv ==
  ASSUME RowsInv, Read
  PROVE  RowsInv'
<1> DEFINE f == collected
<1>1. /\ SearchInv /\ KeptInv /\ damaged \in BOOLEAN
      /\ UNCHANGED <<kind, isDefault, remote, steady, observations, result,
                     collected, rows, damaged>>
      /\ stage' = "read"
      /\ answer' = IF IsVerified(rows) THEN "verified" ELSE "verification_failed"
  BY DEF RowsInv, Read
<1>2. result.outcome \in Outcomes /\ f \in Collected /\ DamagedInOneRow(f)
  BY <1>1 DEF KeptInv
<1>3. SearchInv' /\ KeptInv'
  <2>1. SearchInv'
    BY <1>1, SearchRests DEF SearchInv
  <2>2. KeptInv'
    BY <1>1, FrozenRows DEF KeptInv, DamagedInOneRow
  <2> QED BY <2>1, <2>2
<1>4. ASSUME ~damaged PROVE IsVerified(rows) /\ Rebuilt(rows) = f
  <2>1. rows = RowsOf(f)
    BY <1>1, <1>4 DEF KeptInv
  <2>2. /\ rows.attempt = AttemptRow(f) /\ rows.snapshots = SnapshotRows(f)
        /\ rows.observations = ObservationRows(f)
    BY <2>1 DEF RowsOf
  <2>3. Rebuilt(rows) = f
    BY <1>1, <1>2, <2>2, RowsReturn
  <2>4. Accepted(f) /\ IsCoherent(rows)
    BY <1>1, <1>2, <2>1, CollectedIsAccepted, RowsFitSchema
  <2> QED BY <2>1, <2>3, <2>4 DEF IsVerified
<1>5. ASSUME IsVerified(rows)
      PROVE  /\ rows.evidence = EvidenceRow(f)
             /\ EvidenceRow(Rebuilt(rows)) = EvidenceRow(f)
             /\ rows.evidence # NoRow => Rebuilt(rows) = f
  <2>1. EvidenceRow(Rebuilt(rows)) = rows.evidence
    <3>1. RowsOf(Rebuilt(rows)) = rows
      BY <1>5 DEF IsVerified
    <3>2. RowsOf(Rebuilt(rows)).evidence = EvidenceRow(Rebuilt(rows))
      BY DEF RowsOf
    <3> QED BY <3>1, <3>2
  <2>2. rows.evidence # NoRow => Rebuilt(rows) = f
    BY <1>1, <1>2, <1>5, VerifiedIsCollected
  <2>3. rows.evidence = EvidenceRow(f)
    <3>1. CASE rows.evidence = EvidenceRow(f)
      BY <3>1
    <3>2. CASE /\ rows.attempt = AttemptRow(f) /\ rows.snapshots = SnapshotRows(f)
               /\ rows.observations = ObservationRows(f)
      <4>1. Rebuilt(rows) = f
        BY <1>1, <1>2, <3>2, RowsReturn
      <4> QED BY <2>1, <4>1
    <3> QED BY <1>2, <3>1, <3>2 DEF DamagedInOneRow
  <2> QED BY <2>1, <2>2, <2>3
<1>6. ReadIsTrue'
  <2>1. Rebuilt(rows)' = Rebuilt(rows) /\ EvidenceRow(collected)' = EvidenceRow(collected)
        /\ EvidenceRow(Rebuilt(rows))' = EvidenceRow(Rebuilt(rows))
    BY <1>1, FrozenRows
  <2>2. NoRow' = NoRow
    BY DEF NoRow
  <2> QED BY <1>1, <1>4, <1>5, <2>1, <2>2 DEF ReadIsTrue
<1> QED BY <1>1, <1>3, <1>6 DEF RowsInv

\* A column that is changed to a Boolean, or not at all, is a Boolean.
LEMMA ChangedKeepsBoolean ==
  ASSUME NEW row, "retryAfter" \in DOMAIN row, row.retryAfter \in BOOLEAN,
         NEW values, values.retryAfter = BOOLEAN, NEW r \in Changed(row, values)
  PROVE  DOMAIN r = DOMAIN row /\ r.retryAfter \in BOOLEAN
<1>1. PICK c \in DOMAIN values : \E v \in values[c] : r = [row EXCEPT ![c] = v]
  BY DEF Changed
<1>2. PICK v \in values[c] : r = [row EXCEPT ![c] = v]
  BY <1>1
<1>3. CASE c = "retryAfter"
  BY <1>2, <1>3
<1>4. CASE c # "retryAfter"
  BY <1>2, <1>4
<1> QED BY <1>3, <1>4

LEMMA DamageKeepsRowsInv ==
  ASSUME RowsInv, Damage
  PROVE  RowsInv'
<1> DEFINE f == collected
<1>1. /\ SearchInv /\ KeptInv /\ ~damaged
      /\ UNCHANGED <<kind, isDefault, remote, steady, observations, result, collected>>
      /\ stage' = "stored" /\ damaged' = TRUE
  BY DEF RowsInv, Damage
<1>2. /\ result.outcome \in Outcomes /\ f \in Collected
      /\ rows = RowsOf(f)
  BY <1>1 DEF KeptInv
<1>3. /\ rows = [attempt |-> AttemptRow(f), snapshots |-> SnapshotRows(f),
                 observations |-> ObservationRows(f), evidence |-> EvidenceRow(f)]
      /\ AttemptRow(f).retryAfter \in BOOLEAN
      /\ "retryAfter" \in DOMAIN AttemptRow(f)
  <2>1. f.retryAfter \in BOOLEAN
    BY <1>1, <1>2, CollectedShape
  <2> QED BY <1>2, <2>1 DEF RowsOf, AttemptRow
<1>4. SearchInv'
  BY <1>1, SearchRests DEF SearchInv
<1> DEFINE Kept(w) ==
             \/ /\ w.attempt = AttemptRow(f) /\ w.snapshots = SnapshotRows(f)
                /\ w.observations = ObservationRows(f)
             \/ /\ w.evidence = EvidenceRow(f)
                /\ w.attempt.retryAfter \in BOOLEAN
                /\ \/ w.snapshots = SnapshotRows(f)
                   \/ w.attempt = AttemptRow(f) /\ w.observations = ObservationRows(f)
           columns == [kind |-> Kinds, attemptedAt |-> AttemptTimes, outcome |-> Outcomes,
                       status |-> StatusColumns, etag |-> BOOLEAN, error |-> ErrorColumns,
                       retryAfter |-> BOOLEAN]
<1> DEFINE later == rows'
<1>5. Kept(later)
  <2>1. ASSUME NEW row \in ChangedTwice(rows.attempt, columns),
               later = [rows EXCEPT !.attempt = row]
        PROVE  Kept(later)
    <3>1. PICK r \in Changed(rows.attempt, columns) : row \in Changed(r, columns)
      BY DEF ChangedTwice
    <3>2. rows.attempt = AttemptRow(f) /\ columns.retryAfter = BOOLEAN
      BY <1>3
    <3> HIDE DEF columns
    <3>3. DOMAIN r = DOMAIN AttemptRow(f) /\ r.retryAfter \in BOOLEAN
      BY <1>3, <3>2, ChangedKeepsBoolean
    <3>4. row.retryAfter \in BOOLEAN
      BY <1>3, <3>1, <3>2, <3>3, ChangedKeepsBoolean
    <3> HIDE DEF later, f
    <3> QED BY <1>3, <2>1, <3>4
  <2>2. ASSUME NEW set, later = [rows EXCEPT !.snapshots = set] PROVE Kept(later)
    <3> HIDE DEF later, f
    <3> QED BY <1>3, <2>2
  <2>3. ASSUME NEW set, later = [rows EXCEPT !.observations = set] PROVE Kept(later)
    <3> HIDE DEF later, f
    <3> QED BY <1>3, <2>3
  <2>4. ASSUME NEW row, later = [rows EXCEPT !.evidence = row] PROVE Kept(later)
    <3> HIDE DEF later, f
    <3> QED BY <1>3, <2>4
  <2>5. \/ \E row \in ChangedTwice(rows.attempt, columns) : later = [rows EXCEPT !.attempt = row]
        \/ \E set : later = [rows EXCEPT !.snapshots = set]
        \/ \E set : later = [rows EXCEPT !.observations = set]
        \/ \E row : later = [rows EXCEPT !.evidence = row]
    BY DEF Damage
  <2> QED BY <2>1, <2>2, <2>3, <2>4, <2>5
<1>6. DamagedInOneRow(collected)'
  <2>1. collected' = f /\ AttemptRow(f)' = AttemptRow(f) /\ SnapshotRows(f)' = SnapshotRows(f)
        /\ ObservationRows(f)' = ObservationRows(f) /\ EvidenceRow(f)' = EvidenceRow(f)
    BY <1>1, FrozenRows
  <2> QED BY <1>5, <2>1 DEF DamagedInOneRow
<1>7. KeptInv'
  BY <1>1, <1>2, <1>6, FrozenRows DEF KeptInv
<1> QED BY <1>1, <1>4, <1>7 DEF RowsInv

-----------------------------------------------------------------------------
(* The theorems. *)

LEMMA RowsStart == RowsInit => RowsInv
BY SearchStarts DEF RowsInit, RowsInv

LEMMA RowsStep ==
  ASSUME RowsInv, [RowsNext]_allVars
  PROVE  RowsInv'
<1>1. CASE Gather
  BY <1>1, GatherKeepsRowsInv
<1>2. ASSUME result.outcome \in Outcomes, NEW f \in Collected, Store(f) PROVE RowsInv'
  BY <1>2, StoreKeepsRowsInv
<1>3. CASE Read
  BY <1>3, ReadKeepsRowsInv
<1>4. CASE Damage
  BY <1>4, DamageKeepsRowsInv
<1>5. CASE UNCHANGED allVars
  <2>1. UNCHANGED <<kind, isDefault, remote, steady, observations, result>> /\ UNCHANGED rowVars
    BY <1>5 DEF allVars
  <2>2. SearchInv'
    BY <2>1, SearchRests DEF RowsInv, SearchInv
  <2> QED BY <2>1, <2>2, RowsRest
<1> QED BY <1>1, <1>2, <1>3, <1>4, <1>5 DEF RowsNext

LEMMA RowsInvHolds == RowsSpec => []RowsInv
<1>1. RowsInv /\ [RowsNext]_allVars => RowsInv'
  BY RowsStep
<1> QED BY RowsStart, <1>1, PTL DEF RowsSpec

\* Every result that collect_* of github.py returns passes the checks of its class, so that it
\* can be stored and rebuilt later.  The replies on which it raises return none.
THEOREM ResultsAreAlwaysAccepted == RowsSpec => []CollectorResultIsAccepted
<1>1. RowsInv => CollectorResultIsAccepted
  BY DEF RowsInv, SearchInv, Found, CollectorResultIsAccepted
<1> QED BY RowsInvHolds, <1>1, PTL

\* A policy that lasted through the search of collect_security_policy is found, at its own
\* place or at one of higher precedence, however often the remote changes meanwhile.
THEOREM SteadyPoliciesAreFound == RowsSpec => []SteadyPolicyIsNotMissed
<1>1. RowsInv => SteadyPolicyIsNotMissed
  BY DEF RowsInv, SearchInv, Found, SteadyPolicyIsNotMissed, Outcomes
<1> QED BY RowsInvHolds, <1>1, PTL

\* The candidates that _security_policy_candidates leaves to a ".github" repository are
\* enough to ask for no address twice.
THEOREM AddressesAreNeverRepeated == RowsSpec => []NoAddressTwice
<1>1. RowsInv => NoAddressTwice
  BY AddressesDiffer DEF RowsInv
<1> QED BY RowsInvHolds, <1>1, PTL

\* The rows that persistence.py writes for a collection satisfy the CHECKs of the schema, and
\* a read of them gives back the same result with every detail.
THEOREM CollectionsAlwaysReadBack == RowsSpec => []CollectionReadsBack
<1>1. RowsInv => CollectionReadsBack
  BY DEF RowsInv, ReadIsTrue, CollectionReadsBack
<1> QED BY RowsInvHolds, <1>1, PTL

\* Evidence that the verified reads of persistence.py return was collected just so, although
\* a row was lost or altered beside the program.
THEOREM DamageIsAlwaysNoticed == RowsSpec => []DamageIsNoticed
<1>1. RowsInv => DamageIsNoticed
  BY DEF RowsInv, ReadIsTrue, DamageIsNoticed
<1> QED BY RowsInvHolds, <1>1, PTL

\* The collectors of github.py by themselves, without a database behind them: their results
\* are accepted, find what lasted, and come from different addresses.
THEOREM CollectorsAreSound ==
  Spec => [](CollectorResultIsAccepted /\ SteadyPolicyIsNotMissed /\ NoAddressTwice)
<1>1. Init => SearchInv
  BY SearchStarts
<1>2. SearchInv /\ [Next]_vars => SearchInv'
  <2>1. ASSUME SearchInv, UNCHANGED vars PROVE SearchInv'
    <3>1. UNCHANGED <<kind, isDefault, remote, steady, observations, result>>
      BY <2>1 DEF vars
    <3> QED BY <2>1, <3>1, SearchRests DEF SearchInv
  <2> QED BY <2>1, NextKeepsSearchInv
<1>3. SearchInv => CollectorResultIsAccepted /\ SteadyPolicyIsNotMissed /\ NoAddressTwice
  BY AddressesDiffer
     DEF SearchInv, Found, CollectorResultIsAccepted, SteadyPolicyIsNotMissed, Outcomes
<1> QED BY <1>1, <1>2, <1>3, PTL DEF Spec
=============================================================================

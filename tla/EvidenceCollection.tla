------------------------ MODULE EvidenceCollection ------------------------
(***************************************************************************)
(* The four collectors of github.py.  The archived status, the license and *)
(* the latest commit take one request; the effective SECURITY.md is        *)
(* searched for in an ordered list of sources, one request after the       *)
(* other, while the remote may change between two requests.                *)
(***************************************************************************)
EXTENDS Integers, Sequences, FiniteSets

CONSTANTS
  Statuses,    \* HTTP statuses the remote may answer with, besides 200 and 404
  MaxChanges   \* bound on changes of the remote during a search

\* A status line with any other number is a BadStatusLine, which is an HTTPException.
ASSUME StatusesAreHttp == Statuses \subseteq 100..999

VARIABLES
  kind,          \* what is collected
  isDefault,     \* is the requested repository itself its owner's ".github"
  remote,        \* the sources that exist at the remote now
  steady,        \* the sources that have existed since the search began
  changes,       \* how often the remote changed
  observations,  \* what the search saw so far, in order
  result         \* the collector's result, NoResult while it searches

vars == <<kind, isDefault, remote, steady, changes, observations, result>>

-----------------------------------------------------------------------------
(* Replies and their classification, the same in all four collectors. *)

Timeout == -1
Unreachable == -2
BrokenOff == -3     \* the connection closes inside the body: an HTTPException

Kinds == {"archived", "license", "commit", "security"}
AllStatuses == Statuses \union {Timeout, Unreachable, BrokenOff, 200, 404}

\* exhausted: X-RateLimit-Remaining is 0.  body: it decodes and is bound to the requested
\* object, it does not, or it is an empty list of commits.
Reply == [status : AllStatuses, exhausted : BOOLEAN, body : {"bound", "unbound", "empty"}]

RateLimited(reply) == reply.status = 429 \/ (reply.status = 403 /\ reply.exhausted)

Readable(reply) ==
  reply.status = 200 /\ (reply.body = "bound" \/ (kind = "commit" /\ reply.body = "empty"))

NoError == "none"

ErrorOf(reply) ==
  CASE reply.status = Timeout -> "github_timeout"
    [] reply.status = Unreachable -> "github_connectivity_failure"
    [] reply.status = 404 -> NoError
    [] RateLimited(reply) -> "github_rate_limited"
    [] ~RateLimited(reply) /\ reply.status \in {401, 403} -> "github_authorization_failed"
    [] reply.status \in 400..499 \ {401, 403, 404, 429} -> "github_request_rejected"
    [] reply.status \in 500..599 -> "github_server_error"
    [] reply.status = 200 -> IF Readable(reply) THEN NoError ELSE "github_response_invalid"
    [] OTHER -> "github_unexpected_status"

\* What no handler catches, and a status no result or observation can hold.
Raises(reply) == reply.status = BrokenOff \/ reply.status >= 600

\* The categories _ERROR_DEFINITIONS calls "retryable".
RetryableErrors ==
  {"github_timeout", "github_connectivity_failure", "github_rate_limited",
   "github_server_error"}

FailedOutcome(error) ==
  IF error \in RetryableErrors THEN "failed_retryable" ELSE "failed_nonretryable"

-----------------------------------------------------------------------------
(* The search. *)

Paths == <<".github/SECURITY.md", "SECURITY.md", "docs/SECURITY.md">>
PathSet == {Paths[i] : i \in 1..3}

\* A source is a path in the target repository or in the owner's ".github" repository.
TargetSources == {<<"repository_local", p>> : p \in PathSet}
DefaultSources == {<<"inherited_default", p>> : p \in PathSet}
Repository == <<"repository", "">>
Sources == {Repository} \union TargetSources \union DefaultSources

\* The sources of a repository named ".github" are those of the owner's defaults.
ExistingSources(dotgithub) ==
  {Repository} \union TargetSources \union (IF dotgithub THEN {} ELSE DefaultSources)

AllCandidates ==
  [i \in 1..6 |-> <<IF i <= 3 THEN "repository_local" ELSE "inherited_default",
                    Paths[IF i <= 3 THEN i ELSE i - 3]>>]

CandidatesRepeated == AllCandidates

\* A candidate whose address was already listed is left out.
CandidateSpecs ==
  IF isDefault THEN [i \in 1..3 |-> AllCandidates[i]] ELSE AllCandidates

NoResult == [outcome |-> "none"]
Raised(reply) == [outcome |-> "raised", status |-> reply.status]
Result(outcome, present, source, status, error) ==
  [outcome |-> outcome, present |-> present, source |-> source, status |-> status,
   error |-> error]
NoSource == <<"none", "">>

Outcomes == {"available", "unavailable", "failed_retryable", "failed_nonretryable"}
Errors ==
  RetryableErrors \union
  {NoError, "github_authorization_failed", "github_request_rejected",
   "github_response_invalid", "github_unexpected_status"}
Observation == [source : Sources, status : AllStatuses, error : Errors]

TypeOK ==
  /\ kind \in Kinds
  /\ isDefault \in BOOLEAN
  /\ remote \subseteq ExistingSources(isDefault)
  /\ steady \subseteq remote
  /\ changes \in 0..MaxChanges
  /\ observations \in Seq(Observation) /\ Len(observations) <= Cardinality(ExistingSources(isDefault))
  /\ \/ result.outcome \in {"none", "raised"}
     \/ /\ result.outcome \in Outcomes
        /\ result.present \in {"true", "false", "unset"}
        /\ result.source \in Sources \union {NoSource}

Init ==
  /\ kind \in Kinds
  /\ isDefault \in BOOLEAN
  /\ remote \in SUBSET ExistingSources(isDefault)
  /\ steady = remote
  /\ changes = 0
  /\ observations = <<>>
  /\ result = NoResult

NextSource ==
  IF observations = <<>> THEN Repository ELSE CandidateSpecs[Len(observations)]

\* A failed observation ends the search with no Boolean.
Failed(reply) ==
  Result(FailedOutcome(ErrorOf(reply)), "unset", NoSource, reply.status, ErrorOf(reply))

Unavailable == Result("unavailable", "unset", NoSource, 404, "repository_not_publicly_available")
NoCommits == Result("unavailable", "unset", NoSource, 200, "repository_has_no_commits")
Fact == Result("available", "unset", Repository, 200, NoError)
Present(source) == Result("available", "true", source, 200, NoError)
Absent == Result("available", "false", NoSource, 404, NoError)

\* The first reply is about the repository itself and ends every collection but a search.
FirstResult(reply) ==
  IF reply.status = 404 THEN Unavailable
  ELSE IF kind = "security" THEN NoResult
  ELSE IF kind = "commit" /\ reply.body = "empty" THEN NoCommits
  ELSE Fact

SearchResult(reply) ==
  IF reply.status = 200 THEN Present(NextSource)
  ELSE IF Len(observations) = Len(CandidateSpecs) THEN Absent
  ELSE NoResult

ResultSkippingFailures(reply) ==
  IF Raises(reply) THEN Raised(reply)
  ELSE IF observations = <<>>
  THEN IF ErrorOf(reply) # NoError THEN Failed(reply) ELSE FirstResult(reply)
  ELSE SearchResult(reply)

ResultAfter(reply) ==
  IF Raises(reply) THEN Raised(reply)
  ELSE IF ErrorOf(reply) # NoError THEN Failed(reply)
  ELSE IF observations = <<>> THEN FirstResult(reply)
  ELSE SearchResult(reply)

\* One GET.  200 and 404 tell what exists; a body may be malformed; anything else may
\* come at any time.
Probe(reply) ==
  /\ result = NoResult
  /\ reply.status = 200 => NextSource \in remote
  /\ reply.status = 404 => NextSource \notin remote
  /\ observations' =
       IF Raises(reply) THEN observations
       ELSE Append(observations,
              [source |-> NextSource, status |-> reply.status, error |-> ErrorOf(reply)])
  /\ result' = ResultAfter(reply)
  /\ UNCHANGED <<kind, isDefault, remote, steady, changes>>

\* Somebody pushes to the remote, or makes the repository private.
RemoteChange ==
  /\ result = NoResult
  /\ changes < MaxChanges
  /\ changes' = changes + 1
  /\ remote' \in SUBSET ExistingSources(isDefault)
  /\ steady' = steady \intersect remote'
  /\ UNCHANGED <<kind, isDefault, observations, result>>

Done == result # NoResult /\ UNCHANGED vars

Next == (\E reply \in Reply : Probe(reply)) \/ RemoteChange \/ Done

Spec == Init /\ [][Next]_vars

-----------------------------------------------------------------------------
(* The checks a result passes when it is constructed, and again when it is rebuilt *)
(* from its stored observations.                                                   *)

Last == observations[Len(observations)]

\* The statuses the result classes accept with an error category.
StatusesOf(error) ==
  CASE error = "github_rate_limited" -> {403, 429}
    [] error = "github_authorization_failed" -> {401, 403}
    [] error = "github_request_rejected" -> 400..499 \ {401, 403, 404, 429}
    [] error = "github_server_error" -> 500..599
    [] error = "github_timeout" -> {Timeout}
    [] error = "github_connectivity_failure" -> {Unreachable}
    [] error = "github_response_invalid" -> {200}
    [] error = "github_unexpected_status" -> 100..399 \ {200}
    [] OTHER -> {}

FailureAccepted ==
  /\ result.outcome \in {"failed_retryable", "failed_nonretryable"}
  /\ result.outcome = "failed_retryable" <=> result.error \in RetryableErrors
  /\ result.status \in StatusesOf(result.error)
  /\ result.present = "unset"
  /\ result.source = NoSource

FactAccepted ==
  \/ FailureAccepted
  \/ result = Unavailable
  \/ kind = "commit" /\ result = NoCommits
  \/ result = Fact

SearchAccepted ==
  LET candidates == Tail(observations) IN
  /\ observations[1].source = Repository
  /\ Len(candidates) <= Len(CandidateSpecs)
  /\ \A i \in 1..Len(candidates) : candidates[i].source = CandidateSpecs[i]
  /\ \A i \in 1..Len(observations) - 1 :
       /\ observations[i].error = NoError
       /\ observations[i].status = IF i = 1 THEN 200 ELSE 404
  /\ \/ /\ Last.error # NoError
        /\ FailureAccepted
        /\ <<result.status, result.error>> = <<Last.status, Last.error>>
     \/ Last.error = NoError /\ candidates = <<>> /\ Last.status = 404 /\ result = Unavailable
     \/ /\ Last.error = NoError /\ candidates # <<>> /\ Last.status = 200
        /\ result = Present(Last.source)
     \/ /\ Last.error = NoError /\ Last.status = 404
        /\ Len(candidates) = Len(CandidateSpecs)
        /\ result = Absent

ResultAccepted == IF kind = "security" THEN SearchAccepted ELSE FactAccepted

-----------------------------------------------------------------------------
(* Properties. *)

\* Every result that a collector builds, in whatever order the replies come, is one its class
\* accepts, so that it can be stored and rebuilt (the __post_init__ of the result classes,
\* _validate_security_policy_result).  A collector that raises builds none: a status of 600
\* or more, a body that breaks off (EveryStatusEndsInAnOutcome).
CollectorResultIsAccepted == result.outcome \in Outcomes => ResultAccepted

\* A changing remote never hides a policy that was there all the time: absence is
\* reported only if no source lasted through the search, and presence only where no
\* source of higher precedence did.
SteadyPolicyIsNotMissed ==
  kind = "security" /\ result.outcome = "available" =>
    \A i \in DOMAIN CandidateSpecs :
      CandidateSpecs[i] \in steady =>
        /\ result.present = "true"
        /\ \E j \in 1..i : result.source = CandidateSpecs[j]

\* No address is requested twice, although the six candidates of a repository named
\* ".github" name only three.
NoAddressTwice ==
  \A i, j \in DOMAIN observations :
    LET Address(s) == IF isDefault /\ s[1] # "repository" THEN <<".github", s[2]>> ELSE s IN
    Address(observations[i].source) = Address(observations[j].source) => i = j

\* Every status the transport delivers ends in one of the four terminal outcomes.
EveryStatusEndsInAnOutcome == result.outcome = "raised" => result.status = BrokenOff
=============================================================================

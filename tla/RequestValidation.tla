-------------------------- MODULE RequestValidation --------------------------
(***************************************************************************)
(* The passage of one submitted request: validate_assessment_request of    *)
(* request.py, then the row that persistence.py stores and reads again,    *)
(* then the inputs that models.py and github.py build from it.  Each of    *)
(* these repeats rules of the others.  A request may be submitted again.   *)
(*                                                                         *)
(* A field is the class of its value, a locator a record of its parts.     *)
(***************************************************************************)
EXTENDS Integers, SequencesExt, FixedOrder

CONSTANT Requests   \* requests a caller may submit

VARIABLES
  request,   \* the submitted request
  stage,     \* how far it has come
  errors,    \* the fields of validation_errors, in order
  row,       \* its row in assessment_requests, or NoRow
  category   \* of the exception that was raised, or "unhandled"

vars == <<request, stage, errors, row, category>>

-----------------------------------------------------------------------------
(* Values. *)

\* "nul" starts with a NUL character, "unencodable" has no UTF-8 form.
Accepted == {"plain", "nul", "unencodable"}
Text == {"not_text", "empty", "padded"} \union Accepted

\* Of a path component: "dots" is . or .., "dotgit" ends in .git in any case,
\* "foreign" has a character outside the pattern, "missing" is empty.
Name == {"name", "dots", "dotgit", "foreign", "missing"}

Locator ==
  [text : Text, blank : BOOLEAN, mark : BOOLEAN,
   scheme : {"https", "HTTPS", "http"},
   host : {"github.com", "GitHub.com", "other", "malformed"},
   owner : Name, repository : Name, tail : {"none", "slash", "more"}]

\* "ambiguous" lies in the repeated hour of a zone: its offset depends on fold.
Time == {"not_datetime", "naive", "aware", "ambiguous"}

\* "wide" does not fit into 64 bits.
Lifetime == {"not_int", "nonpositive", "positive", "wide"}

Request ==
  [assessment_id : Text, submitted_repository_locator : Locator, intended_use : Text,
   environment : BOOLEAN, criticality : BOOLEAN, expected_lifetime_days : Lifetime,
   risk_tolerance : BOOLEAN, submitted_by_actor_id : Text,
   responsible_reviewer_actor_id : Text, submitted_at : Time,
   request_definition_version : Text \union {"supported"}]

ASSUME RequestsAreTyped == Requests \subseteq Request

FieldOrder ==
  <<"assessment_id", "submitted_repository_locator", "intended_use", "environment",
    "criticality", "expected_lifetime_days", "risk_tolerance", "submitted_by_actor_id",
    "responsible_reviewer_actor_id", "submitted_at", "request_definition_version">>

Fields == ToSet(FieldOrder)
TextFields ==
  {"assessment_id", "intended_use", "submitted_by_actor_id", "responsible_reviewer_actor_id"}
EnumFields == {"environment", "criticality", "risk_tolerance"}

Identity == [owner : Name, repository : Name]
NoIdentity == [owner |-> "missing", repository |-> "missing"]
NoRow == [identity |-> NoIdentity]

-----------------------------------------------------------------------------
(* Validation. *)

HasTextError(text) == text \in {"not_text", "empty", "padded"}

\* An HTTPS URL of github.com, both in any case, with two names and at most a slash more.
IsGitHubPath(l) ==
  /\ l.text = "plain" /\ ~l.blank /\ ~l.mark
  /\ l.scheme \in {"https", "HTTPS"}
  /\ l.host \in {"github.com", "GitHub.com"}
  /\ {l.owner, l.repository} \cap {"foreign", "missing"} = {}
  /\ l.tail \in {"none", "slash"}

NormalizeWithSuffix(l) ==
  IF IsGitHubPath(l) /\ l.owner # "dots" /\ l.repository # "dots"
  THEN [owner |-> l.owner, repository |-> l.repository]
  ELSE NoIdentity

Normalize(l) ==
  IF IsGitHubPath(l) /\ l.owner # "dots" /\ l.repository \notin {"dots", "dotgit"}
  THEN [owner |-> l.owner, repository |-> l.repository]
  ELSE NoIdentity

HasSubmittedAtErrorUnlessNaive(time) == time = "not_datetime"

HasSubmittedAtError(time) == time \in {"not_datetime", "naive"}

HasError(r, f) ==
  CASE f \in TextFields -> HasTextError(r[f])
    [] f = "submitted_repository_locator" ->
         HasTextError(r[f].text) \/ Normalize(r[f]) = NoIdentity
    [] f \in EnumFields -> ~r[f]
    [] f = "expected_lifetime_days" -> r[f] \in {"not_int", "nonpositive"}
    [] f = "submitted_at" -> HasSubmittedAtError(r[f])
    [] f = "request_definition_version" -> r[f] # "supported"

FirstError(r) ==
  LET wrong == InOrder(FieldOrder, {f \in Fields : HasError(r, f)})
  IN IF wrong = <<>> THEN <<>> ELSE <<Head(wrong)>>

\* Every field is looked at, whatever the others are.
ErrorsOf(r) == InOrder(FieldOrder, {f \in Fields : HasError(r, f)})

-----------------------------------------------------------------------------
(* What is made of a valid request. *)

\* AssessmentContext repeats the rules for the fields it takes.
ContextAccepts(r) ==
  /\ \A f \in {"assessment_id", "intended_use"} : r[f] \in Accepted
  /\ \A f \in EnumFields : r[f]
  /\ r.expected_lifetime_days \in {"positive", "wide"}

\* GitHubRepositoryMetadataCollectionInput parses the identity with a pattern of its own.
CollectorAccepts(r) ==
  LET identity == Normalize(r.submitted_repository_locator) IN
  /\ r.assessment_id \in Accepted
  /\ {identity.owner, identity.repository} \cap {"foreign", "missing"} = {}
  /\ identity.owner # "dots"
  /\ identity.repository \notin {"dots", "dotgit"}

\* A value that sqlite3 cannot bind raises OverflowError or UnicodeEncodeError.
Binds(r) ==
  /\ \A f \in TextFields : r[f] # "unencodable"
  /\ r.expected_lifetime_days # "wide"

\* length() of a text that starts with a NUL character is 0.
SatisfiesChecks(r) == \A f \in TextFields : r[f] # "nul"

\* isoformat() writes the offset in force, so the stored instant has a fixed one.
RowOf(r) ==
  [identity |-> Normalize(r.submitted_repository_locator),
   values |-> [r EXCEPT !.submitted_at = IF @ = "ambiguous" THEN "aware" ELSE @]]

IsReadable(w) ==
  /\ w.values.submitted_at = "aware"
  /\ ErrorsOf(w.values) = <<>>
  /\ Normalize(w.values.submitted_repository_locator) = w.identity

\* An instant with a fixed offset never equals one whose offset depends on fold.
ReadsAs(w, r) == IsReadable(w) /\ w.values = r

-----------------------------------------------------------------------------

TypeOK ==
  /\ request \in Request
  /\ stage \in {"submitted", "valid", "invalid", "written", "persisted", "collecting", "raised"}
  /\ errors \in Seq(Fields)
  /\ row = NoRow \/ row = RowOf(request)
  /\ category \in {"none", "write_failed", "verification_failed", "unhandled"}
  /\ errors # <<>> <=> stage = "invalid"
  /\ category # "none" <=> stage = "raised"
  /\ row = NoRow => stage \notin {"written", "persisted", "collecting"}

Init ==
  /\ request \in Requests
  /\ stage = "submitted"
  /\ errors = <<>>
  /\ row = NoRow
  /\ category = "none"

\* The step comes to stage s, or raises an exception of category c.
Step(succeeds, s, c) ==
  /\ stage' = IF succeeds THEN s ELSE "raised"
  /\ category' = IF succeeds THEN category ELSE c

Validate ==
  /\ stage = "submitted"
  /\ errors' = ErrorsOf(request)
  /\ IF errors' # <<>> THEN Step(TRUE, "invalid", "none")
     ELSE Step(ContextAccepts(request), "valid", "unhandled")
  /\ UNCHANGED <<request, row>>

\* The identifier is bound by the lookup already, the rest by the insertion.
StoreFails ==
  /\ stage = "valid"
  /\ ~Binds(request) \/ ~SatisfiesChecks(request)
  /\ Step(FALSE, "raised", IF Binds(request) THEN "write_failed" ELSE "unhandled")
  /\ UNCHANGED <<request, errors, row>>

\* The row is inserted, or found exactly so by a replay.
Store ==
  /\ stage = "valid"
  /\ Binds(request) /\ SatisfiesChecks(request)
  /\ row' = RowOf(request)
  /\ Step(TRUE, "written", "none")
  /\ UNCHANGED <<request, errors>>

Reread ==
  /\ stage = "written"
  /\ Step(ReadsAs(row, request), "persisted", "verification_failed")
  /\ UNCHANGED <<request, errors, row>>

Collect ==
  /\ stage = "persisted"
  /\ Step(CollectorAccepts(request), "collecting", "unhandled")
  /\ UNCHANGED <<request, errors, row>>

\* The caller submits the request again, whatever became of it.
Resubmit ==
  /\ stage \in {"invalid", "raised", "collecting"}
  /\ stage' = "submitted"
  /\ errors' = <<>>
  /\ category' = "none"
  /\ UNCHANGED <<request, row>>

Next == Validate \/ StoreFails \/ Store \/ Reread \/ Collect \/ Resubmit

Spec == Init /\ [][Next]_vars

-----------------------------------------------------------------------------
(* Properties. *)

\* A rejected request comes back with every field that is wrong, each once and in the
\* fixed order, however many are wrong; an accepted one has none that any rule rejects.
ErrorsAreComplete ==
  LET wrong == {f \in Fields :
        \/ f \in TextFields /\ request[f] \notin Accepted
        \/ f \in EnumFields /\ ~request[f]
        \/ f = "expected_lifetime_days" /\ request[f] \notin {"positive", "wide"}
        \/ f = "submitted_at" /\ request[f] \notin {"aware", "ambiguous"}
        \/ f = "request_definition_version" /\ request[f] # "supported"
        \/ f = "submitted_repository_locator" /\
             ~ \E l \in {request[f]} :
                 /\ l.text = "plain" /\ ~l.blank /\ ~l.mark /\ l.scheme # "http"
                 /\ l.host \in {"github.com", "GitHub.com"} /\ l.tail # "more"
                 /\ l.owner \in {"name", "dotgit"} /\ l.repository = "name"}
  IN
  /\ stage = "invalid" =>
       /\ ToSet(errors) = wrong /\ wrong # {}
       /\ \A i, j \in 1..Len(errors) : i < j =>
            \E m, n \in 1..Len(FieldOrder) :
              m < n /\ FieldOrder[m] = errors[i] /\ FieldOrder[n] = errors[j]
  /\ stage \in {"valid", "written", "persisted", "collecting"} => wrong = {}

\* A request that was accepted and stored is accepted by every later boundary as well: by
\* the context of the evaluation, by the collectors' own identity rules and by the rebuild
\* of the row in each later read. What is refused, is refused before the row is there.
StoredIsUsable ==
  row # NoRow =>
    /\ IsReadable(row)
    /\ ContextAccepts(row.values)
    /\ CollectorAccepts(row.values)

\* A valid request is refused for one of three known reasons only.  A value that sqlite3
\* cannot bind and a text that starts with a NUL character leave no row behind.  An instant
\* that is ambiguous leaves its row and is refused then, and again on every replay.
RefusalsAreKnown ==
  stage = "raised" =>
    \/ /\ category = "unhandled" /\ row = NoRow
       /\ \/ request.expected_lifetime_days = "wide"
          \/ \E f \in TextFields : request[f] = "unencodable"
    \/ /\ category = "write_failed" /\ row = NoRow
       /\ \E f \in TextFields : request[f] = "nul"
    \/ /\ category = "verification_failed" /\ row # NoRow
       /\ request.submitted_at = "ambiguous"
=============================================================================

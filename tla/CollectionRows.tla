--------------------------- MODULE CollectionRows ---------------------------
(***************************************************************************)
(* The rows of one collection: how persistence.py takes a result of        *)
(* github.py apart, and how every later read puts it together again.  The  *)
(* same operators serve both ways: a read rebuilds a result from the rows, *)
(* accepts it like a new one, and takes it apart for a comparison.         *)
(*                                                                         *)
(* A digest stands for the bytes that it was made of, an identifier for    *)
(* the place it is derived from.                                           *)
(***************************************************************************)
EXTENDS EvidenceCollection

CONSTANTS
  Bodies,       \* response bodies
  AttemptTimes  \* instants of an attempt

Body == [text : BOOLEAN, bound : BOOLEAN, object : {"one", "other"}, fact : {"true", "false"}]

ASSUME BodiesAreTyped == Bodies \subseteq Body

VARIABLES
  stage,      \* "collecting", "stored", "refused" or "read"
  collected,  \* the result that was stored, with the details Result leaves out
  rows,       \* its rows
  damaged,    \* was a row changed behind the program's back
  answer      \* of the last read

rowVars == <<stage, collected, rows, damaged, answer>>
allVars == <<kind, isDefault, remote, steady, changes, observations, result, rowVars>>

-----------------------------------------------------------------------------
(* Results with their details. *)

\* The collector's result, the observations it carries, bodies and ETags by observation.
Nothing == [result |-> NoResult]

WithRetryAfter == {"github_rate_limited", "github_server_error"}

IsBound(body) == body.text /\ body.bound

\* Observations are part of a search result only.  A failure of another kind keeps no body.
Answered ==
  IF kind = "security" THEN {i \in DOMAIN observations : observations[i].status = 200}
  ELSE IF result.outcome = "available" THEN {1} ELSE {}
Succeeded ==
  IF kind = "security" THEN {i \in Answered : observations[i].error = NoError} ELSE Answered

Collected ==
  {f \in [result : {result},
          observations : {IF kind = "security" THEN observations ELSE <<>>},
          bodies : [Answered -> Bodies], etags : SUBSET Succeeded,
          retryAfter : BOOLEAN, attemptedAt : AttemptTimes] :
     /\ \A i \in Answered : IsBound(f.bodies[i]) <=> i \in Succeeded
     /\ f.retryAfter => result.error \in WithRetryAfter}

\* The class of the result as EvidenceCollection has it, and what it asks of the details.
Of(f) ==
  INSTANCE EvidenceCollection WITH observations <- f.observations, result <- f.result

DetailsAccepted(f) ==
  /\ f.retryAfter => f.result.error \in WithRetryAfter
  /\ IF kind = "security"
     THEN \A i \in DOMAIN f.observations :
            LET o == f.observations[i] IN
            /\ i \in DOMAIN f.bodies => o.status = 200
            /\ o.status = 200 /\ o.error = NoError => i \in DOMAIN f.bodies /\ IsBound(f.bodies[i])
            /\ i \in f.etags => o.status = 200 /\ o.error = NoError
     ELSE /\ DOMAIN f.bodies = IF f.result.outcome = "available" THEN {1} ELSE {}
          /\ \A i \in DOMAIN f.bodies : IsBound(f.bodies[i])
          /\ f.etags \subseteq DOMAIN f.bodies

Accepted(f) ==
  /\ kind = "security" => f.observations # <<>>
  /\ Of(f)!ResultAccepted
  /\ DetailsAccepted(f)

-----------------------------------------------------------------------------
(* From a result to its rows. *)

Null == 0
NoRow == [outcome |-> "none"]

\* Without a reply there is no status, whatever the reason.
StatusColumn(status) == IF status < 0 THEN Null ELSE status

Terminal(f) == IF kind = "security" THEN Len(f.observations) ELSE 1

ObjectOf(f, i) ==
  IF i \in DOMAIN f.bodies /\ IsBound(f.bodies[i]) THEN f.bodies[i].object ELSE "none"

AttemptRow(f) ==
  [kind |-> kind, attemptedAt |-> f.attemptedAt, outcome |-> f.result.outcome,
   status |-> StatusColumn(f.result.status),
   etag |-> f.result.outcome = "available" /\ Terminal(f) \in f.etags,
   error |-> f.result.error, retryAfter |-> f.retryAfter]

SnapshotRows(f) ==
  {[id |-> i, bytes |-> f.bodies[i], digest |-> f.bodies[i],
    encoding |-> IF f.bodies[i].text THEN "utf-8" ELSE "binary",
    object |-> ObjectOf(f, i), etag |-> i \in f.etags] : i \in DOMAIN f.bodies}

ObservationRows(f) ==
  {[sequence |-> i, role |-> f.observations[i].source,
    status |-> StatusColumn(f.observations[i].status), etag |-> i \in f.etags,
    error |-> f.observations[i].error,
    snapshot |-> IF i \in DOMAIN f.bodies THEN i ELSE Null] : i \in DOMAIN f.observations}

\* An absent policy rests on the repository's own snapshot, a present one on its file's.
Decisive(f) == IF f.result.present = "true" THEN Terminal(f) ELSE 1

ProvenanceWithoutDigests(f) ==
  [error |-> f.result.error, object |-> ObjectOf(f, 1), source |-> f.result.source,
   blob |-> ObjectOf(f, Terminal(f)),
   observations |-> [i \in DOMAIN f.observations |->
      <<f.observations[i].source, StatusColumn(f.observations[i].status)>>],
   digests |-> <<>>]

Provenance(f) ==
  [error |-> f.result.error, object |-> ObjectOf(f, 1), source |-> f.result.source,
   blob |-> ObjectOf(f, Terminal(f)),
   observations |-> [i \in DOMAIN f.observations |->
      <<f.observations[i].source, StatusColumn(f.observations[i].status)>>],
   digests |-> f.bodies]

ValueOf(f) == IF kind = "security" THEN f.result.present ELSE f.bodies[1].fact

\* A failed attempt has no evidence; an unavailable fact is evidence of unknown freshness.
EvidenceRow(f) ==
  CASE f.result.outcome = "available" ->
         [outcome |-> "available", kind |-> kind, freshness |-> "current",
          attemptedAt |-> f.attemptedAt, value |-> ValueOf(f), snapshot |-> Decisive(f),
          provenance |-> Provenance(f), error |-> NoError]
    [] f.result.outcome = "unavailable" ->
         [outcome |-> "unavailable", kind |-> kind, freshness |-> "unknown",
          attemptedAt |-> f.attemptedAt, value |-> "none", snapshot |-> Null,
          provenance |-> Provenance(f), error |-> f.result.error]
    [] OTHER -> NoRow

RowsOf(f) ==
  [attempt |-> AttemptRow(f), snapshots |-> SnapshotRows(f),
   observations |-> ObservationRows(f), evidence |-> EvidenceRow(f)]

AttemptChecksWithout404(a) ==
  \/ a.outcome = "available" /\ a.status = 200 /\ a.error = NoError /\ ~a.retryAfter
  \/ a.outcome # "available" /\ ~a.etag /\ a.error # NoError

\* The CHECK constraints and foreign keys of schema version 5.
AttemptChecks(a) ==
  \/ /\ a.outcome = "available"
     /\ a.status \in (IF a.kind = "security" THEN {200, 404} ELSE {200})
     /\ a.error = NoError /\ ~a.retryAfter
  \/ /\ a.outcome = "unavailable"
     /\ a.status \in (IF a.kind = "commit" THEN {200, 404} ELSE {404})
     /\ ~a.etag /\ a.error # NoError /\ ~a.retryAfter
  \/ /\ a.outcome \in {"failed_retryable", "failed_nonretryable"}
     /\ ~a.etag /\ a.error # NoError

ObservationChecks(o) ==
  \/ o.status = 200 /\ (o.snapshot # Null \/ o.error # NoError)
  \/ o.status = 404 /\ o.snapshot = Null /\ ~o.etag
  \/ o.error # NoError /\ o.status # 200 /\ o.snapshot = Null /\ ~o.etag

SatisfiesChecks(w) ==
  LET ids == {s.id : s \in w.snapshots} IN
  /\ AttemptChecks(w.attempt)
  /\ w.attempt.status = Null \/ w.attempt.status \in 100..599
  /\ \A o \in w.observations :
       /\ ObservationChecks(o)
       /\ o.status = Null \/ o.status \in 100..599
       /\ o.snapshot \in ids \union {Null}
  /\ w.evidence # NoRow =>
       /\ w.evidence.outcome = "available" <=> w.evidence.snapshot # Null
       /\ w.evidence.snapshot \in ids \union {Null}

-----------------------------------------------------------------------------
(* From rows to the result. *)

StatusFrom(column, error) ==
  IF column # Null THEN column
  ELSE IF error = "github_timeout" THEN Timeout ELSE Unreachable

ObservationAt(w, i) == CHOOSE o \in w.observations : o.sequence = i
BytesOf(w, id) == (CHOOSE s \in w.snapshots : s.id = id).bytes

RebuiltObservations(w) ==
  [i \in 1..Cardinality(w.observations) |->
     LET o == ObservationAt(w, i) IN
     [source |-> o.role, status |-> StatusFrom(o.status, o.error), error |-> o.error]]

\* Presence, scope and path follow from the last observation.
RebuiltResult(w) ==
  LET seen == RebuiltObservations(w)
      last == seen[Len(seen)]
      isAvailable == w.attempt.outcome = "available"
      present == IF kind # "security" \/ ~isAvailable THEN "unset"
                 ELSE IF last.status = 200 THEN "true" ELSE "false"
      source == IF present = "true" THEN last.source
                ELSE IF isAvailable /\ kind # "security" THEN Repository ELSE NoSource
  IN Result(w.attempt.outcome, present, source,
            StatusFrom(w.attempt.status, w.attempt.error), w.attempt.error)

RebuiltByObservation(w) ==
  [i \in {o.sequence : o \in {p \in w.observations : p.snapshot # Null}} |->
     BytesOf(w, ObservationAt(w, i).snapshot)]

Rebuilt(w) ==
  [result |-> RebuiltResult(w),
   observations |-> RebuiltObservations(w),
   bodies |-> IF kind = "security" THEN RebuiltByObservation(w)
              ELSE [i \in {s.id : s \in w.snapshots} |-> BytesOf(w, i)],
   etags |-> IF kind = "security" THEN {o.sequence : o \in {p \in w.observations : p.etag}}
             ELSE IF w.attempt.etag THEN {1} ELSE {},
   retryAfter |-> w.attempt.retryAfter,
   attemptedAt |-> w.attempt.attemptedAt]

\* Observations are numbered from 1, and each refers to a snapshot that is there.
IsCoherent(w) ==
  /\ {o.sequence : o \in w.observations} = 1..Cardinality(w.observations)
  /\ kind = "security" <=> w.observations # {}
  /\ \A o \in w.observations : o.snapshot \in {s.id : s \in w.snapshots} \union {Null}

\* Every row is compared with the one that would be written for the rebuilt result.
IsVerified(w) ==
  /\ IsCoherent(w)
  /\ Accepted(Rebuilt(w))
  /\ RowsOf(Rebuilt(w)) = w

-----------------------------------------------------------------------------
(* Behaviour. *)

RowsTypeOK ==
  /\ TypeOK
  /\ stage \in {"collecting", "stored", "refused", "read"}
  /\ answer \in {"none", "verified", "verification_failed"}
  /\ stage \in {"stored", "read"} /\ ~damaged =>
       /\ Accepted(collected)
       /\ rows = RowsOf(collected)
       /\ SatisfiesChecks(rows)

RowsInit ==
  /\ Init
  /\ stage = "collecting"
  /\ collected = Nothing
  /\ rows = NoRow
  /\ damaged = FALSE
  /\ answer = "none"

Gather == Next /\ stage = "collecting" /\ UNCHANGED rowVars

\* All rows in one transaction.  The remote is not asked again.
Store(f) ==
  /\ stage = "collecting"
  /\ stage' = IF SatisfiesChecks(RowsOf(f)) THEN "stored" ELSE "refused"
  /\ collected' = f
  /\ rows' = IF SatisfiesChecks(RowsOf(f)) THEN RowsOf(f) ELSE NoRow
  /\ remote' = {} /\ steady' = {}
  /\ UNCHANGED <<kind, isDefault, changes, observations, result, damaged, answer>>

Read ==
  /\ stage \in {"stored", "read"}
  /\ stage' = "read"
  /\ answer' = IF IsVerified(rows) THEN "verified" ELSE "verification_failed"
  /\ UNCHANGED <<kind, isDefault, remote, steady, changes, observations, result,
                 collected, rows, damaged>>

\* A row with another value in one column, or in up to two.
Changed(row, values) == UNION {{[row EXCEPT ![f] = v] : v \in values[f]} : f \in DOMAIN values}
ChangedTwice(row, values) == UNION {Changed(r, values) : r \in Changed(row, values)}

\* Bound on what is written into a row: a status and two categories of each sort.
StatusColumns == {Null, 200, 404, 503}
ErrorColumns ==
  {NoError, "github_timeout", "github_rate_limited", "github_authorization_failed",
   "repository_not_publicly_available", "repository_has_no_commits"}
Ids == 1..Cardinality(Sources)

Replace(set, old, new) == (set \ {old}) \union new

\* One row is lost, or altered beside the program.
Damage ==
  /\ stage = "read"
  /\ ~damaged
  /\ damaged' = TRUE
  /\ stage' = "stored"
  /\ answer' = "none"
  /\ \/ \E row \in ChangedTwice(rows.attempt,
            [kind |-> Kinds, attemptedAt |-> AttemptTimes, outcome |-> Outcomes,
             status |-> StatusColumns, etag |-> BOOLEAN, error |-> ErrorColumns,
             retryAfter |-> BOOLEAN]) :
          rows' = [rows EXCEPT !.attempt = row]
     \/ \E old \in rows.snapshots :
          \/ rows' = [rows EXCEPT !.snapshots = @ \ {old}]
          \/ \E row \in ChangedTwice(old,
                 [id |-> Ids, bytes |-> Bodies, digest |-> Bodies, etag |-> BOOLEAN,
                  encoding |-> {"utf-8", "binary"}, object |-> {"one", "other", "none"}]) :
               rows' = [rows EXCEPT !.snapshots = Replace(@, old, {row})]
     \/ \E old \in rows.observations :
          \/ rows' = [rows EXCEPT !.observations = @ \ {old}]
          \/ \E row \in Changed(old,
                 [sequence |-> Ids, role |-> Sources, status |-> StatusColumns,
                  etag |-> BOOLEAN, error |-> ErrorColumns, snapshot |-> Ids \union {Null}]) :
               rows' = [rows EXCEPT !.observations = Replace(@, old, {row})]
     \/ /\ rows.evidence # NoRow
        /\ \E row \in {NoRow} \union Changed(rows.evidence,
               [outcome |-> {"available", "unavailable"}, kind |-> Kinds,
                freshness |-> {"current", "stale", "unknown"}, attemptedAt |-> AttemptTimes,
                value |-> {"true", "false", "none"}, snapshot |-> Ids \union {Null},
                error |-> ErrorColumns]) :
             rows' = [rows EXCEPT !.evidence = row]
  /\ UNCHANGED <<kind, isDefault, remote, steady, changes, observations, result, collected>>

RowsNext ==
  \/ Gather
  \/ result.outcome \in Outcomes /\ \E f \in Collected : Store(f)
  \/ Read
  \/ Damage

RowsSpec == RowsInit /\ [][RowsNext]_allVars

-----------------------------------------------------------------------------
(* Properties. *)

\* Whatever a collector comes back with fits the schema, and a read of its rows returns
\* exactly that result with all its details and calls it verified
\* (the four *_collection_result_from_rows and *_expected_evidence).
CollectionReadsBack ==
  /\ stage # "refused"
  /\ stage = "read" /\ ~damaged => answer = "verified" /\ Rebuilt(rows) = collected

\* Evidence that a read verifies is the evidence that was collected: a row that is lost or
\* altered is noticed, even an attempt or a snapshot altered in two columns that agree with
\* each other, since every column is also stored in, or derived from, another row.  A failed
\* collection never turns into evidence.
DamageIsNoticed ==
  stage = "read" /\ answer = "verified" =>
    /\ rows.evidence = EvidenceRow(collected)
    /\ EvidenceRow(Rebuilt(rows)) = EvidenceRow(collected)
    /\ rows.evidence # NoRow => Rebuilt(rows) = collected
=============================================================================

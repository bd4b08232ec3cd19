--------------------------- MODULE RequestProofs ---------------------------
(***************************************************************************)
(* Proofs about RequestValidation, for any set of requests.  What is wrong *)
(* with a request is a property of it alone; the invariant says what each  *)
(* stage and the row know of it.                                           *)
(***************************************************************************)
EXTENDS RequestValidation, OrderProofs

-----------------------------------------------------------------------------
(* Facts about the rules. *)

LEMMA FieldsAreListed ==
  /\ FieldOrder \in Seq(Fields)
  /\ Fields = {"assessment_id", "submitted_repository_locator", "intended_use", "environment",
               "criticality", "expected_lifetime_days", "risk_tolerance",
               "submitted_by_actor_id", "responsible_reviewer_actor_id", "submitted_at",
               "request_definition_version"}
<1>1. /\ DOMAIN FieldOrder = 1..11
      /\ Fields = {FieldOrder[i] : i \in 1..11}
  BY DEF FieldOrder, Fields, ToSet
<1>2. 1..11 = {1, 2, 3, 4, 5, 6, 7, 8, 9, 10, 11}
  OBVIOUS
<1>3. Fields = {FieldOrder[i] : i \in {1, 2, 3, 4, 5, 6, 7, 8, 9, 10, 11}}
  BY <1>1, <1>2
<1>4. FieldOrder \in Seq(Fields)
  <2>1. FieldOrder = [i \in 1..11 |-> FieldOrder[i]]
    BY DEF FieldOrder
  <2>2. \A i \in 1..11 : FieldOrder[i] \in Fields
    BY <1>1
  <2> QED BY <2>1, <2>2
<1> QED BY <1>3, <1>4 DEF FieldOrder

\* The errors are the fields with an error, in the fixed order.
LEMMA ErrorsListFields ==
  ASSUME NEW r
  PROVE  /\ ErrorsOf(r) \in Seq(Fields)
         /\ ToSet(ErrorsOf(r)) = {f \in Fields : HasError(r, f)}
         /\ ErrorsOf(r) = <<>> <=> \A f \in Fields : ~HasError(r, f)
         /\ \A i, j \in 1..Len(ErrorsOf(r)) : i < j =>
              \E m, n \in 1..Len(FieldOrder) :
                m < n /\ FieldOrder[m] = ErrorsOf(r)[i] /\ FieldOrder[n] = ErrorsOf(r)[j]
<1> DEFINE S == {f \in Fields : HasError(r, f)}
           s == ErrorsOf(r)
<1>1. s = InOrder(FieldOrder, S)
  BY DEF ErrorsOf
<1>2. s \in Seq(Fields) /\ \E p : Selects(s, p, FieldOrder, S, Len(FieldOrder))
  BY <1>1, FieldsAreListed, InOrderSelects
<1>3. PICK p : Selects(s, p, FieldOrder, S, Len(FieldOrder))
  BY <1>2
<1>4. S \subseteq ToSet(FieldOrder)
  BY DEF Fields
<1>5. ToSet(s) = S
  BY <1>1, <1>4, FieldsAreListed, InOrderContents
<1>6. s = <<>> <=> S = {}
  BY <1>1, <1>4, FieldsAreListed, InOrderContents
<1>7. ASSUME NEW i \in 1..Len(s), NEW j \in 1..Len(s), i < j
      PROVE  \E m, n \in 1..Len(FieldOrder) :
               m < n /\ FieldOrder[m] = s[i] /\ FieldOrder[n] = s[j]
  <2>1. /\ p[i] \in 1..Len(FieldOrder) /\ p[j] \in 1..Len(FieldOrder)
        /\ p[i] < p[j]
        /\ FieldOrder[p[i]] = s[i] /\ FieldOrder[p[j]] = s[j]
    BY <1>3, <1>7 DEF Selects
  <2> QED BY <2>1
<1>8. s = ErrorsOf(r)
  OBVIOUS
<1> HIDE DEF s
<1> QED BY <1>2, <1>5, <1>6, <1>7, <1>8

\* A field is wrong if no rule of the request record accepts its value.
IsWrong(r, f) ==
  \/ f \in TextFields /\ r[f] \notin Accepted
  \/ f \in EnumFields /\ ~r[f]
  \/ f = "expected_lifetime_days" /\ r[f] \notin {"positive", "wide"}
  \/ f = "submitted_at" /\ r[f] \notin {"aware", "ambiguous"}
  \/ f = "request_definition_version" /\ r[f] # "supported"
  \/ f = "submitted_repository_locator" /\
       ~ \E l \in {r[f]} :
           /\ l.text = "plain" /\ ~l.blank /\ ~l.mark /\ l.scheme # "http"
           /\ l.host \in {"github.com", "GitHub.com"} /\ l.tail # "more"
           /\ l.owner \in {"name", "dotgit"} /\ l.repository = "name"

LEMMA FieldsAreTyped ==
  ASSUME NEW r \in Request
  PROVE  /\ \A f \in TextFields : r[f] \in Text
         /\ \A f \in EnumFields : r[f] \in BOOLEAN
         /\ r.expected_lifetime_days \in Lifetime
         /\ r.submitted_at \in Time
         /\ r.submitted_repository_locator \in Locator
BY DEF Request, TextFields, EnumFields

\* The identity of a locator is missing exactly if the locator is not an address.
LEMMA LocatorRules ==
  ASSUME NEW l \in Locator
  PROVE  /\ HasTextError(l.text) \/ Normalize(l) = NoIdentity
              <=> ~ /\ l.text = "plain" /\ ~l.blank /\ ~l.mark /\ l.scheme # "http"
                    /\ l.host \in {"github.com", "GitHub.com"} /\ l.tail # "more"
                    /\ l.owner \in {"name", "dotgit"} /\ l.repository = "name"
         /\ Normalize(l) # NoIdentity =>
              /\ Normalize(l) = [owner |-> l.owner, repository |-> l.repository]
              /\ l.owner \in {"name", "dotgit"} /\ l.repository = "name"
<1> DEFINE address == /\ l.text = "plain" /\ ~l.blank /\ ~l.mark /\ l.scheme # "http"
                      /\ l.host \in {"github.com", "GitHub.com"} /\ l.tail # "more"
                      /\ l.owner \in {"name", "dotgit"} /\ l.repository = "name"
           open == IsGitHubPath(l) /\ l.owner # "dots" /\ l.repository \notin {"dots", "dotgit"}
<1>1. /\ l.owner \in Name /\ l.repository \in Name
      /\ l.scheme \in {"https", "HTTPS", "http"} /\ l.tail \in {"none", "slash", "more"}
  BY DEF Locator
<1>2. open <=> address
  BY <1>1 DEF IsGitHubPath, Name
<1>3. address => Normalize(l) = [owner |-> l.owner, repository |-> l.repository]
  BY <1>2 DEF Normalize
<1>4. ~address => Normalize(l) = NoIdentity
  BY <1>2 DEF Normalize
<1>5. address => Normalize(l) # NoIdentity
  <2>1. address => Normalize(l).owner # "missing"
    BY <1>3
  <2> QED BY <2>1 DEF NoIdentity
<1>6. address => ~HasTextError(l.text)
  BY DEF HasTextError, Accepted
<1> HIDE DEF open
<1> QED BY <1>3, <1>4, <1>5, <1>6

\* An error is found in a field exactly if it is wrong.
LEMMA ErrorIsWrong ==
  ASSUME NEW r \in Request, NEW f \in Fields
  PROVE  HasError(r, f) <=> IsWrong(r, f)
<1> USE FieldsAreTyped
<1>1. CASE f \in TextFields
  <2>1. HasError(r, f) <=> HasTextError(r[f])
    BY <1>1 DEF HasError, TextFields, EnumFields
  <2>2. HasTextError(r[f]) <=> r[f] \notin Accepted
    BY <1>1 DEF HasTextError, Text, Accepted
  <2>3. IsWrong(r, f) <=> r[f] \notin Accepted
    BY <1>1 DEF IsWrong, TextFields, EnumFields
  <2> QED BY <2>1, <2>2, <2>3
<1>2. CASE f \in EnumFields
  BY <1>2 DEF HasError, IsWrong, TextFields, EnumFields
<1>3. CASE f = "expected_lifetime_days"
  BY <1>3 DEF HasError, IsWrong, TextFields, EnumFields, Lifetime
<1>4. CASE f = "submitted_at"
  BY <1>4 DEF HasError, HasSubmittedAtError, IsWrong, TextFields, EnumFields, Time
<1>5. CASE f = "request_definition_version"
  BY <1>5 DEF HasError, IsWrong, TextFields, EnumFields
<1>6. CASE f = "submitted_repository_locator"
  BY <1>6, LocatorRules DEF HasError, IsWrong, TextFields, EnumFields
<1> QED BY <1>1, <1>2, <1>3, <1>4, <1>5, <1>6, FieldsAreListed DEF TextFields, EnumFields

\* Without an error, everything later boundaries ask for is there.
LEMMA NoErrorIsAccepted ==
  ASSUME NEW r \in Request, ErrorsOf(r) = <<>>
  PROVE  /\ \A f \in Fields : ~IsWrong(r, f)
         /\ r.submitted_at \in {"aware", "ambiguous"}
         /\ ContextAccepts(r)
         /\ CollectorAccepts(r)
<1>1. \A f \in Fields : ~IsWrong(r, f)
  BY ErrorIsWrong, ErrorsListFields
<1>2. \A f \in TextFields : r[f] \in Accepted
  BY <1>1, FieldsAreListed DEF IsWrong, TextFields
<1>3. \A f \in EnumFields : r[f]
  BY <1>1, FieldsAreListed DEF IsWrong, EnumFields
<1>4. r.expected_lifetime_days \in {"positive", "wide"}
  BY <1>1, FieldsAreListed DEF IsWrong
<1>5. r.submitted_at \in {"aware", "ambiguous"}
  BY <1>1, FieldsAreListed DEF IsWrong
<1>6. ContextAccepts(r)
  BY <1>2, <1>3, <1>4 DEF ContextAccepts, TextFields
<1>7. CollectorAccepts(r)
  <2> DEFINE l == r.submitted_repository_locator
  <2>1. ~HasError(r, "submitted_repository_locator")
    BY FieldsAreListed, ErrorsListFields
  <2>2. Normalize(l) # NoIdentity
    BY <2>1 DEF HasError, TextFields, EnumFields
  <2>3. /\ Normalize(l) = [owner |-> l.owner, repository |-> l.repository]
        /\ l.owner \in {"name", "dotgit"} /\ l.repository = "name"
    BY <2>2, LocatorRules, FieldsAreTyped
  <2>4. Normalize(l).owner \in {"name", "dotgit"} /\ Normalize(l).repository = "name"
    BY <2>3
  <2> HIDE DEF l
  <2>5. r.assessment_id \in Accepted
    BY <1>2 DEF TextFields
  <2> QED BY <2>4, <2>5 DEF CollectorAccepts, l
<1> QED BY <1>1, <1>5, <1>6, <1>7

\* The row of a request without an error is readable and as good as the request.
LEMMA RowIsReadable ==
  ASSUME NEW r \in Request, ErrorsOf(r) = <<>>
  PROVE  /\ RowOf(r) # NoRow
         /\ IsReadable(RowOf(r))
         /\ ContextAccepts(RowOf(r).values)
         /\ CollectorAccepts(RowOf(r).values)
         /\ r.submitted_at = "aware" => RowOf(r).values = r
<1> DEFINE v == [r EXCEPT !.submitted_at = IF @ = "ambiguous" THEN "aware" ELSE @]
<1>1. RowOf(r) = [identity |-> Normalize(r.submitted_repository_locator), values |-> v]
  BY DEF RowOf
<1>2. RowOf(r) # NoRow
  <2>1. "values" \in DOMAIN RowOf(r) /\ "values" \notin DOMAIN NoRow
    BY <1>1 DEF NoRow
  <2> QED BY <2>1
<1>3. r.submitted_at \in {"aware", "ambiguous"}
  BY NoErrorIsAccepted
<1>4. /\ v \in Request
      /\ v.submitted_at = "aware"
      /\ \A f \in Fields \ {"submitted_at"} : v[f] = r[f]
  BY <1>3, FieldsAreListed DEF Request, Time
<1>5. v.submitted_repository_locator = r.submitted_repository_locator
  BY <1>4, FieldsAreListed
<1>6. r.submitted_at = "aware" => v = r
  BY DEF Request
<1> HIDE DEF v
<1>7. ASSUME NEW f \in Fields PROVE ~IsWrong(v, f)
  <2>1. CASE f = "submitted_at"
    BY <1>4, <2>1 DEF IsWrong, TextFields, EnumFields
  <2>2. CASE f # "submitted_at"
    <3>1. v[f] = r[f] /\ ~IsWrong(r, f)
      BY <1>4, <2>2, NoErrorIsAccepted
    <3> QED BY <2>2, <3>1 DEF IsWrong
  <2> QED BY <2>1, <2>2
<1>8. ErrorsOf(v) = <<>>
  BY <1>4, <1>7, ErrorIsWrong, ErrorsListFields
<1>9. IsReadable(RowOf(r))
  BY <1>1, <1>4, <1>5, <1>8 DEF IsReadable
<1>10. ContextAccepts(v) /\ CollectorAccepts(v)
  BY <1>4, <1>8, NoErrorIsAccepted
<1> QED BY <1>1, <1>2, <1>6, <1>9, <1>10

-----------------------------------------------------------------------------
(* The invariant. *)

\* What each stage says of the request, and what the row is.
RequestInv ==
  /\ request \in Request
  /\ stage \in {"submitted", "valid", "invalid", "written", "persisted", "collecting", "raised"}
  /\ errors = (IF stage = "invalid" THEN ErrorsOf(request) ELSE <<>>)
  /\ stage = "invalid" => ErrorsOf(request) # <<>>
  /\ stage \in {"valid", "written", "persisted", "collecting", "raised"} =>
       ErrorsOf(request) = <<>>
  /\ row = NoRow \/ row = RowOf(request)
  /\ row # NoRow => ErrorsOf(request) = <<>>
  /\ stage \in {"written", "persisted", "collecting"} => row # NoRow
  /\ category # "none" <=> stage = "raised"
  /\ row # NoRow => Binds(request) /\ SatisfiesChecks(request)
  /\ stage = "raised" =>
       \/ category = "unhandled" /\ ~Binds(request)
       \/ category = "write_failed" /\ Binds(request) /\ ~SatisfiesChecks(request)
       \/ /\ category = "verification_failed"
          /\ row = RowOf(request) /\ ~ReadsAs(row, request)

LEMMA InitIsCoherent == Init => RequestInv
BY RequestsAreTyped DEF Init, RequestInv

LEMMA NextIsCoherent == RequestInv /\ [Next]_vars => RequestInv'
<1> SUFFICES ASSUME RequestInv, [Next]_vars PROVE RequestInv'
  OBVIOUS
<1> USE DEF RequestInv
<1>1. CASE UNCHANGED vars
  BY <1>1 DEF vars
<1>2. CASE Validate
  <2>1. CASE ErrorsOf(request) # <<>>
    BY <1>2, <2>1 DEF Validate, Step
  <2>2. CASE ErrorsOf(request) = <<>>
    <3>1. ContextAccepts(request)
      BY <2>2, NoErrorIsAccepted
    <3> QED BY <1>2, <2>2, <3>1 DEF Validate, Step
  <2> QED BY <2>1, <2>2
<1>3. CASE StoreFails
  BY <1>3 DEF StoreFails, Step
<1>4. CASE Store
  <2>1. ErrorsOf(request) = <<>> /\ row' = RowOf(request) /\ row' # NoRow
    BY <1>4, RowIsReadable DEF Store
  <2> QED BY <1>4, <2>1 DEF Store, Step
<1>5. CASE Reread
  BY <1>5 DEF Reread, Step
<1>6. CASE Collect
  <2>1. CollectorAccepts(request)
    BY <1>6, NoErrorIsAccepted DEF Collect
  <2> QED BY <1>6, <2>1 DEF Collect, Step
<1>7. CASE Resubmit
  BY <1>7 DEF Resubmit
<1> QED BY <1>1, <1>2, <1>3, <1>4, <1>5, <1>6, <1>7 DEF Next

LEMMA RequestsAreCoherent == Spec => []RequestInv
BY InitIsCoherent, NextIsCoherent, PTL DEF Spec

-----------------------------------------------------------------------------
(* The properties. *)

\* For any requests, a refused one comes back with all of its wrong fields, each once and in
\* the order of the record, and an accepted one has none (validate_assessment_request).
THEOREM ErrorsAreAlwaysComplete == Spec => []ErrorsAreComplete
<1>1. RequestInv => ErrorsAreComplete
  <2> DEFINE wrong == {f \in Fields : IsWrong(request, f)}
  <2> SUFFICES ASSUME RequestInv
               PROVE  /\ stage = "invalid" =>
                           /\ ToSet(errors) = wrong /\ wrong # {}
                           /\ \A i, j \in 1..Len(errors) : i < j =>
                                \E m, n \in 1..Len(FieldOrder) :
                                  /\ m < n
                                  /\ FieldOrder[m] = errors[i] /\ FieldOrder[n] = errors[j]
                      /\ stage \in {"valid", "written", "persisted", "collecting"} => wrong = {}
    BY DEF ErrorsAreComplete, IsWrong
  <2>1. {f \in Fields : HasError(request, f)} = wrong
    BY ErrorIsWrong DEF RequestInv
  <2>2. ToSet(ErrorsOf(request)) = wrong
    BY <2>1, ErrorsListFields
  <2>3. ErrorsOf(request) = <<>> <=> wrong = {}
    BY <2>1, ErrorsListFields
  <2> HIDE DEF wrong
  <2> QED BY <2>2, <2>3, ErrorsListFields DEF RequestInv
<1> QED BY <1>1, RequestsAreCoherent, PTL

\* For any requests, what is stored is accepted by every later boundary: no rule of the
\* context, the collectors or the rebuild refuses what validation let through.
THEOREM StoredIsAlwaysUsable == Spec => []StoredIsUsable
<1>1. RequestInv => StoredIsUsable
  BY RowIsReadable DEF RequestInv, StoredIsUsable
<1> QED BY <1>1, RequestsAreCoherent, PTL

\* For any requests, a valid one is refused for one of the three known reasons only, and
\* only the ambiguous instant leaves its row behind (persist_valid_assessment_request).
THEOREM RefusalsAreAlwaysKnown == Spec => []RefusalsAreKnown
<1>1. RequestInv => RefusalsAreKnown
  <2> SUFFICES ASSUME RequestInv, stage = "raised" PROVE RefusalsAreKnown
    BY DEF RefusalsAreKnown
  <2>1. CASE category = "unhandled" /\ ~Binds(request)
    BY <2>1 DEF RequestInv, RefusalsAreKnown, Binds
  <2>2. CASE category = "write_failed" /\ Binds(request) /\ ~SatisfiesChecks(request)
    BY <2>2 DEF RequestInv, RefusalsAreKnown, SatisfiesChecks
  <2>3. CASE /\ category = "verification_failed"
             /\ row = RowOf(request) /\ ~ReadsAs(row, request)
    <3>1. request.submitted_at # "aware"
      BY <2>3, RowIsReadable DEF RequestInv, ReadsAs
    <3>2. request.submitted_at = "ambiguous" /\ row # NoRow
      BY <2>3, <3>1, NoErrorIsAccepted, RowIsReadable DEF RequestInv
    <3> QED BY <2>3, <3>2 DEF RefusalsAreKnown
  <2> QED BY <2>1, <2>2, <2>3 DEF RequestInv
<1> QED BY <1>1, RequestsAreCoherent, PTL
=============================================================================

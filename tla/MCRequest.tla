----------------------------- MODULE MCRequest -----------------------------
(* A finite instance of RequestValidation. *)
EXTENDS RequestValidation, FiniteSets

MCLocator ==
  [text |-> "plain", blank |-> FALSE, mark |-> FALSE, scheme |-> "https",
   host |-> "github.com", owner |-> "name", repository |-> "name", tail |-> "none"]
MCGood ==
  [assessment_id |-> "plain", submitted_repository_locator |-> MCLocator,
   intended_use |-> "plain", environment |-> TRUE, criticality |-> TRUE,
   expected_lifetime_days |-> "positive", risk_tolerance |-> TRUE,
   submitted_by_actor_id |-> "plain", responsible_reviewer_actor_id |-> "plain",
   submitted_at |-> "aware", request_definition_version |-> "supported"]

\* What a field may be instead.
MCLocators ==
  {[MCLocator EXCEPT !.text = t] : t \in Text}
    \union {[MCLocator EXCEPT !.blank = TRUE], [MCLocator EXCEPT !.mark = TRUE]}
    \union {[MCLocator EXCEPT !.scheme = s, !.host = h, !.tail = t] :
              s \in {"https", "HTTPS", "http"}, t \in {"none", "slash", "more"},
              h \in {"github.com", "GitHub.com", "other", "malformed"}}
    \union {[MCLocator EXCEPT !.owner = o, !.repository = n] : o, n \in Name}
MCClasses(f) ==
  CASE f \in TextFields -> Text
    [] f \in EnumFields -> BOOLEAN
    [] f = "submitted_repository_locator" -> MCLocators
    [] f = "expected_lifetime_days" -> Lifetime
    [] f = "submitted_at" -> Time
    [] f = "request_definition_version" -> Text \union {"supported"}

\* At most two fields differ from a good request: no rule looks at two fields.
MCRequests ==
  UNION {{[MCGood EXCEPT ![f] = v, ![g] = w] : v \in MCClasses(f), w \in MCClasses(g)} :
           f, g \in Fields}
=============================================================================

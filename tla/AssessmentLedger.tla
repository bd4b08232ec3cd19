-------------------------- MODULE AssessmentLedger --------------------------
(***************************************************************************)
(* What the persistence boundary promises its callers, whatever they do    *)
(* and however they interleave: an append-only ledger in which an          *)
(* assessment is registered, its terminal outcomes are recorded under      *)
(* slots used once, it is evaluated at most once from outcomes in the      *)
(* ledger, and decided at most once, by the reviewer the request names, on *)
(* exactly that evaluation and not before it.                              *)
(***************************************************************************)
EXTENDS Integers

CONSTANTS Assessments, Kinds, Blank

VARIABLES
  registered,  \* the request of an assessment
  outcomes,    \* terminal collection outcomes
  evaluated,   \* the evaluation of an assessment
  decided      \* the human decision on an assessment

ledger == <<registered, outcomes, evaluated, decided>>

LedgerInit ==
  /\ registered = [a \in Assessments |-> Blank]
  /\ outcomes = {}
  /\ evaluated = [a \in Assessments |-> Blank]
  /\ decided = [a \in Assessments |-> Blank]

Register(a) ==
  /\ registered[a] = Blank
  /\ registered'[a] # Blank
  /\ registered' = [registered EXCEPT ![a] = registered'[a]]
  /\ UNCHANGED <<outcomes, evaluated, decided>>

Record ==
  \E c \in outcomes' :
    /\ outcomes' = outcomes \union {c}
    /\ registered[c.assessment] # Blank
    /\ registered[c.assessment].repository = c.repository
    /\ \A d \in outcomes :
         /\ d.id # c.id
         /\ <<d.assessment, d.kind, d.number>> # <<c.assessment, c.kind, c.number>>
    /\ UNCHANGED <<registered, evaluated, decided>>

LedgerEvaluate(a) ==
  /\ registered[a] # Blank
  /\ evaluated[a] = Blank
  /\ evaluated'[a] # Blank
  /\ evaluated' = [evaluated EXCEPT ![a] = evaluated'[a]]
  /\ \A k \in Kinds :
       LET c == evaluated'[a].evidence[k] IN
       /\ c \in outcomes
       /\ c.assessment = a
       /\ c.kind = k
       /\ c.outcome \in {"available", "unavailable"}
       /\ c.attemptedAt <= evaluated'[a].evaluatedAt
  /\ UNCHANGED <<registered, outcomes, decided>>

Decide(a) ==
  /\ evaluated[a] # Blank
  /\ decided[a] = Blank
  /\ decided'[a] # Blank
  /\ decided' = [decided EXCEPT ![a] = decided'[a]]
  /\ decided'[a].content.evaluation = evaluated[a]
  /\ decided'[a].content.maker = registered[a].reviewer
  /\ decided'[a].recordedAt >= evaluated[a].evaluatedAt
  /\ UNCHANGED <<registered, outcomes, evaluated>>

LedgerNext ==
  \/ \E a \in Assessments : Register(a) \/ LedgerEvaluate(a) \/ Decide(a)
  \/ Record

LedgerSpec == LedgerInit /\ [][LedgerNext]_ledger
=============================================================================

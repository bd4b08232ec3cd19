---------------------------- MODULE MCCollection ----------------------------
(* Statuses for instances of EvidenceCollection and CollectionRows. *)
EXTENDS EvidenceCollection

\* One status for each branch of the classification, and one outside all of them.
MCStatuses == {304, 401, 403, 422, 429, 503, 700}
=============================================================================

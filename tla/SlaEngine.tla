----------------------------- MODULE SlaEngine ------------------------------
(***************************************************************************)
(* The SLA engine (packages/sla) and the judgement built on it             *)
(* (cre/lib/judge.js), as operators over the schema validator.  The        *)
(* outcome of a judgement is PASS, FAIL, DOWN or "none", which writes no   *)
(* verdict.                                                                *)
(***************************************************************************)
EXTENDS JsonSchema

-----------------------------------------------------------------------------
(***************************************************************************)
(* SLA documents: index.js, clauses.js, schema.json                        *)
(*                                                                         *)
(* A record of the ENS is not set, not JSON, or a document: its            *)
(* version and its clauses.  A price bound is a decimal integer, or not    *)
(* one.                                                                    *)
(***************************************************************************)
DeliveryClauseId == "delivery"

MaxLatencyMs == 600000

WellFormed(clause) ==
  \/ clause.type = "schema" /\ AssertSchema[clause.schema]
  \/ clause.type = "latency" /\ clause.maxMs \in 0 .. MaxLatencyMs
  \/ /\ clause.type = "priceRange"
     /\ clause.min.decimal /\ clause.max.decimal /\ clause.min.units <= clause.max.units
  \/ clause.type = "semantic"

(* A slip: two clauses may share an id. *)
ParsesWithTwins(text) ==
  /\ text.is = "document" /\ text.version = 1
  /\ Len(text.clauses) \in 1 .. 32
  /\ \A i \in DOMAIN text.clauses :
       WellFormed(text.clauses[i]) /\ text.clauses[i].id # DeliveryClauseId

(* parseSla, assertSlaDocument: what throws is not applied at all. *)
Parses(text) ==
  /\ text.is = "document" /\ text.version = 1
  /\ Len(text.clauses) \in 1 .. 32
  /\ \A i \in DOMAIN text.clauses :
       /\ WellFormed(text.clauses[i])
       /\ text.clauses[i].id # DeliveryClauseId
       /\ \A j \in 1 .. i - 1 : text.clauses[j].id # text.clauses[i].id

(* An observation's status is 0 when nothing arrived. *)
Nothing == 0

(* evaluateClause, one clause result. *)
EvaluateClause(clause, obs) ==
  [id |-> clause.id,
   pass |-> \/ clause.type = "schema" /\ Validate[<<clause.schema, obs.body>>] = Conforming
            \/ clause.type = "latency" /\ obs.latencyMs <= clause.maxMs
            \/ /\ clause.type = "priceRange"
               /\ obs.paidAmount >= clause.min.units /\ obs.paidAmount <= clause.max.units
            \/ clause.type = "semantic"]

(* A slip: delivery is for the SLA to promise. *)
DeliveryWaived(obs) == [id |-> DeliveryClauseId, pass |-> obs.status # Nothing]

(* evaluateDelivery: the predicate no SLA can waive. *)
EvaluateDelivery(obs) ==
  [id |-> DeliveryClauseId, pass |-> obs.status # Nothing /\ obs.status < 500]

(* evaluate *)
Evaluate(clauses, obs) ==
  LET delivery == EvaluateDelivery(obs)
      results == <<delivery>> \o [i \in DOMAIN clauses |-> EvaluateClause(clauses[i], obs)]
  IN  IF obs.status = Nothing
        THEN [outcome |-> "DOWN", clauses |-> <<delivery>>]
        ELSE [outcome |-> IF \A i \in DOMAIN results : results[i].pass THEN "PASS" ELSE "FAIL",
              clauses |-> results]

(* evaluateStatusOnly *)
EvaluateStatusOnly(obs) ==
  [outcome |-> CASE obs.status = Nothing      -> "DOWN"
                 [] obs.status \in 200 .. 299 -> "PASS"
                 [] obs.status >= 500         -> "FAIL"
                 [] OTHER                     -> "none",
   clauses |-> <<>>]

-----------------------------------------------------------------------------
(***************************************************************************)
(* judge.js                                                                *)
(***************************************************************************)
PaymentRefused == 402

(* judge: a document that cannot be applied falls back to the status. *)
Judgement(text, obs) ==
  CASE obs.status = PaymentRefused -> [outcome |-> "none", clauses |-> <<>>]
    [] obs.status # PaymentRefused /\ Parses(text) -> Evaluate(text.clauses, obs)
    [] OTHER -> EvaluateStatusOnly(obs)

NoClause == "no clause"

(* failedClauseOf: the first clause that failed, or none. *)
FailedClauseOf(judgement) ==
  LET failed == {i \in DOMAIN judgement.clauses : ~judgement.clauses[i].pass}
      first == CHOOSE i \in failed : \A j \in failed : i <= j
  IN  IF failed = {} THEN NoClause ELSE judgement.clauses[first].id
=============================================================================

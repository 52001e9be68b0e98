--------------------------- MODULE VerifyWorkflow ---------------------------
(***************************************************************************)
(* One paid call from the record the proxy resolves (packages/sdk/ens.js)  *)
(* through the enclave (cre/workflows/verify/workflow.ts,                  *)
(* cre/lib/relay-payload.js), beside a provider that edits its SLA and a   *)
(* reader that matches a verdict's clause against the SLA published now    *)
(* (packages/sdk/registry.js).                                             *)
(*                                                                         *)
(* A body of a response is the JSON value it parses to, or the string it   *)
(* is, and its characters as UTF-16 units, of which only the cost in the   *)
(* serialized payload is kept.  Calls share nothing in the enclave: one is *)
(* followed, before, between and after any number of edits.                *)
(***************************************************************************)
EXTENDS SlaEngine, SequencesExt, Totals

CONSTANTS
  Texts,          \* contents of the ENS record, the one not set included
  Ttl,            \* ensCacheTtlMs, in ticks
  Agents,         \* who else asks the proxy about the service
  MaxRead,        \* the longest a read of the name takes, in ticks
  MaxHandling,    \* the longest the proxy takes from the record to the trigger, in ticks
  Observations,   \* what the enclave may see of a call
  Budget,         \* RESPONSE_BUDGET_BYTES
  Envelope,       \* bytes of the payload without body, flag and clause detail
  ClauseDetail    \* bytes of one clause result

Unset == [is |-> "unset"]

(* Clauses come in a list, a schema clause has a schema, and a price bound *)
(* that is a decimal integer has a value.                                  *)
ASSUME TextsAssumption ==
  /\ Unset \in Texts /\ Ttl \in Nat \ {0} /\ MaxRead \in Nat /\ MaxHandling \in Nat
  /\ \A text \in Texts : text.is = "document" =>
       /\ text.clauses \in Seq(Range(text.clauses))
       /\ \A clause \in Range(text.clauses) : clause.type = "schema" => clause.schema \in Schemas
       /\ \A clause \in Range(text.clauses) : clause.type = "priceRange" =>
            \A bound \in {clause.min, clause.max} : bound.decimal => bound.units \in Int

ASSUME ObservationsAssumption ==
  \A obs \in Observations :
    /\ obs.status \in Nat /\ obs.latencyMs \in Nat /\ obs.paidAmount \in Nat
    /\ obs.units \in Seq(Range(obs.units)) /\ obs.body \in Values

ASSUME SizesAssumption == Budget \in Nat /\ Envelope \in Nat /\ ClauseDetail \in Nat

VARIABLES
  published,      \* the `sla` text record
  cache,          \* the proxy's record of the name, and how long it keeps it
  reads,          \* agent -> the read of the name it waits for
  call,           \* the call, in the proxy and in the enclave
  verdict         \* its verdict on Arc, with what it is about

callVars == <<published, cache, reads, call, verdict>>

None == [phase |-> "none"]
Done == [phase |-> "done"]
NoRecord == [left |-> 0]
NoVerdict == [outcome |-> "none"]

CallInit ==
  /\ published \in Texts
  /\ cache = NoRecord /\ reads = [a \in Agents |-> NoRecord]
  /\ call = None /\ verdict = NoVerdict

-----------------------------------------------------------------------------
(***************************************************************************)
(* The size of a payload.                                                  *)
(***************************************************************************)
(* A slip: trim once. *)
FitOnce == 1

FitAttempts == 8

(* A surrogate pair is four bytes of UTF-8; half of one is a \uXXXX escape. *)
Bytes(units, i) ==
  CASE units[i] = "plain" -> 1
    [] units[i] = "quote" -> 2
    [] units[i] = "high"  -> IF i < Len(units) /\ units[i + 1] = "low" THEN 4 ELSE 6
    [] units[i] = "low"   -> IF i > 1 /\ units[i - 1] = "high" THEN 0 ELSE 6
    [] OTHER              -> 6

BodyBytes(units) == Total([i \in DOMAIN units |-> Bytes(units, i)], DOMAIN units)

(* JSON.stringify writes `true` in one byte less than `false`. *)
Size(c) == Envelope + ClauseDetail * Len(c.judgement.clauses) + BodyBytes(c.body)
           + (IF c.bodyTruncated THEN 4 ELSE 5)

-----------------------------------------------------------------------------
(***************************************************************************)
(* The provider publishes another SLA at any moment.  Whoever holds a      *)
(* record, be it kept, read or used, remembers for the properties since    *)
(* how many ticks its SLA is no longer in force.                           *)
(***************************************************************************)
InForce(held, text) ==
  IF held # NoRecord /\ held.sla = text THEN [held EXCEPT !.gone = 0] ELSE held

Waiting == call.phase \in {"reading", "handling"}

PublishSla(text) ==
  /\ text \in Texts \ {Unset, published}
  /\ published' = text
  /\ cache' = InForce(cache, text)
  /\ reads' = [a \in Agents |-> InForce(reads[a], text)]
  /\ call' = IF Waiting THEN InForce(call, text) ELSE call
  /\ UNCHANGED verdict

(* A slip: a hit keeps the record for another Ttl. *)
HitSliding == [cache EXCEPT !.left = Ttl]

(* A record that is kept answers, and is kept no longer for it. *)
Hit == cache

(***************************************************************************)
(* resolveServiceRecord, for any request: the record kept, or the name is  *)
(* read, by everyone who finds none kept.  A read is of the moment the     *)
(* name service answers it, and takes its time from there.                 *)
(***************************************************************************)
Resolve(a) ==
  /\ call = None /\ reads[a] = NoRecord
  /\ IF cache = NoRecord
     THEN reads' = [reads EXCEPT ![a] = [sla |-> published, gone |-> 0, age |-> 0]] /\ UNCHANGED cache
     ELSE cache' = Hit /\ UNCHANGED reads
  /\ UNCHANGED <<published, call, verdict>>

(* The Ttl starts when the read has come back, over whatever was kept. *)
Keep(a) ==
  /\ reads[a] # NoRecord
  /\ cache' = [sla |-> reads[a].sla, gone |-> reads[a].gone, left |-> Ttl]
  /\ reads' = [reads EXCEPT ![a] = NoRecord]
  /\ UNCHANGED <<published, call, verdict>>

(* The name service cannot be reached: a 503, and nothing is kept. *)
ReadFails(a) ==
  /\ reads[a] # NoRecord
  /\ reads' = [reads EXCEPT ![a] = NoRecord]
  /\ UNCHANGED <<published, cache, call, verdict>>

(* handleRequest: the call resolves the name like anybody.  What the proxy *)
(* keeps or others read from now on bears on no later step of this call.   *)
Request ==
  /\ call = None
  /\ call' = IF cache = NoRecord
             THEN [phase |-> "reading", sla |-> published, gone |-> 0, age |-> 0]
             ELSE [phase |-> "handling", sla |-> cache.sla, gone |-> cache.gone, age |-> 0]
  /\ cache' = NoRecord /\ reads' = [a \in Agents |-> NoRecord]
  /\ UNCHANGED <<published, verdict>>

Resolved ==
  /\ call.phase = "reading"
  /\ call' = [call EXCEPT !.phase = "handling", !.age = 0]
  /\ UNCHANGED <<published, cache, reads, verdict>>

(* A check or one of the awaited answers ends the request. *)
Refused ==
  /\ Waiting
  /\ call' = Done
  /\ UNCHANGED <<published, cache, reads, verdict>>

(* verified: with the registry, the body, the challenge and the payment    *)
(* read, the record goes along with the call.                              *)
Trigger ==
  /\ call.phase = "handling"
  /\ call' = [phase |-> "sent", sla |-> call.sla, gone |-> call.gone]
  /\ UNCHANGED <<published, cache, reads, verdict>>

(* Time passes; a record kept for Ttl is not looked at again.              *)
Gone(held) == IF held.sla = published THEN 0 ELSE held.gone + 1
Aged(held) == [held EXCEPT !.age = @ + 1, !.gone = Gone(held)]

Tick ==
  /\ call = None \/ Waiting
  /\ \A a \in Agents : reads[a] # NoRecord => reads[a].age < MaxRead
  /\ call.phase = "reading" => call.age < MaxRead
  /\ call.phase = "handling" => call.age < MaxHandling
  /\ cache' = IF cache = NoRecord \/ cache.left = 1 THEN NoRecord
              ELSE [cache EXCEPT !.left = @ - 1, !.gone = Gone(cache)]
  /\ reads' = [a \in Agents |-> IF reads[a] = NoRecord THEN NoRecord ELSE Aged(reads[a])]
  /\ call' = IF Waiting THEN Aged(call) ELSE call
  /\ UNCHANGED <<published, verdict>>

(***************************************************************************)
(* onVerifyRequest: replay the payment, judge what was seen.  Nothing seen *)
(* relays an empty body; no outcome writes no verdict.                     *)
(***************************************************************************)
Replay(obs) ==
  /\ call.phase = "sent"
  /\ LET judgement == Judgement(call.sla, obs)
     IN  call' = [phase |-> IF judgement.outcome = "none" THEN "finish" ELSE "write",
                  sla |-> call.sla, obs |-> obs, judgement |-> judgement,
                  body |-> obs.units, bodyTruncated |-> FALSE, attempt |-> 0]
  /\ UNCHANGED <<published, cache, reads, verdict>>

(* What the report carries; a clause id stands for its hash. *)
Report == [sla |-> call.sla, obs |-> call.obs, outcome |-> call.judgement.outcome,
           failedClause |-> FailedClauseOf(call.judgement)]

(***************************************************************************)
(* writeReport: a failed write does not throw, the payload is relayed.     *)
(***************************************************************************)
Write ==
  /\ call.phase = "write"
  /\ verdict' \in {verdict, Report}
  /\ call' = [call EXCEPT !.phase = "finish"]
  /\ UNCHANGED <<published, cache, reads>>

(***************************************************************************)
(* fitToBudget: cut the measured overflow from the body, measure again.    *)
(***************************************************************************)
TooLarge == Size(call) > Budget /\ call.body # <<>> /\ call.attempt < FitAttempts

Trim ==
  /\ call.phase = "finish" /\ TooLarge
  /\ LET over == Size(call) - Budget
         kept == IF over > Len(call.body) THEN 0 ELSE Len(call.body) - over
     IN  call' = [call EXCEPT !.body = SubSeq(@, 1, kept),
                              !.bodyTruncated = TRUE,
                              !.attempt = @ + 1]
  /\ UNCHANGED <<published, cache, reads, verdict>>

(* finish: the payload is pushed to the proxy; a failed push is swallowed. *)
Push ==
  /\ call.phase = "finish" /\ ~TooLarge
  /\ call' = Done
  /\ UNCHANGED <<published, cache, reads, verdict>>

CallNext ==
  \/ \E text \in Texts : PublishSla(text)
  \/ \E a \in Agents : Resolve(a) \/ Keep(a) \/ ReadFails(a)
  \/ Request
  \/ Resolved
  \/ Refused
  \/ Trigger
  \/ Tick
  \/ \E obs \in Observations : Replay(obs)
  \/ Write
  \/ Trim
  \/ Push

CallSpec == CallInit /\ [][CallNext]_callVars

-----------------------------------------------------------------------------
(***************************************************************************)
(* A clause of a document broken, by what it says and not by the engine.   *)
(***************************************************************************)
Broken(clause, obs) ==
  \/ clause.type = "schema" /\ ~Conforms[<<clause.schema, obs.body>>]
  \/ clause.type = "latency" /\ obs.latencyMs > clause.maxMs
  \/ clause.type = "priceRange" /\ obs.paidAmount \notin clause.min.units .. clause.max.units

(***************************************************************************)
(* A call carries an SLA that was published, and is out of force for less  *)
(* than a Ttl and the time that one read of the name and the handling of   *)
(* the call take, however often the cached record was answered with or     *)
(* overwritten in the meantime, by slower reads too.                       *)
(***************************************************************************)
JudgedUnderARecentSla == call.phase = "sent" => call.gone < Ttl + MaxRead + MaxHandling

(***************************************************************************)
(* A verdict on Arc is of the document its call carried, whatever has been *)
(* published since: with one that can be applied, DOWN says nothing came   *)
(* back, PASS that the response arrived and every clause was kept, and     *)
(* FAIL names delivery or a broken clause with none broken declared before *)
(* it; without one the status alone decides and no clause is named.  A     *)
(* refused payment has no verdict.                                         *)
(***************************************************************************)
VerdictIsOfTheDocument ==
  verdict # NoVerdict =>
    LET obs == verdict.obs
        text == verdict.sla
        delivered == obs.status < 500
        broken == {i \in DOMAIN text.clauses : Broken(text.clauses[i], obs)}
    IN  /\ obs.status # PaymentRefused
        /\ (verdict.outcome = "DOWN") <=> (obs.status = Nothing)
        /\ obs.status # Nothing /\ Parses(text) =>
             /\ (verdict.outcome = "PASS") <=> (delivered /\ broken = {})
             /\ (verdict.failedClause = DeliveryClauseId) <=> ~delivered
             /\ verdict.outcome = "FAIL" /\ delivered =>
                  \E i \in broken : /\ verdict.failedClause = text.clauses[i].id
                                    /\ \A j \in broken : i <= j
        /\ ~Parses(text) =>
             /\ verdict.failedClause = NoClause
             /\ (verdict.outcome = "PASS") => obs.status \in 200 .. 299
             /\ (verdict.outcome = "FAIL") => obs.status >= 500

(***************************************************************************)
(* An SLA never earns a PASS for what the status alone already fails, and  *)
(* never a refund for a payment that was refused (clauses.js, judge.js).   *)
(***************************************************************************)
NoMoreLenientThanFallback ==
  call.phase \in {"write", "finish"} =>
    /\ Judgement(Unset, call.obs).outcome \in {"FAIL", "DOWN"} =>
         call.judgement.outcome \in {"FAIL", "DOWN"}
    /\ call.obs.status = PaymentRefused => call.judgement.outcome = "none"

(***************************************************************************)
(* matchFailedClause: delivery, the first declared clause of that id, no   *)
(* clause, or an id the SLA published now does not declare.                *)
(***************************************************************************)
Matched(failedClause, text) ==
  IF failedClause \in {NoClause, DeliveryClauseId} THEN failedClause
  ELSE IF Parses(text) /\ \E c \in Range(text.clauses) : c.id = failedClause THEN failedClause
  ELSE "unknown"

(***************************************************************************)
(* A reader who matches a FAIL against the SLA it was judged under is led  *)
(* to one clause, and that clause is broken; it is told "unknown" only     *)
(* after an edit, unless a clause is called that.                          *)
(***************************************************************************)
ReaderIsLedToTheClause ==
  verdict # NoVerdict /\ verdict.outcome = "FAIL" /\ verdict.failedClause \notin {NoClause, DeliveryClauseId} =>
    LET named == Matched(verdict.failedClause, published)
        declared == {c \in Range(published.clauses) : c.id = named}
    IN  /\ published = verdict.sla =>
             \E c \in declared : Broken(c, verdict.obs) /\ Cardinality({i \in DOMAIN published.clauses :
                                                              published.clauses[i].id = named}) = 1
        /\ named = "unknown" /\ verdict.failedClause # named => published # verdict.sla

(***************************************************************************)
(* The relayed payload fits the budget whenever the envelope alone does,   *)
(* whatever a character costs and wherever the cut falls; the body is a    *)
(* prefix of the response, and marked when it is not all of it.            *)
(***************************************************************************)
RelayFits ==
  call.phase = "finish" =>
    /\ ~TooLarge /\ Size([call EXCEPT !.body = <<>>, !.bodyTruncated = FALSE]) <= Budget => Size(call) <= Budget
    /\ IsPrefix(call.body, call.obs.units)
    /\ call.bodyTruncated <=> call.body # call.obs.units

(***************************************************************************)
(* Two responses that differ in the order of their members only get the    *)
(* same failure, at the same place, from every schema of the document.     *)
(***************************************************************************)
Reordered(v, w) == v.is = "object" /\ w.is = "object" /\ DeepEqual[<<v, w>>]

ReportsIgnoreMemberOrder ==
  call.phase \in {"write", "finish"} /\ Parses(call.sla) =>
    \A clause \in {c \in Range(call.sla.clauses) : c.type = "schema"} :
      \A other \in {o \in Observations : Reordered(o.body, call.obs.body)} :
        Validate[<<clause.schema, other.body>>] = Validate[<<clause.schema, call.obs.body>>]
=============================================================================

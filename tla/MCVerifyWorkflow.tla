-------------------------- MODULE MCVerifyWorkflow --------------------------
(***************************************************************************)
(* A small instance of VerifyWorkflow for TLC.                             *)
(***************************************************************************)
EXTENDS VerifyWorkflow, FiniteSetsExt

MCNamesInOrder == <<"amount", "colour">>

Number(halves) == [is |-> "number", n |-> halves]
Text(s) == [is |-> "string", s |-> s]
Array(items) == [is |-> "array", items |-> items]
M(name, value) == [name |-> name, value |-> value]
Object(members) == [is |-> "object", members |-> members]

Quote == Object(<<M("amount", Number(4)), M("colour", Text("red"))>>)
QuoteReordered == Object(<<M("colour", Text("red")), M("amount", Number(4))>>)
Wrong == Object(<<M("amount", Number(3)), M("colour", Number(1))>>)
WrongReordered == Object(<<M("colour", Number(1)), M("amount", Number(3))>>)

(* A body that parses to a value, and the cost of its characters. *)
Bodies == {
  [body |-> Quote, units |-> <<"quote", "plain", "high", "low">>],
  [body |-> QuoteReordered, units |-> <<"plain">>],
  [body |-> Wrong, units |-> <<"high", "low", "high", "low">>],
  [body |-> WrongReordered, units |-> <<"control", "high", "low", "plain", "plain">>],
  [body |-> Object(<<M("amount", Number(2))>>), units |-> <<"plain", "high", "low", "high", "low">>],
  [body |-> Array(<<Number(2), Number(3)>>), units |-> <<"low", "high">>],
  [body |-> Text("busy"), units |-> <<>>]}

MCObservations ==
  {[status |-> s, body |-> b.body, units |-> b.units, latencyMs |-> l, paidAmount |-> p] :
     s \in {200, 302, 402, 404, 500}, b \in Bodies, l \in {1, 2}, p \in {1, 3}}
  \cup {[status |-> Nothing, body |-> [is |-> "null"], units |-> <<>>, latencyMs |-> 2, paidAmount |-> 1]}

Integral == [type |-> {"integer"}, minimum |-> 2]
Shape == [type |-> {"object"}, required |-> <<"amount", "colour">>,
          properties |-> [amount |-> Integral], additionalProperties |-> [is |-> "schema",
          schema |-> [type |-> {"string"}, maxLength |-> 3]]]
Closed == [additionalProperties |-> [is |-> "never"]]
OneWay == [oneOf |-> <<[required |-> <<"amount">>], [required |-> <<"colour">>],
                       [type |-> {"array"}, items |-> Integral, maxItems |-> 2]>>]
Exact == [enum |-> {Quote, Text("busy")}]
Patterned == [items |-> [oneOf |-> <<[pattern |-> "x"], Integral>>]]

Promise(id, schema) == [id |-> id, type |-> "schema", schema |-> schema]
Fast(id) == [id |-> id, type |-> "latency", maxMs |-> 1]
Cheap(id, max) == [id |-> id, type |-> "priceRange",
                   min |-> [decimal |-> TRUE, units |-> 1], max |-> [decimal |-> TRUE, units |-> max]]
Sensible(id) == [id |-> id, type |-> "semantic"]
Document(clauses) == [is |-> "document", version |-> 1, clauses |-> clauses]

MCTexts == {
  Unset,
  [is |-> "not JSON"],
  Document(<<Promise("shape", Shape), Fast("fast")>>),
  Document(<<Fast("shape"), Sensible("sense"), Cheap("cheap", 2)>>),
  Document(<<Promise("either", OneWay), Promise("exact", Exact)>>),
  Document(<<Promise("closed", Closed)>>),
  Document(<<Promise("pattern", Patterned), Fast("fast")>>),
  Document(<<Fast("twin"), Cheap("twin", 2)>>),
  Document(<<Fast("delivery")>>),
  Document(<<Cheap("cheap", 0)>>)}

(* Every schema and value there is, with its parts, and how deep it nests. *)
RECURSIVE WithInner(_), WithParts(_), MCSchemaHeight(_), MCValueHeight(_)
WithInner(schemas) ==
  IF schemas = {} THEN {} ELSE schemas \cup WithInner(UNION {Inner(s) : s \in schemas})
WithParts(values) ==
  IF values = {} THEN {} ELSE values \cup WithParts(UNION {Parts(v) : v \in values})
Highest(heights) == IF heights = {} THEN 0 ELSE 1 + Max(heights)
MCSchemaHeight(s) == Highest({MCSchemaHeight(t) : t \in Inner(s)})
MCValueHeight(v) == Highest({MCValueHeight(w) : w \in Parts(v)})

MCSchemas == WithInner({Shape, Closed, OneWay, Exact, Patterned})
MCValues == WithParts({b.body : b \in Bodies} \cup {[is |-> "null"]} \cup Exact.enum)
MCSchemaHeights == [s \in MCSchemas |-> MCSchemaHeight(s)]
MCValueHeights == [v \in MCValues |-> MCValueHeight(v)]
=============================================================================

----------------------------- MODULE JsonSchema -----------------------------
(***************************************************************************)
(* The schema validator (packages/sla/jsonschema.js).                      *)
(*                                                                         *)
(* A JSON value is a record with its type and its content; numbers are in  *)
(* halves, so that some are not integers, and an object is its members in  *)
(* the order it was written in.  A schema is a record whose fields are its *)
(* keywords.  The functions that call themselves are functions on the      *)
(* schemas and the values there are.  A pointer is built from the inside   *)
(* out here, and from the outside in there.                                *)
(***************************************************************************)
EXTENDS Integers, Sequences, FiniteSets, Functions

CONSTANTS
  Schemas,        \* every schema, and the schemas inside it
  Values,         \* every value, and the values inside it
  NamesInOrder,   \* the names of members, sorted
  SchemaHeight,   \* how deep a schema nests,
  ValueHeight     \* and a value

MemberNames == Range(NamesInOrder)

Annotations == {"$schema", "$id", "$comment", "title", "description", "examples", "default"}
Supported == {"type", "const", "enum", "properties", "required", "additionalProperties",
              "items", "minItems", "maxItems", "minLength", "maxLength", "minimum",
              "maximum", "oneOf"}
TypeNames == {"object", "array", "string", "number", "integer", "boolean", "null"}
Counts == {"minItems", "maxItems", "minLength", "maxLength"}

(* The schemas directly inside a schema. *)
Inner(s) ==
  (IF "properties" \in DOMAIN s THEN Range(s.properties) ELSE {})
  \cup (IF "additionalProperties" \in DOMAIN s /\ s.additionalProperties.is = "schema"
          THEN {s.additionalProperties.schema} ELSE {})
  \cup (IF "items" \in DOMAIN s THEN {s.items} ELSE {})
  \cup (IF "oneOf" \in DOMAIN s THEN Range(s.oneOf) ELSE {})

(* assertSchema: every keyword, in every branch, can be enforced. *)
AssertSchema[s \in Schemas] ==
  /\ DOMAIN s \subseteq Annotations \cup Supported
  /\ "type" \in DOMAIN s => s.type # {} /\ s.type \subseteq TypeNames
  /\ "enum" \in DOMAIN s => s.enum # {}
  /\ \A k \in Counts \cap DOMAIN s : s[k] >= 0
  /\ "oneOf" \in DOMAIN s => Len(s.oneOf) >= 2
  /\ \A t \in Inner(s) : AssertSchema[t]

(* The values directly inside a value. *)
Parts(v) ==
  (IF v.is = "array" THEN Range(v.items) ELSE {})
  \cup (IF v.is = "object" THEN {m.value : m \in Range(v.members)} ELSE {})

Names(v) == {m.name : m \in Range(v.members)}
Member(v, name) == (CHOOSE m \in Range(v.members) : m.name = name).value

(* What JSON.parse returns is a tree: it ends, and no name is there twice. *)
ASSUME TreesAssumption ==
  /\ NamesInOrder \in Seq(MemberNames)
  /\ SchemaHeight \in [Schemas -> Nat] /\ ValueHeight \in [Values -> Nat]
  /\ \A s \in Schemas :
       /\ \A t \in Inner(s) : t \in Schemas /\ SchemaHeight[t] < SchemaHeight[s]
       /\ "properties" \in DOMAIN s => DOMAIN s.properties \subseteq MemberNames
       /\ "required" \in DOMAIN s => s.required \in Seq(MemberNames)
       /\ "oneOf" \in DOMAIN s => s.oneOf \in Seq(Schemas)
       /\ "const" \in DOMAIN s => s.const \in Values
       /\ "enum" \in DOMAIN s => s.enum \subseteq Values
  /\ \A v \in Values :
       /\ \A w \in Parts(v) : w \in Values /\ ValueHeight[w] < ValueHeight[v]
       /\ v.is = "array" => v.items \in Seq(Values)
       /\ v.is = "object" =>
            /\ v.members \in Seq([name : MemberNames, value : Values])
            /\ \A m, n \in Range(v.members) : m.name = n.name => m = n

-----------------------------------------------------------------------------
(***************************************************************************)
(* deepEqual, given what it says of the parts.                             *)
(***************************************************************************)
EqualGiven(equal, a, b) ==
  \/ a = b
  \/ /\ a.is = "array" /\ b.is = "array" /\ Len(a.items) = Len(b.items)
     /\ \A i \in DOMAIN a.items : equal[<<a.items[i], b.items[i]>>]
  \/ /\ a.is = "object" /\ b.is = "object" /\ Names(a) = Names(b)
     /\ \A n \in Names(a) : equal[<<Member(a, n), Member(b, n)>>]

DeepEqual[p \in Values \X Values] == EqualGiven(DeepEqual, p[1], p[2])

MatchesType(v, name) ==
  \/ v.is = name
  \/ name = "integer" /\ v.is = "number" /\ v.n % 2 = 0

(* The keywords that fail at the value itself, before its parts are visited. *)
HoldsAtItself(s, v) ==
  /\ "type" \in DOMAIN s => \E name \in s.type : MatchesType(v, name)
  /\ "const" \in DOMAIN s => DeepEqual[<<v, s.const>>]
  /\ "enum" \in DOMAIN s => \E option \in s.enum : DeepEqual[<<v, option>>]
  /\ v.is = "number" => /\ "minimum" \in DOMAIN s => v.n >= s.minimum
                        /\ "maximum" \in DOMAIN s => v.n <= s.maximum
  /\ v.is = "string" => /\ "minLength" \in DOMAIN s => Len(v.s) >= s.minLength
                        /\ "maxLength" \in DOMAIN s => Len(v.s) <= s.maxLength
  /\ v.is = "array" =>  /\ "minItems" \in DOMAIN s => Len(v.items) >= s.minItems
                        /\ "maxItems" \in DOMAIN s => Len(v.items) <= s.maxItems

Declared(s) == IF "properties" \in DOMAIN s THEN DOMAIN s.properties ELSE {}

(***************************************************************************)
(* A failure is where it is: a sequence of no pointer or of one.           *)
(***************************************************************************)
Conforming == <<>>
FailsAt(pointer) == <<pointer>>
Below(step, failure) == IF failure = Conforming THEN Conforming ELSE FailsAt(<<step>> \o failure[1])

FirstOf(failures) ==
  LET failing == {i \in DOMAIN failures : failures[i] # Conforming}
  IN  IF failing = {} THEN Conforming
      ELSE failures[CHOOSE i \in failing : \A j \in failing : i <= j]

(* The first by name, of the failures of some members. *)
FirstByName(order, failures) ==
  FirstOf([i \in DOMAIN order |-> IF order[i] \in DOMAIN failures
                                    THEN Below(order[i], failures[order[i]]) ELSE Conforming])

(* A slip: members in the order the response wrote them. *)
AsWritten(v) == [i \in DOMAIN v.members |-> v.members[i].name]

(* Object.keys(...).sort() *)
InOrder(v) == NamesInOrder

(***************************************************************************)
(* validate, given what it says of the schemas inside.                     *)
(***************************************************************************)
ItemsFailure(validate, s, v) ==
  IF v.is = "array" /\ "items" \in DOMAIN s
    THEN FirstOf([i \in DOMAIN v.items |-> Below(i, validate[<<s.items, v.items[i]>>])])
    ELSE Conforming

RequiredFailure(s, v) ==
  IF v.is = "object" /\ "required" \in DOMAIN s
    THEN FirstOf([i \in DOMAIN s.required |-> IF s.required[i] \in Names(v) THEN Conforming
                                              ELSE FailsAt(<<s.required[i]>>)])
    ELSE Conforming

DeclaredFailure(validate, s, v) ==
  IF v.is = "object"
    THEN FirstByName(InOrder(v), [name \in Declared(s) \cap Names(v) |->
                                    validate[<<s.properties[name], Member(v, name)>>]])
    ELSE Conforming

OthersFailure(validate, s, v) ==
  IF v.is = "object" /\ "additionalProperties" \in DOMAIN s
    THEN FirstByName(InOrder(v), [name \in Names(v) \ Declared(s) |->
           CASE s.additionalProperties.is = "never" -> FailsAt(<<>>)
             [] s.additionalProperties.is = "schema" ->
                  validate[<<s.additionalProperties.schema, Member(v, name)>>]
             [] OTHER -> Conforming])
    ELSE Conforming

Matching(validate, s, v) == {i \in DOMAIN s.oneOf : validate[<<s.oneOf[i], v>>] = Conforming}

(* A slip: one alternative or more is enough. *)
OneOrMore(validate, s, v) ==
  IF Matching(validate, s, v) # {} THEN Conforming ELSE FailsAt(<<>>)

(* oneOf: exactly one of the alternatives. *)
ExactlyOne(validate, s, v) ==
  IF Cardinality(Matching(validate, s, v)) = 1 THEN Conforming ELSE FailsAt(<<>>)

FailureGiven(validate, s, v) ==
  IF ~HoldsAtItself(s, v) THEN FailsAt(<<>>)
  ELSE FirstOf(<<ItemsFailure(validate, s, v),
                 RequiredFailure(s, v), DeclaredFailure(validate, s, v), OthersFailure(validate, s, v),
                 IF "oneOf" \in DOMAIN s THEN ExactlyOne(validate, s, v) ELSE Conforming>>)

(* The first failure in the order of the traversal, or none. *)
Validate[q \in Schemas \X Values] == FailureGiven(Validate, q[1], q[2])

-----------------------------------------------------------------------------
(***************************************************************************)
(* Conformance as JSON Schema defines it, without the traversal: what      *)
(* Validate is held against.                                               *)
(***************************************************************************)
ConformsGiven(conforms, s, v) ==
  /\ HoldsAtItself(s, v)
  /\ v.is = "array" /\ "items" \in DOMAIN s => \A e \in Range(v.items) : conforms[<<s.items, e>>]
  /\ v.is = "object" /\ "required" \in DOMAIN s => Range(s.required) \subseteq Names(v)
  /\ v.is = "object" => \A m \in Range(v.members) :
       /\ m.name \in Declared(s) => conforms[<<s.properties[m.name], m.value>>]
       /\ m.name \notin Declared(s) /\ "additionalProperties" \in DOMAIN s =>
            /\ s.additionalProperties.is # "never"
            /\ s.additionalProperties.is = "schema" =>
                 conforms[<<s.additionalProperties.schema, m.value>>]
  /\ "oneOf" \in DOMAIN s =>
       \E i \in DOMAIN s.oneOf :
         \A j \in DOMAIN s.oneOf : conforms[<<s.oneOf[j], v>>] <=> i = j

Conforms[q \in Schemas \X Values] == ConformsGiven(Conforms, q[1], q[2])
=============================================================================

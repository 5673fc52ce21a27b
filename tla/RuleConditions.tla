--------------------------- MODULE RuleConditions ---------------------------
(***************************************************************************)
(* When a published rule applies (app/rules/executors).  A condition        *)
(* compares one fact of the incident with what its payload holds.  Texts    *)
(* are compared as the code's str() gives them, numbers as its float()      *)
(* does: a value is its text with the set of its number, empty for NaN.     *)
(***************************************************************************)
EXTENDS Integers, FiniteSetsExt

ConditionTypes == {"incident_type", "incident_complexity", "time_of_day",
  "administrative_area", "object_type", "priority", "resource_availability", "capability"}
ConditionOperators == {"eq", "neq", "in", "not_in", "gte", "lte", "between", "exists", "contains"}

Word(text) == [text |-> text, number |-> {}]
Number(text, n) == [text |-> text, number |-> {n}]
Null == Word("")  \* a key that the payload lacks, and None: _as_str gives "", _num NaN

\* A fact: nothing, a value, or a collection of values.
Unknown == [known |-> FALSE, value |-> Null, members |-> {}]
Fact(v) == [known |-> TRUE, value |-> v, members |-> {v.text}]
Collection(texts) == [known |-> TRUE, value |-> Word("a set"), members |-> texts]

\* What a payload has under "value", "values", "min" and "max".
Payload == [value |-> Null, values |-> {}, min |-> Null, max |-> Null]

AtLeast(v, w) == \E a \in v.number, b \in w.number : a >= b

Compares(condition, fact) ==
  LET payload == condition.payload
      texts == {v.text : v \in payload.values} IN
  \/ condition.operator = "exists" /\ fact.members # {}
  \/ condition.operator = "eq" /\ fact.value.text = payload.value.text
  \/ condition.operator = "neq" /\ fact.value.text # payload.value.text
  \/ condition.operator = "in" /\ fact.value.text \in texts
  \/ condition.operator = "not_in" /\ fact.value.text \notin texts
  \/ condition.operator = "gte" /\ AtLeast(fact.value, payload.value)
  \/ condition.operator = "lte" /\ AtLeast(payload.value, fact.value)
  \/ /\ condition.operator = "between"
     /\ AtLeast(fact.value, payload.min) /\ AtLeast(payload.max, fact.value)
  \/ condition.operator = "contains" /\ payload.value.text \in fact.members

\* Nothing is compared with a fact that is not known.
Evaluate(condition, fact) == fact.known /\ Compares(condition, fact)

\* RuleEvaluator: all conditions of the version.
IsApplicable(conditions, facts) ==
  \A c \in conditions : Evaluate(c, facts[c.type])

\* RuleEngine._complexity_matches: the rule's complexities, when it names some.
ComplexityMatches(complexities, facts) ==
  complexities # {} => facts["incident_complexity"].known
                       /\ facts["incident_complexity"].value.text \in complexities

\* What RuleValidator asks of a condition before a version is published: the keys
\* of its payload are there (a null counts), a list is not empty.
Publishable(condition) == condition.operator \in {"in", "not_in"} => condition.payload.values # {}
=============================================================================

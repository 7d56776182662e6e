---------------------------- MODULE CanonicalJson ----------------------------
(***************************************************************************)
(* The two serialisers of src/core/canonical.ts. A JavaScript value is a   *)
(* record [type, value, members, own]: `value' is what a scalar holds,     *)
(* `members' its elements by index or its properties by name, `own' the    *)
(* flaws of an object itself (a foreign prototype, a symbol key, an        *)
(* accessor, a hole). A canonical form is a nested tuple, in which the     *)
(* order of properties is gone; Throws stands for a TypeError.             *)
(***************************************************************************)
EXTENDS Integers, Sequences

CONSTANTS
  Values,   \* the JavaScript values that occur, with their members and what JSON makes of them
  Throws

\* Mutant: a number is written without being looked at.
LoneSurrogate(v) == v.value = "lone surrogate"

\* Scalars that JSON or UTF-8 cannot carry.
Unwritable(v) == v.value \in {"non-finite", "lone surrogate"}

AnyThrows(forms) == \E m \in DOMAIN forms : forms[m] = Throws

canonicalizeRfc8785[v \in Values] ==
  LET forms == [m \in DOMAIN v.members |-> canonicalizeRfc8785[v.members[m]]]
  IN  CASE v.type \in {"null", "boolean"} -> <<v.type, v.value>>
        [] v.type \in {"number", "string"} ->
             IF Unwritable(v) THEN Throws ELSE <<v.type, v.value>>
        [] v.type \in {"array", "object"} ->
             IF v.own # {} \/ AnyThrows(forms) THEN Throws ELSE <<v.type, forms>>
        [] OTHER -> Throws

\* What the frozen serialiser leaves out of an object and writes as null in an array.
Unserialisable(v) == v.type \in {"undefined", "symbol", "function"}

canonicalizeLegacy[v \in Values] ==
  LET null == <<"null", "null">>
      forms(kept) == [m \in kept |-> IF Unserialisable(v.members[m]) THEN null
                                     ELSE canonicalizeLegacy[v.members[m]]]
      array == forms(DOMAIN v.members)
      object == forms({m \in DOMAIN v.members : ~Unserialisable(v.members[m])})
  IN  CASE v.type = "undefined" -> null
        [] v.type \in {"null", "boolean", "string"} -> <<v.type, v.value>>
        [] v.type = "number" -> IF v.value = "non-finite" THEN Throws ELSE <<v.type, v.value>>
        [] v.type = "date" -> <<"string", v.value>>
        [] v.type = "array" -> IF AnyThrows(array) THEN Throws ELSE <<"array", array>>
        [] v.type = "object" -> IF AnyThrows(object) THEN Throws ELSE <<"object", object>>
        [] OTHER -> Throws

canonicalize(v, profile) ==
  IF profile = "legacy" THEN canonicalizeLegacy[v] ELSE canonicalizeRfc8785[v]
-----------------------------------------------------------------------------
Scalar(type, value) == [type |-> type, value |-> value, members |-> [m \in {} |-> m],
                       own |-> {}]

\* JSON.parse(JSON.stringify(v)): numbers that JSON cannot write and unserialisable
\* elements become null, unserialisable properties go, a date becomes its text.
Parsed[v \in Values] ==
  LET kept == {m \in DOMAIN v.members : v.type = "array" \/ ~Unserialisable(v.members[m])}
  IN  CASE Unserialisable(v) \/ (v.type = "number" /\ v.value = "non-finite") ->
             Scalar("null", "null")
        [] v.type = "date" -> Scalar("string", v.value)
        [] v.type \in {"array", "object"} ->
             [type |-> v.type, value |-> v.value,
              members |-> [m \in kept |-> Parsed[v.members[m]]], own |-> {}]
        [] OTHER -> v

\* Only arrays and objects have members, no value contains itself, and what JSON makes of a
\* value is a value.
ASSUME ValuesAssumption ==
  /\ \A v \in Values :
       /\ v = [type |-> v.type, value |-> v.value,
               members |-> [m \in DOMAIN v.members |-> v.members[m]], own |-> v.own]
       /\ \A m \in DOMAIN v.members : v.members[m] \in Values
       /\ IF v.type \in {"array", "object"} THEN v.value = ""
          ELSE DOMAIN v.members = {} /\ v.own = {}
       /\ Parsed[v] \in Values
  /\ \A part \in SUBSET Values :
       part # {} => \E v \in part : \A m \in DOMAIN v.members : v.members[m] \notin part
=============================================================================

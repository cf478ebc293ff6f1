--------------------------- MODULE CanonicalJson ---------------------------
(***************************************************************************)
(* Canonical JSON, as canonical_dumps of verify.py writes it and as         *)
(* canonicalDumps of verify_min.js does: each parses a document with its    *)
(* own language's numbers and sorts an object's keys by its own order.      *)
(*                                                                          *)
(* A JSON value is a tuple of its kind and its content:                     *)
(*   <<"null">>, <<"boolean", b>>, <<"string", s>>,                         *)
(*   <<"number", n, "digits">>   the integer n, written as one,             *)
(*   <<"number", n, "decimal">>  n with a point or an exponent (1.0, 1e2),  *)
(*   <<"fraction", x>>           a number that is not whole,                *)
(*   <<"array", q>>, q a sequence of values,                                *)
(*   <<"object", f>>, f a function from strings to values;                  *)
(* a string is the sequence of its UTF-16 code units, and well formed.  A   *)
(* canonical text is such a tuple too, with the members of an object in the *)
(* order they are written in: two texts are the same exactly when their     *)
(* tuples are.                                                              *)
(***************************************************************************)
EXTENDS Integers, Sequences, FiniteSets

CONSTANTS
  Json,    \* the values considered, with all their parts
  Depth,   \* how deep a value is nested
  MaxSafe  \* the integers up to here are doubles; 2^53 of the program

\* UTF-16 code units.
Units == 0..65535

\* Documents are finite: there are finitely many values, each nested to some
\* depth, and an object's keys are finitely many strings.
Parts(v) ==
  CASE v[1] \in {"array", "object"} -> {v[2][k] : k \in DOMAIN v[2]}
    [] OTHER -> {}

ASSUME JsonAssumption ==
  /\ IsFiniteSet(Json) /\ Depth \in [Json -> 0..Cardinality(Json)]
  /\ \A v \in Json :
       /\ \A part \in Parts(v) : part \in Json /\ Depth[part] < Depth[v]
       /\ v[1] = "object" => /\ IsFiniteSet(DOMAIN v[2])
                             /\ DOMAIN v[2] \subseteq Seq(Units)

\* Bound: |n| <= 2 * MaxSafe, where doubles are the even integers.
Double(n) ==
  IF n \in -MaxSafe..MaxSafe \/ n % 2 = 0 THEN n
  ELSE CHOOSE d \in {n - 1, n + 1} : d % 4 = 0

\* Lexicographic order of sequences of numbers.
Before(s, t) ==
  \/ /\ Len(s) < Len(t) /\ s = SubSeq(t, 1, Len(s))
  \/ \E i \in DOMAIN s \cap DOMAIN t :
       SubSeq(s, 1, i - 1) = SubSeq(t, 1, i - 1) /\ s[i] < t[i]

\* The keys in the order of what `ranks` makes of each.
Sorted(keys, ranks) ==
  [n \in 1..Cardinality(keys) |->
     CHOOSE k \in keys : Cardinality({s \in keys : Before(ranks[s], ranks[k])}) = n - 1]

\* A variant that sorts the keys downwards.
ByUnitDownwards(keys) == Sorted(keys, [k \in keys |-> [i \in DOMAIN k |-> -k[i]]])

\* JavaScript compares units.
ByUnit(keys) == Sorted(keys, [k \in keys |-> k])

\* Python compares code points: those beyond U+FFFF, which take two surrogate
\* units, come after all others.
Surrogates == 55296..57343
PointRank(u) == IF u \in Surrogates THEN u + 65536 ELSE u
ByPoint(keys) == Sorted(keys, [k \in keys |-> [i \in DOMAIN k |-> PointRank(k[i])]])

\* An exception leaves a text unwritten, whatever surrounds it.
Throws == <<"throws">>
Whole(kind, parts) == IF Throws \in {parts[i] : i \in DOMAIN parts} THEN Throws
                      ELSE <<kind, parts>>

\* An array or an object, from the texts of its parts.
ArrayText(parts) == Whole("array", parts)
ObjectText(keys, parts) ==
  LET members == Whole("object", parts) IN
  IF members = Throws THEN Throws ELSE <<"object", keys, members[2]>>

\* canonicalDumps of verify_min.js: the text of a value, given those of its
\* parts, and so of all values.
JsText(texts, v) ==
  CASE v[1] \in {"null", "boolean", "string"} -> v
    [] v[1] = "number"   -> <<"number", Double(v[2])>>
    [] v[1] = "fraction" -> Throws
    [] v[1] = "array"    -> ArrayText([i \in DOMAIN v[2] |-> texts[v[2][i]]])
    [] v[1] = "object"   ->
         LET keys == ByUnit(DOMAIN v[2]) IN
         ObjectText(keys, [i \in DOMAIN keys |-> texts[v[2][keys[i]]]])

JsForm[v \in Json] == JsText(JsForm, v)

\* canonical_dumps of verify.py: json.loads reads 1.0 as a float, and integers
\* of any size.
PyText(texts, v) ==
  CASE v[1] \in {"null", "boolean", "string"} -> v
    [] v[1] = "number"   -> IF v[3] = "digits" THEN <<"number", v[2]>>
                            ELSE <<"float", Double(v[2])>>
    [] v[1] = "fraction" -> <<"float", v[2]>>
    [] v[1] = "array"    -> ArrayText([i \in DOMAIN v[2] |-> texts[v[2][i]]])
    [] v[1] = "object"   ->
         LET keys == ByPoint(DOMAIN v[2]) IN
         ObjectText(keys, [i \in DOMAIN keys |-> texts[v[2][keys[i]]]])

PyForm[v \in Json] == PyText(PyForm, v)

=============================================================================

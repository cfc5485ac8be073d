------------------------------- MODULE Shapes -------------------------------
(***************************************************************************)
(* The shape a profile learns of an operation's output (core/shape.rs):    *)
(* inferred from each redacted payload and joined into what is stored, by  *)
(* calls, pages, examples, probes and discoveries of different processes   *)
(* (update_profile_from_call, learn_from_probe, merge_profiles).           *)
(*                                                                         *)
(* A union, sorted and without duplicates in the code, is a set.  That a   *)
(* join forgets the order of what it joins is what lets ProfileUpdates     *)
(* take a profile for a set of facts.                                      *)
(***************************************************************************)
EXTENDS Naturals, Sequences, FiniteSets, SequencesExt, Absent

CONSTANTS
    AnsweredWith,        \* the payloads a source may answer, redacted
    Stated,          \* the shapes a discovery or its owner may state, canonical
    LongTexts,       \* the texts longer than STRING_ENUM_MAX_LEN
    MostTexts,       \* STRING_ENUM_MAX_VALUES
    MaxContributions \* bound: the payloads and statements of one behaviour

ASSUME ShapesAssumption == MostTexts \in Nat \ {0} /\ MaxContributions \in Nat

VARIABLES
    learnt,          \* the operation's output_shape, None before the first
    contributed,     \* the shapes that were joined into it, as they came
    answered         \* the payloads some of them were inferred from

shapeVars == <<learnt, contributed, answered>>

-----------------------------------------------------------------------------
(* Payloads: scalars, texts, arrays and objects. *)
Plain(kind) == [kind |-> kind]
Text(text) == [kind |-> "text", text |-> text]
ListOfValues(items) == [kind |-> "array", items |-> items]
ObjectOfValues(fields) == [kind |-> "object", fields |-> fields]

(* Shapes. *)
Unknown == Plain("unknown")
AnyText == [kind |-> "string", texts |-> None]
TextIn(texts) == [kind |-> "string", texts |-> texts]
ItemsOf(items) == [kind |-> "array", items |-> items]
FieldsOf(fields, rest) == [kind |-> "object", fields |-> fields, rest |-> rest]
FieldShape(shape, optional, seen) == [shape |-> shape, optional |-> optional, seen |-> seen]
OneOf(variants) == [kind |-> "union", variants |-> variants]
Sensitive(inner) == [kind |-> "sensitive", inner |-> inner]

-----------------------------------------------------------------------------
(* Past a number of texts, or with a long one, a string is any string. *)
Capped(texts) ==
    IF Cardinality(texts) > MostTexts \/ texts \cap LongTexts # {}
    THEN AnyText ELSE TextIn(texts)

JoinStrings(left, right) ==
    IF None \in {left.texts, right.texts} THEN AnyText
    ELSE Capped(left.texts \union right.texts)

(* Faulty variant: how often a field was seen is counted. *)
SeenTogether(left, right) == left.seen + right.seen
Seen(left, right) == IF left.seen > right.seen THEN left.seen ELSE right.seen

Stringish(shape) == shape.kind \in {"string", "timestamp"}
Numeric(shape) == shape.kind \in {"integer", "number"}

RECURSIVE Canonical(_), Flattened(_), HasSensitive(_), Union(_), Join(_, _)

(* canonicalize *)
Canonical(shape) ==
    CASE shape.kind = "array" -> ItemsOf(Canonical(shape.items))
      [] shape.kind = "object" ->
            FieldsOf([f \in DOMAIN shape.fields |->
                         [shape.fields[f] EXCEPT !.shape = Canonical(@)]],
                     Canonical(shape.rest))
      [] shape.kind = "union" -> Union(shape.variants)
      [] shape.kind = "sensitive" -> Sensitive(Canonical(shape.inner))
      [] shape.kind = "string" /\ shape.texts # None -> Capped(shape.texts)
      [] OTHER -> shape

(* collect_union_variant: nested unions and sensitive shapes are opened. *)
Flattened(shape) ==
    CASE shape.kind = "union" -> UNION {Flattened(v) : v \in shape.variants}
      [] shape.kind = "sensitive" -> Flattened(shape.inner)
      [] shape.kind = "unknown" -> {}
      [] OTHER -> {Canonical(shape)}

HasSensitive(shape) ==
    \/ shape.kind = "sensitive"
    \/ shape.kind = "union" /\ \E v \in shape.variants : HasSensitive(v)

JoinOf(shapes) ==
    IF shapes = <<>> THEN Unknown ELSE FoldLeft(Join, Head(shapes), Tail(shapes))

(* canonical_union_from_flattened: one variant of each kind. *)
OneOfEachKind(variants) ==
    LET of(kinds) == SetToSeq({v \in variants : v.kind \in kinds})
        joined == {of({"string", "timestamp"}), of({"array"}), of({"object"})} \ {<<>>}
        numbers == {v \in variants : Numeric(v)}
        merged == {v \in variants : v.kind \in {"null", "boolean"}}
                  \union (IF Cardinality(numbers) = 2 THEN {Plain("number")} ELSE numbers)
                  \union {JoinOf(shapes) : shapes \in joined}
    IN  CASE merged = {} -> Unknown
          [] Cardinality(merged) = 1 -> CHOOSE v \in merged : TRUE
          [] OTHER -> OneOf(merged)

(* canonical_union: a variant that is sensitive makes all of it so. *)
Union(variants) ==
    LET normalized == OneOfEachKind(Flattened(OneOf(variants)))
    IN  IF HasSensitive(OneOf(variants)) THEN Sensitive(normalized) ELSE normalized

(* join_objects: a field of one side only is optional, and the other side has *)
(* its rest to say of it.                                                     *)
JoinObjects(left, right) ==
    FieldsOf([f \in DOMAIN left.fields \union DOMAIN right.fields |->
                 LET inLeft == f \in DOMAIN left.fields
                     inRight == f \in DOMAIN right.fields
                     l == IF inLeft THEN left.fields[f] ELSE FieldShape(left.rest, TRUE, 0)
                     r == IF inRight THEN right.fields[f] ELSE FieldShape(right.rest, TRUE, 0)
                 IN  FieldShape(Join(l.shape, r.shape), l.optional \/ r.optional, Seen(l, r))],
             Join(left.rest, right.rest))

JoinCanonical(left, right) ==
    CASE left.kind = "unknown" -> right
      [] right.kind = "unknown" -> left
      [] left.kind = "sensitive" /\ right.kind = "sensitive" ->
            Sensitive(Join(left.inner, right.inner))
      [] left.kind = "sensitive" -> Sensitive(Join(left.inner, right))
      [] right.kind = "sensitive" -> Sensitive(Join(right.inner, left))
      [] "union" \in {left.kind, right.kind} -> Union({left, right})
      [] left.kind = right.kind /\ left.kind = "string" -> JoinStrings(left, right)
      [] left.kind = right.kind /\ left.kind = "array" -> ItemsOf(Join(left.items, right.items))
      [] left.kind = right.kind /\ left.kind = "object" -> JoinObjects(left, right)
      [] left.kind = right.kind -> left
      [] Numeric(left) /\ Numeric(right) -> Plain("number")
      [] Stringish(left) /\ Stringish(right) -> AnyText
      [] OTHER -> Union({left, right})

Join(left, right) == JoinCanonical(Canonical(left), Canonical(right))

(* infer *)
RECURSIVE Infer(_)
Infer(value) ==
    CASE value.kind = "redacted" -> Sensitive(AnyText)
      [] value.kind = "text" -> Capped({value.text})
      [] value.kind = "array" -> ItemsOf(JoinOf([i \in DOMAIN value.items |-> Infer(value.items[i])]))
      [] value.kind = "object" ->
            FieldsOf([f \in DOMAIN value.fields |-> FieldShape(Infer(value.fields[f]), FALSE, 1)],
                     Unknown)
      [] OTHER -> value

-----------------------------------------------------------------------------
ShapesInit == learnt = None /\ contributed = <<>> /\ answered = {}

(* update_profile_from_call: what a call, a page or an example shows. *)
LearnOutput ==
    /\ Len(contributed) < MaxContributions
    /\ \E payload \in AnsweredWith : \E observed \in {Infer(payload)} :
          /\ learnt' = IF learnt = None THEN observed ELSE Join(learnt, observed)
          /\ contributed' = Append(contributed, observed)
          /\ answered' = answered \union {payload}

(* A discovery states a shape, its probe adds to that (learn_from_probe), and  *)
(* both are merged with what is stored by then (merge_profiles).              *)
StateOutput ==
    /\ Len(contributed) < MaxContributions
    /\ \E stated \in Stated, probed \in AnsweredWith \union {None} :
       \E shown \in {IF probed = None THEN <<stated>> ELSE <<stated, Infer(probed)>>} :
          /\ Len(contributed) + Len(shown) <= MaxContributions
          /\ learnt' = IF learnt = None THEN JoinOf(shown) ELSE Join(JoinOf(shown), learnt)
          /\ contributed' = contributed \o shown
          /\ answered' = answered \union ({probed} \ {None})

ShapesNext == LearnOutput \/ StateOutput

-----------------------------------------------------------------------------
(* What a profile has learnt depends neither on the order in which processes  *)
(* contributed, nor on which of them were joined before they were merged, nor *)
(* on what is contributed once more.                                          *)
ForgetsOrder ==
    \A order \in {o \in [DOMAIN contributed -> DOMAIN contributed] :
                      Cardinality(ToSet(o)) = Len(contributed)} :
    \A cut \in DOMAIN contributed :
        LET arrived == [i \in DOMAIN contributed |-> contributed[order[i]]]
        IN  /\ Join(JoinOf(SubSeq(arrived, 1, cut)),
                    JoinOf(SubSeq(arrived, cut + 1, Len(arrived)))) = learnt
            /\ Join(learnt, arrived[cut]) = learnt

(* What it means, by itself, that a shape describes a payload: a value that    *)
(* was redacted is marked, and a field that is not there is optional.          *)
RECURSIVE Describes(_, _)
Describes(shape, value) ==
    CASE shape.kind = "sensitive" ->
            value.kind = "redacted" \/ Describes(shape.inner, value)
      [] shape.kind = "union" -> \E variant \in shape.variants : Describes(variant, value)
      [] shape.kind = "string" /\ value.kind = "text" ->
            shape.texts = None \/ value.text \in shape.texts
      [] shape.kind = "string" -> value.kind = "timestamp" /\ shape.texts = None
      [] shape.kind = "array" /\ value.kind = "array" ->
            \A i \in DOMAIN value.items : Describes(shape.items, value.items[i])
      [] shape.kind = "object" /\ value.kind = "object" ->
            /\ DOMAIN value.fields \subseteq DOMAIN shape.fields
            /\ \A f \in DOMAIN shape.fields :
                   IF f \in DOMAIN value.fields
                   THEN Describes(shape.fields[f].shape, value.fields[f])
                   ELSE shape.fields[f].optional
      [] shape.kind = "number" -> Numeric(value)
      [] OTHER -> shape.kind = value.kind /\ shape.kind # "array" /\ shape.kind # "object"

(* Profiles are learnt as if in one step: whatever the order, and however much *)
(* was joined beforehand, the shape is the same and has room for every payload *)
(* that was seen.  INVARIANTS.md I5: "Shape join is commutative, associative,  *)
(* idempotent, monotone".                                                     *)
LearningForgetsOrder ==
    learnt # None => ForgetsOrder /\ \A payload \in answered : Describes(learnt, payload)
=============================================================================

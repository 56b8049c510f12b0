--------------------------- MODULE ResponseSchema ---------------------------
(***************************************************************************)
(* The pydantic model built from the response_format of an agent, against  *)
(* the JSON Schema it is built from.                                       *)
(*                                                                         *)
(* A schema is a record: its form (a primitive, "object", "array",         *)
(* "types", "anyOf", "enum") and its parts.  A JSON value is a record of   *)
(* its kind and its parts.                                                 *)
(***************************************************************************)
EXTENDS Naturals, Sequences, SequencesExt

Primitives == {"string", "number", "integer", "boolean"}

\* A type list or an anyOf may have "null" as one of its variants.
Variants(schema) == Range(schema.variants)

NonNull(schema) == {v \in Variants(schema) : v.form # "null"}

\* Two spellings become one field, and no alias leads back.
Sanitize(name) == IF name = "a-b" THEN "a_b" ELSE name

Plain(type) == {[is |-> type]}

\* _PRIMITIVES.get(type, str)
Primitive(form) == Plain(IF form \in Primitives THEN form ELSE "string")

WithoutNull(types, hasNull) == types

\* A type is the set of the alternatives of a union.  Nothing but null makes
\* reduce raise: Kept leaves such a union out.
JoinUnion(types, hasNull) == IF hasNull THEN types \cup Plain("null") ELSE types

RECURSIVE ObjectModel(_), PropertyType(_)

\* _build_array_model: items are objects or primitives.
ArrayModel(schema) ==
    {[is |-> "list",
      of |-> IF schema.items.form = "object"
               THEN ObjectModel(schema.items) ELSE Primitive(schema.items.form)]}

\* _build_model, for the variants of a union.
VariantType(schema) ==
    CASE schema.form = "object" -> ObjectModel(schema)
      [] schema.form = "array" -> ArrayModel(schema)
      [] OTHER -> Primitive(schema.form)

PropertyType(schema) ==
    CASE schema.form = "enum" -> {[is |-> "literal", among |-> schema.values]}
      [] schema.form \in {"anyOf", "types"} ->
           JoinUnion(UNION {VariantType(v) : v \in NonNull(schema)},
                     NonNull(schema) # Variants(schema))
      [] OTHER -> VariantType(schema)

\* _build_object_model: extra fields are ignored, optional ones default.
ObjectModel(schema) ==
    {[is |-> "model",
      fields |-> [f \in {Sanitize(p) : p \in DOMAIN schema.properties} |->
                    LET p == CHOOSE q \in DOMAIN schema.properties : Sanitize(q) = f
                    IN  [type |-> PropertyType(schema.properties[p]),
                         required |-> p \in schema.required]]]}

-----------------------------------------------------------------------------
(* What pydantic accepts, and what JSON Schema does *)

RECURSIVE Accepts(_, _), Conforms(_, _)

AcceptsOne(type, value) ==
    CASE type.is = "number" -> value.kind \in {"integer", "number"}
      [] type.is = "literal" -> value \in type.among
      [] type.is = "list" ->
           value.kind = "array" /\ \A i \in DOMAIN value.items : Accepts(type.of, value.items[i])
      [] type.is = "model" ->
           /\ value.kind = "object"
           /\ \A f \in DOMAIN type.fields :
                IF f \in DOMAIN value.members
                  THEN Accepts(type.fields[f].type, value.members[f])
                  ELSE ~type.fields[f].required
      [] OTHER -> value.kind = type.is

Accepts(type, value) == \E alternative \in type : AcceptsOne(alternative, value)

Conforms(schema, value) ==
    CASE schema.form = "number" -> value.kind \in {"integer", "number"}
      [] schema.form = "enum" -> value \in schema.values
      [] schema.form \in {"anyOf", "types"} -> \E v \in Variants(schema) : Conforms(v, value)
      [] schema.form = "array" ->
           value.kind = "array" /\ \A i \in DOMAIN value.items : Conforms(schema.items, value.items[i])
      [] schema.form = "object" ->
           /\ value.kind = "object"
           /\ schema.required \subseteq DOMAIN value.members
           /\ \A p \in DOMAIN schema.properties \cap DOMAIN value.members :
                Conforms(schema.properties[p], value.members[p])
      [] OTHER -> value.kind = schema.form

-----------------------------------------------------------------------------

\* The forms the builder keeps: names that need no sanitizing, items that are
\* objects or primitives, unions of objects, arrays and primitives.
RECURSIVE Kept(_)

Kept(schema) ==
    CASE schema.form = "object" ->
           \A p \in DOMAIN schema.properties : Sanitize(p) = p /\ Kept(schema.properties[p])
      [] schema.form = "array" ->
           schema.items.form \in Primitives \cup {"object"} /\ Kept(schema.items)
      [] schema.form \in {"anyOf", "types"} ->
           NonNull(schema) # {} /\ \A v \in NonNull(schema) : v.form # "enum" /\ Kept(v)
      [] OTHER -> TRUE

\* An answer that conforms to the response_format of the agent is never
\* refused by the model built from it, within the forms the builder keeps
\* (deepagent/schema_utils.py:12-143).
ConformingAccepted(schema, value, model) ==
    Kept(schema) /\ Conforms(schema, value) => Accepts(model, value)

=============================================================================

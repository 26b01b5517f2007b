------------------------------ MODULE Payload ------------------------------
(***************************************************************************)
(* The bounded schema profile on both sides of the generated document:     *)
(* declared fields (core's RunnableField), the JSON Encode leaves of them, *)
(* and what the harness parses back and holds a payload to.                *)
(*                                                                         *)
(* A declared field is a record with name, type, optional, nullable,       *)
(* fields and items; a pointer is a sequence of at most one element.  A    *)
(* JSON object is a function from its keys.  A payload value is a record   *)
(* of its kind, n (an integer), elements (an array's) and members (an      *)
(* object's).                                                              *)
(***************************************************************************)
EXTENDS Integers, Functions, SequencesExt

CONSTANT Width  \* bits of the signed integers of a payload, 64 in the code

IntMin == -(2 ^ (Width - 1))
IntMax == 2 ^ (Width - 1) - 1

(* `omitempty`: a key whose value is Go's zero is not written.             *)
Zero == [name |-> <<>>, optional |-> FALSE, nullable |-> FALSE, fields |-> <<>>, items |-> <<>>]
OmitEmpty(object) ==
  Restrict(object, {k \in DOMAIN object : k \in DOMAIN Zero => object[k] # Zero[k]})

RECURSIVE fieldOf(_), ParseField(_)

(* contract.go's fieldOf, encoded.                                         *)
fieldOf(field) ==
  LET Each(fields) == [i \in DOMAIN fields |-> fieldOf(fields[i])]
  IN OmitEmpty([field EXCEPT !.fields = Each(@), !.items = Each(@)])

schemaOf(fields) == [fields |-> [i \in DOMAIN fields |-> fieldOf(fields[i])]]

Get(raw, key, default) == IF key \in DOMAIN raw THEN raw[key] ELSE default

(* Field.parse and Schema.parse: every key the document omits has its      *)
(* default.                                                                *)
ParseField(raw) ==
  LET Each(fields) == [i \in DOMAIN fields |-> ParseField(fields[i])]
  IN [name |-> Get(raw, "name", <<>>), type |-> raw["type"],
      optional |-> Get(raw, "optional", FALSE), nullable |-> Get(raw, "nullable", FALSE),
      fields |-> Each(Get(raw, "fields", <<>>)), items |-> Each(Get(raw, "items", <<>>))]

ParseSchema(raw) == [i \in DOMAIN raw.fields |-> ParseField(raw.fields[i])]

RECURSIVE ValidateObject(_, _), ValidateValue(_, _)

(* _validate_object: no key but the declared ones, none missing that is    *)
(* not optional.                                                           *)
ValidateObject(fields, payload) ==
  /\ payload.kind = "object"
  /\ DOMAIN payload.members \subseteq {f.name : f \in Range(fields)}
  /\ \A f \in Range(fields) :
       IF f.name \in DOMAIN payload.members THEN ValidateValue(f, payload.members[f.name])
       ELSE f.optional

(* A Python bool is an int as well.                                        *)
IsInt(value) == value.kind \in {"integer", "boolean"}

(* Without the check that a bool is no integer.                            *)
ValidateIntegerLoosely(value) == IsInt(value) /\ value.n \in IntMin .. IntMax

ValidateInteger(value) ==
  /\ value.kind # "boolean"
  /\ IsInt(value)
  /\ value.n \in IntMin .. IntMax

ValidateValue(field, value) ==
  IF value.kind = "null" THEN field.nullable
  ELSE CASE field.type = "object" -> ValidateObject(field.fields, value)
         [] field.type = "array" ->
              /\ value.kind = "array"
              /\ \A e \in Range(value.elements) : ValidateValue(field.items[1], e)
         [] field.type = "integer" -> ValidateInteger(value)
         [] OTHER -> value.kind = field.type

-----------------------------------------------------------------------------
(* What a declared field admits, said without the steps of the above: the  *)
(* values of a finite universe that are of its type.                       *)
RECURSIVE Admits(_, _)
Admits(field, universe) ==
  LET Members(v, f) == IF f.name \in DOMAIN v.members THEN {v.members[f.name]} ELSE {}
      Objects == {v \in universe : v.kind = "object"}
      OfType ==
        CASE field.type = "integer" -> {v \in universe : v.kind = "integer" /\ v.n \in IntMin .. IntMax}
          [] field.type = "array" ->
               {v \in universe : /\ v.kind = "array"
                                 /\ Range(v.elements) \subseteq Admits(field.items[1], Range(v.elements))}
          [] field.type = "object" ->
               {v \in Objects :
                  /\ \A k \in DOMAIN v.members : \E f \in Range(field.fields) : f.name = k
                  /\ \A f \in Range(field.fields) :
                       /\ Members(v, f) \subseteq Admits(f, Members(v, f))
                       /\ ~f.optional => Members(v, f) # {}}
          [] OTHER -> {v \in universe : v.kind = field.type}
  IN {v \in universe : IF v.kind = "null" THEN field.nullable ELSE v \in OfType}
=============================================================================
